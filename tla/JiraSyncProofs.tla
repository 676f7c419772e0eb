--------------------------- MODULE JiraSyncProofs ---------------------------
(* Theorems about JiraSync: for every number of requests, activities and    *)
(* issues, whatever happens and however often.                              *)
EXTENDS JiraSync, FiniteSetTheorems, TLAPS

(* The shape of what a request carries: enough for its EXCEPTs to be read.  *)
Shape(q) ==
    /\ q \in [pc : {q.pc}, kind : {q.kind}, plan : {q.plan}, here : {q.here},
              began : {q.began}, got : {q.got}, tries : {q.tries},
              writes : {q.writes}, locks : {q.locks}]
    /\ q.got \in [key : {q.got.key}, summary : {q.got.summary}, status : {q.got.status},
                  at : {q.got.at}, name : {q.got.name}, percent : {q.got.percent}]
    /\ q.writes \in [rows : {q.writes.rows}, stamps : {q.writes.stamps},
                     gone : {q.writes.gone}, names : {q.writes.names},
                     percents : {q.writes.percents}]
    /\ q.kind \in {"push", "pull", "sync"} \/ DOMAIN q.plan = {}

\* Only a push has links to insert, only a webhook about a deletion drops one.
Purpose(q) ==
    /\ q.pc \in {"create", "insert"} => q.kind # "deleted"
    /\ q.pc = "insert" => q.here \in Entities
    /\ q.pc = "drop" => q.kind = "deleted" /\ q.here \in Entities /\ q.writes.gone = {}
    /\ q.kind = "deleted" => DOMAIN q.writes.rows = {}
    /\ q.kind # "deleted" => q.writes.gone = {}

-----------------------------------------------------------------------------
LEMMA IdleShape == Shape(Idle) /\ Purpose(Idle)
BY DEF Shape, Purpose, Idle, Nothing, NoWrites

LEMMA LockShape ==
    ASSUME NEW q, Shape(q), NEW x
    PROVE  /\ Shape(Lock(q, x))
           /\ Lock(q, x).pc = q.pc /\ Lock(q, x).kind = q.kind /\ Lock(q, x).here = q.here
           /\ Lock(q, x).plan = q.plan /\ Lock(q, x).writes = q.writes
           /\ Lock(q, x).locks = q.locks \cup {x}
BY DEF Shape, Lock

\* From item to item a request keeps its writes and its locks.
LEMMA ProceedShape ==
    ASSUME NEW r \in Requests, NEW n, Shape(n), Proceed(r, n)
    PROVE  \E p : /\ req' = [req EXCEPT ![r] = p] /\ Shape(p)
                  /\ p.kind = n.kind /\ p.writes = n.writes /\ p.locks = n.locks
                  /\ \/ p.pc = "commit"
                     \/ p.pc \in {"create", "update", "fetch", "aim"}
                        /\ p.kind \in {"push", "pull", "sync"}
<1>1. CASE DOMAIN n.plan = {} /\ Put(r, [n EXCEPT !.pc = "commit", !.here = "nobody"])
  <2> DEFINE p == [n EXCEPT !.pc = "commit", !.here = "nobody"]
  <2>1. Shape(p) /\ p.kind = n.kind /\ p.writes = n.writes /\ p.locks = n.locks /\ p.pc = "commit"
    BY DEF Shape
  <2> QED
    BY <1>1, <2>1 DEF Put
<1>2. ASSUME NEW e \in Turns(n.plan),
             Put(r, [n EXCEPT !.pc = FirstStep(n.kind, n.plan[e]), !.here = e])
      PROVE  \E p : /\ req' = [req EXCEPT ![r] = p] /\ Shape(p)
                    /\ p.kind = n.kind /\ p.writes = n.writes /\ p.locks = n.locks
                    /\ p.pc \in {"create", "update", "fetch", "aim"}
                    /\ p.kind \in {"push", "pull", "sync"}
  <2> DEFINE p == [n EXCEPT !.pc = FirstStep(n.kind, n.plan[e]), !.here = e]
  <2>1. n.kind \in {"push", "pull", "sync"}
    BY DEF Shape, Turns
  <2>2. FirstStep(n.kind, n.plan[e]) \in {"create", "update", "fetch", "aim"}
    BY <2>1 DEF FirstStep
  <2>3. Shape(p) /\ p.kind = n.kind /\ p.writes = n.writes /\ p.locks = n.locks
        /\ p.pc = FirstStep(n.kind, n.plan[e])
    BY <2>1 DEF Shape
  <2> QED
    BY <1>2, <2>1, <2>2, <2>3 DEF Put
<1> QED
  BY <1>1, <1>2 DEF Proceed

LEMMA NextItemShape ==
    ASSUME NEW r \in Requests, NEW q, Shape(q), NextItem(r, q)
    PROVE  \E n : /\ Shape(n) /\ Proceed(r, n)
                  /\ n.kind = q.kind /\ n.writes = q.writes /\ n.locks = q.locks
<1> DEFINE n == [q EXCEPT !.plan = [e \in DOMAIN @ \ {q.here} |-> @[e]],
                          !.got = Nothing, !.tries = 0]
<1>1. /\ n.kind = q.kind /\ n.writes = q.writes /\ n.locks = q.locks
      /\ n.plan = [e \in DOMAIN q.plan \ {q.here} |-> q.plan[e]]
      /\ n.got = Nothing
      /\ n \in [pc : {n.pc}, kind : {n.kind}, plan : {n.plan}, here : {n.here},
                began : {n.began}, got : {n.got}, tries : {n.tries},
                writes : {n.writes}, locks : {n.locks}]
  BY DEF Shape
<1>2. Shape(n)
  BY <1>1 DEF Shape, Nothing
<1>3. Proceed(r, n)
  BY DEF NextItem
<1> QED
  BY <1>1, <1>2, <1>3

-----------------------------------------------------------------------------
(* The invariant. Keys are given out in order. A row that a request has     *)
(* inserted but not committed is the only one of its entity and of its      *)
(* issue, and the request holds the lock; an issue just created belongs to  *)
(* the request that is about to insert its row.                             *)
IssueShape ==
    /\ issue = [k \in Keys |-> issue[k]]
    /\ \A k \in Keys :
          issue[k] \in [state : {issue[k].state}, owner : {issue[k].owner},
                        summary : {issue[k].summary}, status : {issue[k].status},
                        updated : {issue[k].updated}]

KeysInOrder == \E m \in 0 .. MaxIssues : Created = 1 .. m

LinkShape ==
    /\ link = [e \in Entities |-> link[e]]
    /\ \A e \in Entities :
          /\ link[e] \in [state : {link[e].state}, key : {link[e].key},
                          direction : {link[e].direction}, stamp : {link[e].stamp},
                          rank : {link[e].rank}]
          /\ link[e].state # "none" =>
                /\ link[e].state \in {"live", "gone"}
                /\ link[e].key \in Keys
                /\ link[e].direction \in Directions

OneHolder ==
    \A r, s \in Requests : r # s => req[r].locks \cap req[s].locks = {}

NewRow(row) ==
    /\ row \in [state : {row.state}, key : {row.key}, direction : {row.direction},
                stamp : {row.stamp}, rank : {row.rank}]
    /\ row.state = "live" /\ row.direction \in Directions

RowsPending ==
    \A r \in Requests : \A e \in DOMAIN req[r].writes.rows :
        /\ e \in Entities /\ <<"link", e>> \in req[r].locks
        /\ link[e].state = "none"
        /\ NewRow(req[r].writes.rows[e])
        /\ req[r].writes.rows[e].key \in Created
        /\ \A f \in Entities : link[f].key # req[r].writes.rows[e].key

RowsDiffer ==
    \A r, s \in Requests :
        \A e \in DOMAIN req[r].writes.rows, f \in DOMAIN req[s].writes.rows :
            req[r].writes.rows[e].key = req[s].writes.rows[f].key => r = s /\ e = f

KeysAwaited ==
    \A r \in Requests : req[r].pc = "insert" =>
        /\ req[r].got.key \in Created
        /\ \A s \in Requests :
              /\ \A f \in DOMAIN req[s].writes.rows :
                    req[s].writes.rows[f].key # req[r].got.key
              /\ s # r /\ req[s].pc = "insert" => req[s].got.key # req[r].got.key

OnlyLinksGo ==
    \A r \in Requests :
        /\ \A e \in req[r].writes.gone : e \in Entities /\ link[e].state # "none"
        /\ \A e, f \in req[r].writes.gone : e = f
        /\ req[r].pc = "drop" => link[req[r].here].state # "none"

RequestShape ==
    /\ req = [r \in Requests |-> req[r]]
    /\ \A r \in Requests : Shape(req[r]) /\ Purpose(req[r])

IInv == /\ IssueShape /\ KeysInOrder /\ LinkShape /\ RequestShape
        /\ OneHolder /\ RowsPending /\ RowsDiffer /\ KeysAwaited /\ OnlyLinksGo

(* What a request may carry into its next step, and the steps that ask for  *)
(* more.                                                                    *)
Carried(r, q) ==
    /\ Shape(q)
    /\ q.kind = "deleted" => DOMAIN q.writes.rows = {}
    /\ q.kind # "deleted" => q.writes.gone = {}
    /\ \A e \in DOMAIN q.writes.rows :
          /\ e \in DOMAIN req[r].writes.rows
          /\ q.writes.rows[e] = req[r].writes.rows[e]
          /\ <<"link", e>> \in q.locks
    /\ \A e \in q.writes.gone : e \in Entities /\ link[e].state # "none"
    /\ \A e, f \in q.writes.gone : e = f
    /\ \A s \in Requests : s # r => q.locks \cap req[s].locks = {}

Ready(p) ==
    /\ p.pc \in {"create", "insert"} => p.kind # "deleted"
    /\ p.pc = "insert" => p.here \in Entities /\ p.got.key \in Created' \ Created
    /\ p.pc = "drop" => /\ p.kind = "deleted" /\ p.here \in Entities
                        /\ p.writes.gone = {} /\ link[p.here].state # "none"

-----------------------------------------------------------------------------
\* A step that leaves the links alone keeps the invariant when the request
\* carries on with what it had.
LEMMA StepKeepsInv ==
    ASSUME IInv, NEW r \in Requests, NEW p, req' = [req EXCEPT ![r] = p],
           Carried(r, p), Ready(p),
           link' = link, IssueShape', KeysInOrder', Created \subseteq Created'
    PROVE  IInv'
<1>1. req'[r] = p /\ \A s \in Requests : s # r => req'[s] = req[s]
  BY DEF IInv, RequestShape
<1>2. RequestShape'
  <2>1. Purpose(p)
    BY DEF Carried, Ready, Purpose
  <2>2. req' = [s \in Requests |-> req'[s]]
    BY DEF IInv, RequestShape
  <2>3. \A s \in Requests : Shape(req'[s]) /\ Purpose(req'[s])
    BY <1>1, <2>1 DEF IInv, RequestShape, Carried
  <2> QED
    BY <2>2, <2>3 DEF RequestShape
<1>3. LinkShape'
  BY DEF IInv, LinkShape
<1>4. OneHolder'
  BY <1>1 DEF IInv, OneHolder, Carried
<1>5. RowsPending'
  <2> SUFFICES ASSUME NEW s \in Requests, NEW e \in DOMAIN req'[s].writes.rows
               PROVE  /\ e \in Entities /\ <<"link", e>> \in req'[s].locks
                      /\ link[e].state = "none"
                      /\ NewRow(req'[s].writes.rows[e])
                      /\ req'[s].writes.rows[e].key \in Created'
                      /\ \A f \in Entities : link[f].key # req'[s].writes.rows[e].key
    BY DEF RowsPending
  <2>1. e \in DOMAIN req[s].writes.rows /\ req'[s].writes.rows[e] = req[s].writes.rows[e]
    BY <1>1 DEF Carried
  <2>2. <<"link", e>> \in req'[s].locks
    BY <1>1, <2>1 DEF IInv, RowsPending, Carried
  <2> QED
    BY <2>1, <2>2 DEF IInv, RowsPending
<1>6. \A s \in Requests : \A e \in DOMAIN req'[s].writes.rows :
          e \in DOMAIN req[s].writes.rows /\ req'[s].writes.rows[e] = req[s].writes.rows[e]
  BY <1>1 DEF Carried
<1>7. RowsDiffer'
  BY <1>6 DEF IInv, RowsDiffer
<1>8. KeysAwaited'
  <2>1. \A s \in Requests : \A e \in DOMAIN req'[s].writes.rows :
            req'[s].writes.rows[e].key \in Created
    BY <1>6 DEF IInv, RowsPending
  <2>2. \A s \in Requests : s # r /\ req[s].pc = "insert" => req[s].got.key \in Created
    BY DEF IInv, KeysAwaited
  <2>3. p.pc = "insert" => p.got.key \in Created' \ Created
    BY DEF Ready
  <2>4. ASSUME req'[r].pc = "insert"
        PROVE  /\ req'[r].got.key \in Created'
               /\ \A s \in Requests :
                     /\ \A f \in DOMAIN req'[s].writes.rows :
                           req'[s].writes.rows[f].key # req'[r].got.key
                     /\ s # r /\ req'[s].pc = "insert" => req'[s].got.key # req'[r].got.key
    BY <1>1, <2>1, <2>2, <2>3, <2>4
  <2>5. ASSUME NEW t \in Requests, t # r, req'[t].pc = "insert"
        PROVE  /\ req'[t].got.key \in Created'
               /\ \A s \in Requests :
                     /\ \A f \in DOMAIN req'[s].writes.rows :
                           req'[s].writes.rows[f].key # req'[t].got.key
                     /\ s # t /\ req'[s].pc = "insert" => req'[s].got.key # req'[t].got.key
    <3>1. req'[t] = req[t] /\ req[t].pc = "insert"
      BY <1>1, <2>5
    <3>2. req[t].got.key \in Created
      BY <3>1 DEF IInv, KeysAwaited
    <3>3. ASSUME NEW s \in Requests, NEW f \in DOMAIN req'[s].writes.rows
          PROVE  req'[s].writes.rows[f].key # req'[t].got.key
      BY <1>6, <3>1 DEF IInv, KeysAwaited
    <3>4. ASSUME NEW s \in Requests, s # t, req'[s].pc = "insert"
          PROVE  req'[s].got.key # req'[t].got.key
      <4>1. CASE s = r
        BY <1>1, <2>3, <3>1, <3>2, <3>4, <4>1
      <4>2. CASE s # r
        BY <1>1, <3>1, <3>4, <4>2 DEF IInv, KeysAwaited
      <4> QED
        BY <4>1, <4>2
    <3> QED
      BY <3>1, <3>2, <3>3, <3>4
  <2> QED
    BY <2>4, <2>5 DEF KeysAwaited
<1>9. OnlyLinksGo'
  BY <1>1 DEF IInv, OnlyLinksGo, Carried, Ready
<1> QED
  BY <1>2, <1>3, <1>4, <1>5, <1>7, <1>8, <1>9 DEF IInv

-----------------------------------------------------------------------------
\* The tracker's keys: a new issue has one that nobody has seen.
LEMMA NewIssueKeeps ==
    ASSUME IssueShape, KeysInOrder, NEW owner, NEW text, NewIssue(owner, text)
    PROVE  /\ IssueShape' /\ KeysInOrder' /\ Created \subseteq Created'
           /\ NextKey \in Created' \ Created
<1>1. PICK m \in 0 .. MaxIssues : Created = 1 .. m
  BY DEF KeysInOrder
<1>2. Cardinality(Created) = m
  BY <1>1, FS_Interval
<1>3. NextKey = m + 1 /\ NextKey \in Keys
  BY <1>2 DEF NextKey, NewIssue
<1>4. issue' = [issue EXCEPT ![NextKey] =
                    [state |-> "open", owner |-> owner, summary |-> text,
                     status |-> "To Do", updated |-> clock + 1]]
  BY DEF NewIssue
<1>5. IssueShape'
  BY <1>3, <1>4 DEF IssueShape
<1>6. Created' = Created \cup {NextKey}
  BY <1>3, <1>4 DEF Created, IssueShape
<1>7. m + 1 \in 0 .. MaxIssues /\ Created' = 1 .. (m + 1)
  BY <1>1, <1>3, <1>6, MaxIssuesAssumption DEF Keys
<1>8. KeysInOrder'
  BY <1>7 DEF KeysInOrder
<1> QED
  BY <1>1, <1>3, <1>5, <1>6, <1>8

LEMMA EditIssueKeeps ==
    ASSUME IssueShape, KeysInOrder, NEW k, NEW text, NEW s, EditIssue(k, text, s)
    PROVE  IssueShape' /\ KeysInOrder' /\ Created' = Created
<1>1. issue' = [issue EXCEPT ![k].summary = text, ![k].status = s, ![k].updated = clock + 1]
  BY DEF EditIssue
<1>2. CASE k \in Keys
  <2>1. IssueShape'
    BY <1>1, <1>2 DEF IssueShape
  <2>2. \A j \in Keys : issue'[j].state = issue[j].state
    BY <1>1, <1>2 DEF IssueShape
  <2>3. Created' = Created
    BY <2>2 DEF Created
  <2> QED
    BY <2>1, <2>3 DEF KeysInOrder
<1>3. CASE k \notin Keys
  <2>1. issue' = issue
    BY <1>1, <1>3 DEF IssueShape
  <2> QED
    BY <2>1 DEF IssueShape, KeysInOrder, Created
<1> QED
  BY <1>2, <1>3

LEMMA UserErasesKeeps ==
    ASSUME IssueShape, KeysInOrder, NEW k \in Keys, UserErasesIssue(k)
    PROVE  IssueShape' /\ KeysInOrder' /\ Created' = Created
<1>1. issue' = [issue EXCEPT ![k].state = "deleted"] /\ issue[k].state = "open"
  BY DEF UserErasesIssue, Open
<1>2. IssueShape'
  BY <1>1 DEF IssueShape
<1>3. \A j \in Keys : issue'[j].state # "none" <=> issue[j].state # "none"
  BY <1>1 DEF IssueShape
<1>4. Created' = Created
  BY <1>3 DEF Created
<1> QED
  BY <1>2, <1>4 DEF KeysInOrder

LEMMA SameIssuesKeep ==
    ASSUME IssueShape, KeysInOrder, issue' = issue
    PROVE  IssueShape' /\ KeysInOrder' /\ Created' = Created
BY DEF IssueShape, KeysInOrder, Created

-----------------------------------------------------------------------------
\* What a request has now it may carry on, also with one lock more.
LEMMA CarriesItself ==
    ASSUME IInv, NEW r \in Requests
    PROVE  Carried(r, req[r])
<1>1. Shape(req[r]) /\ Purpose(req[r])
  BY DEF IInv, RequestShape
<1> QED
  BY <1>1 DEF IInv, Carried, Purpose, RowsPending, OnlyLinksGo, OneHolder

LEMMA CarriesLock ==
    ASSUME NEW r \in Requests, NEW q, Carried(r, q), NEW x, Free(x, r)
    PROVE  Carried(r, Lock(q, x))
<1>1. Shape(q)
  BY DEF Carried
<1> DEFINE l == Lock(q, x)
<1>2. /\ Shape(l) /\ l.kind = q.kind /\ l.writes = q.writes
      /\ l.locks = q.locks \cup {x}
  BY <1>1, LockShape
<1> HIDE DEF l
<1> QED
  BY <1>2 DEF Carried, Free, l

LEMMA CarriesOver ==
    ASSUME NEW r \in Requests, NEW q, Carried(r, q), NEW p, Shape(p),
           p.kind = q.kind, p.locks = q.locks,
           p.writes.rows = q.writes.rows, p.writes.gone = q.writes.gone
    PROVE  Carried(r, p)
BY DEF Carried

\* The request goes on with what it has, or with less.
Goes(r) == \E p : req' = [req EXCEPT ![r] = p] /\ Carried(r, p) /\ Ready(p)

LEMMA ProceedGoes ==
    ASSUME NEW r \in Requests, NEW q, Carried(r, q), Proceed(r, q)
    PROVE  Goes(r)
<1>1. Shape(q)
  BY DEF Carried
<1>2. PICK p : /\ req' = [req EXCEPT ![r] = p] /\ Shape(p)
               /\ p.kind = q.kind /\ p.writes = q.writes /\ p.locks = q.locks
               /\ \/ p.pc = "commit"
                  \/ p.pc \in {"create", "update", "fetch", "aim"}
                     /\ p.kind \in {"push", "pull", "sync"}
  BY <1>1, ProceedShape
<1>3. Carried(r, p)
  BY <1>2, CarriesOver
<1>4. Ready(p)
  BY <1>2 DEF Ready
<1> QED
  BY <1>2, <1>3, <1>4 DEF Goes

LEMMA NextItemGoes ==
    ASSUME NEW r \in Requests, NEW q, Carried(r, q), NextItem(r, q)
    PROVE  Goes(r)
<1>1. Shape(q)
  BY DEF Carried
<1>2. PICK n : /\ Shape(n) /\ Proceed(r, n)
               /\ n.kind = q.kind /\ n.writes = q.writes /\ n.locks = q.locks
  BY <1>1, NextItemShape
<1>3. Carried(r, n)
  BY <1>2, CarriesOver
<1> QED
  BY <1>2, <1>3, ProceedGoes

LEMMA IdleCarries ==
    ASSUME NEW r \in Requests
    PROVE  Carried(r, Idle) /\ Ready(Idle)
BY IdleShape DEF Carried, Ready, Idle, NoWrites

LEMMA RollBackGoes ==
    ASSUME NEW r \in Requests, RollBack(r)
    PROVE  Goes(r)
BY IdleCarries DEF RollBack, Put, Goes

\* A call that is tried again leaves the request as it is.
LEMMA RetryGoes ==
    ASSUME IInv, NEW r \in Requests, req[r].pc \notin {"insert", "drop"},
           Put(r, [req[r] EXCEPT !.tries = @ + 1])
    PROVE  Goes(r)
<1> DEFINE q == req[r]
           p == [q EXCEPT !.tries = @ + 1]
<1>1. Shape(q) /\ Purpose(q)
  BY DEF IInv, RequestShape
<1>2. Shape(p) /\ p.kind = q.kind /\ p.locks = q.locks /\ p.writes = q.writes /\ p.pc = q.pc
  BY <1>1 DEF Shape
<1>3. Carried(r, p)
  BY <1>2, CarriesItself, CarriesOver
<1>4. Ready(p)
  BY <1>1, <1>2 DEF Ready, Purpose
<1> QED
  BY <1>3, <1>4 DEF Put, Goes

LEMMA GoesKeepsInv ==
    ASSUME IInv, NEW r \in Requests, Goes(r), link' = link,
           IssueShape', KeysInOrder', Created \subseteq Created'
    PROVE  IInv'
BY StepKeepsInv DEF Goes

\* Users and edits that touch neither the links nor the requests.
LEMMA ElsewhereKeepsInv ==
    ASSUME IInv, UNCHANGED <<req, link>>,
           IssueShape', KeysInOrder', Created \subseteq Created'
    PROVE  IInv'
<1>1. RowsPending'
  BY DEF IInv, RowsPending
<1>2. KeysAwaited'
  BY DEF IInv, KeysAwaited
<1>3. LinkShape' /\ RequestShape'
  BY DEF IInv, LinkShape, RequestShape
<1>4. OneHolder' /\ RowsDiffer'
  BY DEF IInv, OneHolder, RowsDiffer
<1>5. OnlyLinksGo'
  BY DEF IInv, OnlyLinksGo
<1> QED
  BY <1>1, <1>2, <1>3, <1>4, <1>5 DEF IInv

-----------------------------------------------------------------------------
(* The steps of a request that leave the links alone.                       *)

LEMMA Frame ==
    ASSUME IInv
    PROVE  /\ IssueShape /\ KeysInOrder
           /\ \A r \in Requests : Shape(req[r]) /\ Purpose(req[r]) /\ Carried(r, req[r])
BY CarriesItself DEF IInv, RequestShape

LEMMA CreateKeepsInv ==
    ASSUME IInv, NEW r \in Requests, Create(r)
    PROVE  IInv'
<1> DEFINE q == req[r]
           e == q.here
           text == IF e \in Entities THEN q.plan[e].name ELSE clock + 1
           p == [q EXCEPT !.pc = "insert", !.tries = 0,
                          !.got = [@ EXCEPT !.key = NextKey, !.at = clock + 1]]
<1>1. Shape(q) /\ Purpose(q) /\ Carried(r, q) /\ q.pc = "create" /\ IssueShape /\ KeysInOrder
  BY Frame DEF Create
<1>2. ASSUME NewIssue(e, text), e \in Entities, Put(r, p)
      PROVE  Goes(r)
  <2>1. /\ Shape(p) /\ p.kind = q.kind /\ p.locks = q.locks /\ p.writes = q.writes
        /\ p.pc = "insert" /\ p.here = q.here /\ p.got.key = NextKey
    BY <1>1 DEF Shape
  <2>2. Carried(r, p)
    BY <1>1, <2>1, CarriesOver
  <2>3. NextKey \in Created' \ Created
    BY <1>1, <1>2, NewIssueKeeps
  <2>4. Ready(p)
    BY <1>1, <1>2, <2>1, <2>3 DEF Ready, Purpose
  <2> QED
    BY <1>2, <2>2, <2>4 DEF Put, Goes
<1>3. CASE /\ NewIssue(e, text)
           /\ IF e \in Entities THEN Put(r, p) ELSE NextItem(r, q)
           /\ Quietly
  <2>1. Goes(r)
    BY <1>1, <1>2, <1>3, NextItemGoes
  <2>2. link' = link
    BY <1>3 DEF Quietly, database
  <2> HIDE DEF text, e
  <2> QED
    BY <1>1, <1>3, <2>1, <2>2, NewIssueKeeps, GoesKeepsInv
<1>4. CASE Fault(r, NewIssue(e, text), NextItem(r, q))
  <2>1. /\ NewIssue(e, text) \/ UNCHANGED jira
        /\ Put(r, [req[r] EXCEPT !.tries = @ + 1]) \/ NextItem(r, q)
        /\ link' = link
    BY <1>4 DEF Fault, database
  <2>2. Goes(r)
    BY <1>1, <2>1, RetryGoes, NextItemGoes
  <2>3. IssueShape' /\ KeysInOrder' /\ Created \subseteq Created'
    <3> HIDE DEF text, e
    <3> QED
      BY <1>1, <2>1, NewIssueKeeps, SameIssuesKeep DEF jira
  <2> QED
    BY <2>1, <2>2, <2>3, GoesKeepsInv
<1> QED
  BY <1>3, <1>4 DEF Create

LEMMA EditingKeepsInv ==
    ASSUME IInv, NEW r \in Requests, Update(r) \/ Transition(r)
    PROVE  IInv'
<1> DEFINE q == req[r]
           p == [q EXCEPT !.pc = "touch", !.tries = 0]
<1>1. Shape(q) /\ Carried(r, q) /\ IssueShape /\ KeysInOrder /\ q.pc \notin {"insert", "drop"}
  BY Frame DEF Update, Transition
<1>2. Put(r, p) => Goes(r)
  <2>1. /\ Shape(p) /\ p.kind = q.kind /\ p.locks = q.locks /\ p.writes = q.writes
        /\ p.pc = "touch"
    BY <1>1 DEF Shape
  <2>2. Carried(r, p) /\ Ready(p)
    BY <1>1, <2>1, CarriesOver DEF Ready
  <2> QED
    BY <2>2 DEF Put, Goes
<1>3. NextItem(r, q) => Goes(r)
  BY <1>1, NextItemGoes
<1>4. Put(r, [req[r] EXCEPT !.tries = @ + 1]) => Goes(r)
  BY <1>1, RetryGoes
<1>5. link' = link
  BY DEF Update, Transition, Fault, Inside, Quietly, database
<1>6. Put(r, p) \/ NextItem(r, q) \/ Put(r, [req[r] EXCEPT !.tries = @ + 1])
  BY DEF Update, Transition, Fault
<1>7. issue' = issue \/ \E k, text, s : EditIssue(k, text, s)
  BY DEF Update, Transition, Fault, Inside, jira
<1>8. IssueShape' /\ KeysInOrder' /\ Created \subseteq Created'
  BY <1>1, <1>7, EditIssueKeeps, SameIssuesKeep
<1> HIDE DEF p
<1> QED
  BY <1>2, <1>3, <1>4, <1>5, <1>6, <1>8, GoesKeepsInv

\* The other steps leave Jira alone too.
LEMMA GoesInside ==
    ASSUME IInv, NEW r \in Requests, Goes(r), UNCHANGED <<link, issue>>
    PROVE  IInv'
<1>1. IssueShape' /\ KeysInOrder' /\ Created' = Created
  BY SameIssuesKeep DEF IInv
<1> QED
  BY <1>1, GoesKeepsInv

LEMMA TouchGoes ==
    ASSUME IInv, NEW r \in Requests, Touch(r)
    PROVE  Goes(r)
<1>1. Free(<<"link", req[r].here>>, r) /\ NextItem(r, Lock(req[r], <<"link", req[r].here>>))
  BY DEF Touch
<1> QED
  BY <1>1, Frame, CarriesLock, NextItemGoes

LEMMA FetchGoes ==
    ASSUME IInv, NEW r \in Requests, Fetch(r)
    PROVE  Goes(r)
<1> DEFINE q == req[r]
           seen == issue[q.plan[q.here].key]
           p == [q EXCEPT !.pc = "read", !.tries = 0,
                          !.got = [@ EXCEPT !.summary = seen.summary,
                                            !.status = seen.status, !.at = seen.updated]]
<1>1. Shape(q) /\ Carried(r, q) /\ q.pc = "fetch"
  BY Frame DEF Fetch
<1>2. Put(r, p) => Goes(r)
  <2>1. /\ Shape(p) /\ p.kind = q.kind /\ p.locks = q.locks /\ p.writes = q.writes
        /\ p.pc = "read"
    BY <1>1 DEF Shape
  <2>2. Carried(r, p) /\ Ready(p)
    BY <1>1, <2>1, CarriesOver DEF Ready
  <2> QED
    BY <2>2 DEF Put, Goes
<1>3. Put(r, p) \/ NextItem(r, q) \/ Put(r, [req[r] EXCEPT !.tries = @ + 1])
  BY DEF Fetch, Fault
<1> QED
  BY <1>1, <1>2, <1>3, RetryGoes, NextItemGoes

LEMMA ReadGoes ==
    ASSUME IInv, NEW r \in Requests, Read(r)
    PROVE  Goes(r)
<1> DEFINE q == req[r]
           e == q.here
<1>1. Shape(q) /\ Carried(r, q)
  BY Frame
<1>2. ASSUME NEW n, NEW m,
             Put(r, [q EXCEPT !.pc = "write", !.writes.names = n, !.writes.percents = m])
      PROVE  Goes(r)
  <2> DEFINE p == [q EXCEPT !.pc = "write", !.writes.names = n, !.writes.percents = m]
  <2>1. /\ Shape(p) /\ p.kind = q.kind /\ p.locks = q.locks /\ p.pc = "write"
        /\ p.writes.rows = q.writes.rows /\ p.writes.gone = q.writes.gone
    BY <1>1 DEF Shape
  <2>2. Carried(r, p) /\ Ready(p)
    BY <1>1, <2>1, CarriesOver DEF Ready
  <2> QED
    BY <1>2, <2>2 DEF Put, Goes
<1>3. NextItem(r, q) \/ \E n, m :
          Put(r, [q EXCEPT !.pc = "write", !.writes.names = n, !.writes.percents = m])
  BY DEF Read
<1> QED
  BY <1>1, <1>2, <1>3, NextItemGoes

LEMMA WriteGoes ==
    ASSUME IInv, NEW r \in Requests, Write(r)
    PROVE  Goes(r)
<1> DEFINE q == Lock(req[r], <<"entity", req[r].here>>)
           p == [q EXCEPT !.pc = "stamp"]
<1>1. Carried(r, q)
  BY Frame, CarriesLock DEF Write
<1>2. Put(r, p) \/ NextItem(r, q)
  BY DEF Write
<1> HIDE DEF q
<1>3. Put(r, p) => Goes(r)
  <2>1. Shape(q)
    BY <1>1 DEF Carried
  <2>2. /\ Shape(p) /\ p.kind = q.kind /\ p.locks = q.locks /\ p.writes = q.writes
        /\ p.pc = "stamp"
    BY <2>1 DEF Shape
  <2>3. Carried(r, p) /\ Ready(p)
    BY <1>1, <2>2, CarriesOver DEF Ready
  <2> QED
    BY <2>3 DEF Put, Goes
<1> QED
  BY <1>1, <1>2, <1>3, NextItemGoes

LEMMA StampGoes ==
    ASSUME IInv, NEW r \in Requests, Stamp(r)
    PROVE  Goes(r)
<1> DEFINE e == req[r].here
           s == [req[r] EXCEPT !.writes.stamps = With(@, e, req[r].got.at)]
           q == Lock(s, <<"link", e>>)
           p == [q EXCEPT !.pc = "read"]
<1>1. Shape(req[r]) /\ Carried(r, req[r])
  BY Frame
<1>2. Shape(s) /\ s.kind = req[r].kind /\ s.locks = req[r].locks
      /\ s.writes.rows = req[r].writes.rows /\ s.writes.gone = req[r].writes.gone
  BY <1>1 DEF Shape
<1>3. Carried(r, s)
  BY <1>1, <1>2, CarriesOver
<1>4. Carried(r, q)
  BY <1>3, CarriesLock DEF Stamp
<1>5. Put(r, p) \/ NextItem(r, q)
  BY DEF Stamp
<1> HIDE DEF q
<1>6. Put(r, p) => Goes(r)
  <2>1. Shape(q)
    BY <1>4 DEF Carried
  <2>2. /\ Shape(p) /\ p.kind = q.kind /\ p.locks = q.locks /\ p.writes = q.writes
        /\ p.pc = "read"
    BY <2>1 DEF Shape
  <2>3. Carried(r, p) /\ Ready(p)
    BY <1>4, <2>2, CarriesOver DEF Ready
  <2> QED
    BY <2>3 DEF Put, Goes
<1> QED
  BY <1>4, <1>5, <1>6, NextItemGoes

LEMMA DropGoes ==
    ASSUME IInv, NEW r \in Requests, Drop(r)
    PROVE  Goes(r)
<1> DEFINE q == req[r]
           e == q.here
           s == [q EXCEPT !.writes.gone = @ \cup {e}]
<1>1. /\ Shape(q) /\ Carried(r, q)
      /\ q.kind = "deleted" /\ e \in Entities /\ q.writes.gone = {}
      /\ link[e].state # "none"
  BY Frame DEF Drop, Purpose, IInv, OnlyLinksGo
<1>2. /\ Shape(s) /\ s.kind = q.kind /\ s.locks = q.locks
      /\ s.writes.rows = q.writes.rows /\ s.writes.gone = {e}
  BY <1>1 DEF Shape
<1>3. Carried(r, s)
  BY <1>1, <1>2 DEF Carried
<1>4. Free(<<"link", e>>, r) /\ NextItem(r, Lock(s, <<"link", e>>))
  BY DEF Drop
<1> HIDE DEF s
<1> QED
  BY <1>3, <1>4, CarriesLock, NextItemGoes

LEMMA AimGoes ==
    ASSUME IInv, NEW r \in Requests, Aim(r)
    PROVE  Goes(r)
<1> DEFINE q == req[r]
           p == [q EXCEPT !.pc = "compare", !.got.status = StatusOf(percent[q.here])]
<1>1. Shape(q) /\ Carried(r, q)
  BY Frame
<1>2. /\ Shape(p) /\ p.kind = q.kind /\ p.locks = q.locks /\ p.writes = q.writes
      /\ p.pc = "compare"
  BY <1>1 DEF Shape
<1>3. Carried(r, p) /\ Ready(p)
  BY <1>1, <1>2, CarriesOver DEF Ready
<1>4. Put(r, p) \/ NextItem(r, q)
  BY DEF Aim
<1> QED
  BY <1>1, <1>3, <1>4, NextItemGoes DEF Put, Goes

LEMMA CompareGoes ==
    ASSUME IInv, NEW r \in Requests, Compare(r)
    PROVE  Goes(r)
<1> DEFINE q == req[r]
           next == IF issue[q.plan[q.here].key].status = q.got.status
                   THEN "touch" ELSE "transition"
           p == [q EXCEPT !.pc = next, !.tries = 0]
<1>1. Shape(q) /\ Carried(r, q) /\ q.pc = "compare"
  BY Frame DEF Compare
<1>2. /\ Shape(p) /\ p.kind = q.kind /\ p.locks = q.locks /\ p.writes = q.writes
      /\ p.pc \in {"touch", "transition"}
  BY <1>1 DEF Shape
<1>3. Carried(r, p) /\ Ready(p)
  BY <1>1, <1>2, CarriesOver DEF Ready
<1>4. Put(r, p) \/ NextItem(r, q) \/ Put(r, [req[r] EXCEPT !.tries = @ + 1])
  BY DEF Compare, Fault
<1>5. Put(r, p) => Goes(r)
  BY <1>3 DEF Put, Goes
<1> QED
  BY <1>1, <1>4, <1>5, RetryGoes, NextItemGoes

LEMMA VictimGoes ==
    ASSUME NEW r \in Requests, Victim(r)
    PROVE  Goes(r)
BY RollBackGoes DEF Victim

-----------------------------------------------------------------------------
(* Requests that begin.                                                     *)

LEMMA StartGoes ==
    ASSUME IInv, NEW r \in Requests, NEW kind \in {"push", "pull", "sync"}, NEW plan,
           Start(r, kind, plan)
    PROVE  Goes(r)
<1> DEFINE q == [Idle EXCEPT !.kind = kind, !.plan = plan,
                              !.began = IF kind = "push" THEN clock ELSE 0]
<1>1. Shape(q) /\ q.kind = kind /\ q.locks = Idle.locks /\ q.writes = Idle.writes
  BY IdleShape DEF Shape, Idle
<1>2. Carried(r, q)
  BY <1>1, IdleShape DEF Carried, Idle, NoWrites
<1>3. Proceed(r, q)
  BY DEF Start
<1> QED
  BY <1>2, <1>3, ProceedGoes

LEMMA AlertGoes ==
    ASSUME IInv, NEW r \in Requests, StartAlert(r)
    PROVE  Goes(r)
<1> DEFINE p == [Idle EXCEPT !.kind = "alert", !.pc = "create", !.here = "variance"]
<1>1. /\ Shape(p) /\ p.kind = "alert" /\ p.locks = Idle.locks /\ p.writes = Idle.writes
      /\ p.pc = "create"
  BY IdleShape DEF Shape, Idle
<1>2. Carried(r, p) /\ Ready(p)
  BY <1>1 DEF Carried, Ready, Idle, NoWrites
<1> QED
  BY <1>2 DEF StartAlert, Put, Goes

LEMMA ReceiveHookGoes ==
    ASSUME IInv, NEW r \in Requests, NEW h \in hooks, ReceiveHook(r, h)
    PROVE  Goes(r)
<1>1. PICK e \in Target(h) :
          Put(r, [Idle EXCEPT !.kind = h.event, !.here = e,
                    !.pc = IF h.event = "deleted" THEN "drop" ELSE "stamp",
                    !.got = [@ EXCEPT !.summary = h.summary, !.status = h.status,
                                      !.at = clock + 1]])
  BY DEF ReceiveHook
<1> DEFINE p == [Idle EXCEPT !.kind = h.event, !.here = e,
                    !.pc = IF h.event = "deleted" THEN "drop" ELSE "stamp",
                    !.got = [@ EXCEPT !.summary = h.summary, !.status = h.status,
                                      !.at = clock + 1]]
<1>2. e \in Entities /\ link[e].state # "none"
  BY DEF Target, Live
<1>3. /\ Shape(p) /\ p.kind = h.event /\ p.locks = Idle.locks /\ p.writes = Idle.writes
      /\ p.here = e /\ p.pc = IF h.event = "deleted" THEN "drop" ELSE "stamp"
  BY IdleShape DEF Shape, Idle, Nothing
<1>4. req' = [req EXCEPT ![r] = p]
  BY <1>1 DEF Put
<1> HIDE DEF p
<1>5. /\ p.locks = {} /\ DOMAIN p.writes.rows = {} /\ p.writes.gone = {}
      /\ p.pc \in {"drop", "stamp"} /\ p.pc = "drop" => p.kind = "deleted"
  BY <1>3 DEF Idle, NoWrites
<1>6. Carried(r, p)
  BY <1>3, <1>5 DEF Carried
<1>7. Ready(p)
  BY <1>2, <1>3, <1>5 DEF Ready
<1> QED
  BY <1>4, <1>6, <1>7 DEF Goes

LEMMA BeginKeepsInv ==
    ASSUME IInv, NEW r \in Requests, Begin(r)
    PROVE  IInv' /\ link' = link
<1>1. ASSUME NEW kind \in {"push", "pull", "sync"}, NEW plan, Start(r, kind, plan)
      PROVE  IInv' /\ link' = link
  <2>1. UNCHANGED <<link, issue>>
    BY <1>1 DEF Start, database, jira
  <2> QED
    BY <1>1, <2>1, StartGoes, GoesInside
<1>4. CASE StartPush(r)
  BY <1>1, <1>4 DEF StartPush
<1>5. CASE StartPull(r)
  BY <1>1, <1>5 DEF StartPull
<1>6. CASE StartProgress(r)
  BY <1>1, <1>6 DEF StartProgress
<1>2. CASE StartAlert(r)
  BY <1>2, AlertGoes, GoesInside DEF StartAlert, database, jira
<1>3. CASE \E h \in hooks : ReceiveHook(r, h)
  BY <1>3, ReceiveHookGoes, GoesInside DEF ReceiveHook, database
<1> QED
  BY <1>2, <1>3, <1>4, <1>5, <1>6 DEF Begin

-----------------------------------------------------------------------------
(* The steps that make and break links, and what JiraLinks sees of them.    *)

\* The row of an issue just created is inserted, unless a user has linked the
\* entity or the issue meanwhile.
LEMMA InsertKeepsInv ==
    ASSUME IInv, NEW r \in Requests, Insert(r)
    PROVE  IInv'
<1> DEFINE q == req[r]
           e == q.here
           mine == <<"link", e>>
           row == [state |-> "live", key |-> q.got.key, direction |-> "bidirectional",
                   stamp |-> q.got.at, rank |-> q.began]
           w == [q EXCEPT !.writes.rows = With(@, e, row)]
<1>1. Shape(q) /\ Purpose(q) /\ Carried(r, q) /\ q.pc = "insert" /\ Free(mine, r)
      /\ UNCHANGED <<link, issue>>
  BY Frame DEF Insert, Inside, database, jira
<1>2. IssueShape' /\ KeysInOrder' /\ Created' = Created
  BY <1>1, Frame, SameIssuesKeep
<1>3. CASE ~LinkAllowed(e, q.got.key)
  <2>1. RollBack(r)
    BY <1>3 DEF Insert
  <2> QED
    BY <1>1, <2>1, RollBackGoes, GoesInside
<1>4. CASE LinkAllowed(e, q.got.key)
  <2>1. NextItem(r, Lock(w, mine))
    BY <1>4 DEF Insert
  <2>2. /\ Shape(w) /\ w.kind = q.kind /\ w.locks = q.locks /\ w.writes.gone = q.writes.gone
        /\ w.writes.rows = With(q.writes.rows, e, row)
    BY <1>1 DEF Shape
  <2> HIDE DEF w
  <2>3. PICK n : Shape(n) /\ Proceed(r, n) /\ n.kind = w.kind /\ n.writes = w.writes
                 /\ n.locks = w.locks \cup {mine}
    <3>1. /\ Shape(Lock(w, mine)) /\ Lock(w, mine).kind = w.kind
          /\ Lock(w, mine).writes = w.writes /\ Lock(w, mine).locks = w.locks \cup {mine}
      BY <2>2, LockShape
    <3> QED
      BY <2>1, <3>1, NextItemShape
  <2>4. PICK p : /\ req' = [req EXCEPT ![r] = p] /\ Shape(p)
                 /\ p.kind = n.kind /\ p.writes = n.writes /\ p.locks = n.locks
                 /\ \/ p.pc = "commit"
                    \/ p.pc \in {"create", "update", "fetch", "aim"}
                       /\ p.kind \in {"push", "pull", "sync"}
    BY <2>3, ProceedShape
  <2> DEFINE rows == q.writes.rows
  <2>5. /\ p.kind = q.kind /\ p.locks = q.locks \cup {mine} /\ p.writes.gone = q.writes.gone
        /\ p.writes.rows = With(rows, e, row)
    BY <2>2, <2>3, <2>4
  <2>6. /\ e \in Entities /\ q.kind # "deleted"
        /\ link[e].state = "none" /\ \A f \in Entities : link[f].key # q.got.key
        /\ q.got.key \in Created
    BY <1>1, <1>4 DEF Purpose, LinkAllowed, IInv, KeysAwaited
  <2>7. /\ DOMAIN p.writes.rows = DOMAIN rows \cup {e} /\ p.writes.rows[e] = row
        /\ \A f \in DOMAIN rows : f # e => p.writes.rows[f] = rows[f]
    BY <2>5 DEF With
  <2>8. req'[r] = p /\ \A s \in Requests : s # r => req'[s] = req[s]
    BY <2>4 DEF IInv, RequestShape
  <2>9. NewRow(row) /\ row.key = q.got.key
    BY DEF NewRow, Directions
  <2> HIDE DEF row, rows
  <2>10. RequestShape'
    <3>1. Purpose(p)
      BY <2>4, <2>5, <2>6, <1>1 DEF Purpose
    <3>2. req' = [s \in Requests |-> req'[s]]
      BY <2>4 DEF IInv, RequestShape
    <3>3. \A s \in Requests : Shape(req'[s]) /\ Purpose(req'[s])
      BY <2>4, <2>8, <3>1 DEF IInv, RequestShape
    <3> QED
      BY <3>2, <3>3 DEF RequestShape
  <2>11. LinkShape'
    BY <1>1 DEF IInv, LinkShape
  <2>12. OneHolder'
    BY <1>1, <2>5, <2>8 DEF IInv, OneHolder, Free
  <2>13. ASSUME NEW s \in Requests, NEW f \in DOMAIN req'[s].writes.rows
         PROVE  \/ s = r /\ f = e /\ req'[s].writes.rows[f] = row
                \/ /\ f \in DOMAIN req[s].writes.rows
                   /\ req'[s].writes.rows[f] = req[s].writes.rows[f]
    BY <2>7, <2>8 DEF rows
  <2>14. RowsPending'
    <3> SUFFICES ASSUME NEW s \in Requests, NEW f \in DOMAIN req'[s].writes.rows
                 PROVE  /\ f \in Entities /\ <<"link", f>> \in req'[s].locks
                        /\ link[f].state = "none"
                        /\ NewRow(req'[s].writes.rows[f])
                        /\ req'[s].writes.rows[f].key \in Created
                        /\ \A g \in Entities : link[g].key # req'[s].writes.rows[f].key
      BY <1>1, <1>2 DEF RowsPending
    <3>1. CASE s = r /\ f = e /\ req'[s].writes.rows[f] = row
      BY <2>5, <2>6, <2>8, <2>9, <3>1
    <3>2. CASE /\ f \in DOMAIN req[s].writes.rows
               /\ req'[s].writes.rows[f] = req[s].writes.rows[f]
      BY <2>5, <2>8, <3>2 DEF IInv, RowsPending
    <3> QED
      BY <2>13, <3>1, <3>2
  <2>15. \A s \in Requests : \A f \in DOMAIN req[s].writes.rows :
             req[s].writes.rows[f].key # q.got.key
    BY <1>1 DEF IInv, KeysAwaited
  <2>16. RowsDiffer'
    <3> SUFFICES ASSUME NEW s \in Requests, NEW t \in Requests,
                        NEW f \in DOMAIN req'[s].writes.rows,
                        NEW g \in DOMAIN req'[t].writes.rows,
                        req'[s].writes.rows[f].key = req'[t].writes.rows[g].key
                 PROVE  s = t /\ f = g
      BY DEF RowsDiffer
    <3>1. CASE req'[s].writes.rows[f] = row \/ req'[t].writes.rows[g] = row
      <4>1. /\ req'[s].writes.rows[f].key = q.got.key
            /\ req'[t].writes.rows[g].key = q.got.key
        BY <2>9, <3>1
      <4>2. s = r /\ f = e
        BY <2>13, <2>15, <4>1
      <4>3. t = r /\ g = e
        BY <2>13, <2>15, <4>1
      <4> QED
        BY <4>2, <4>3
    <3>2. CASE req'[s].writes.rows[f] # row /\ req'[t].writes.rows[g] # row
      <4>1. /\ f \in DOMAIN req[s].writes.rows /\ g \in DOMAIN req[t].writes.rows
            /\ req[s].writes.rows[f].key = req[t].writes.rows[g].key
        BY <2>13, <3>2
      <4> QED
        BY <4>1 DEF IInv, RowsDiffer
    <3> QED
      BY <3>1, <3>2
  <2>17. KeysAwaited'
    <3> SUFFICES ASSUME NEW t \in Requests, req'[t].pc = "insert"
                 PROVE  /\ req'[t].got.key \in Created
                        /\ \A s \in Requests :
                              /\ \A f \in DOMAIN req'[s].writes.rows :
                                    req'[s].writes.rows[f].key # req'[t].got.key
                              /\ s # t /\ req'[s].pc = "insert"
                                 => req'[s].got.key # req'[t].got.key
      BY <1>2 DEF KeysAwaited
    <3>1. t # r /\ req'[t] = req[t] /\ req[t].pc = "insert"
      BY <2>4, <2>8
    <3>2. req[t].got.key # q.got.key
      BY <1>1, <3>1 DEF IInv, KeysAwaited
    <3>3. ASSUME NEW s \in Requests, NEW f \in DOMAIN req'[s].writes.rows
          PROVE  req'[s].writes.rows[f].key # req'[t].got.key
      BY <2>9, <2>13, <3>1, <3>2 DEF IInv, KeysAwaited
    <3>4. ASSUME NEW s \in Requests, s # t, req'[s].pc = "insert"
          PROVE  req'[s].got.key # req'[t].got.key
      BY <2>4, <2>8, <3>1, <3>4 DEF IInv, KeysAwaited
    <3> QED
      BY <3>1, <3>3, <3>4 DEF IInv, KeysAwaited
  <2>18. OnlyLinksGo'
    BY <1>1, <2>4, <2>5, <2>8 DEF IInv, OnlyLinksGo
  <2> QED
    BY <1>2, <2>10, <2>11, <2>12, <2>14, <2>16, <2>17, <2>18 DEF IInv
<1> QED
  BY <1>3, <1>4

\* What a commit of the writes w makes of a link.
Committed(e, w) ==
    /\ e \in DOMAIN w.rows => link'[e] = w.rows[e]
    /\ e \notin DOMAIN w.rows =>
          /\ link'[e].state = IF e \in w.gone THEN "gone" ELSE link[e].state
          /\ link'[e].key = link[e].key /\ link'[e].direction = link[e].direction
          /\ link'[e] \in [state : {link'[e].state}, key : {link'[e].key},
                           direction : {link'[e].direction},
                           stamp : {link'[e].stamp}, rank : {link'[e].rank}]

LEMMA CommitLinks ==
    ASSUME IInv, NEW r \in Requests, Commit(r), NEW e \in Entities
    PROVE  Committed(e, req[r].writes)
<1> DEFINE w == req[r].writes
<1>1. link' = [f \in Entities |-> LinkAfter(f, w)]
  BY DEF Commit
<1>2. e \in DOMAIN w.rows => link'[e] = w.rows[e]
  BY <1>1 DEF LinkAfter
<1>3. ASSUME e \notin DOMAIN w.rows
      PROVE  link'[e] = [link[e] EXCEPT !.state = IF e \in w.gone THEN "gone" ELSE @,
                            !.stamp = IF e \in DOMAIN w.stamps THEN w.stamps[e] ELSE @]
  BY <1>1, <1>3 DEF LinkAfter
<1>4. link[e] \in [state : {link[e].state}, key : {link[e].key},
                   direction : {link[e].direction}, stamp : {link[e].stamp},
                   rank : {link[e].rank}]
  BY DEF IInv, LinkShape
<1> QED
  BY <1>2, <1>3, <1>4 DEF Committed

\* The rows of a push become links, or one link goes, or stamps change.
LEMMA CommitKeepsInv ==
    ASSUME IInv, NEW r \in Requests, Commit(r)
    PROVE  IInv'
<1> DEFINE w == req[r].writes
<1>1. /\ link' = [e \in Entities |-> LinkAfter(e, w)]
      /\ req' = [req EXCEPT ![r] = Idle] /\ issue' = issue
  BY DEF Commit, Put, jira
<1>2. IssueShape' /\ KeysInOrder' /\ Created' = Created
  BY <1>1, Frame, SameIssuesKeep
<1>3. /\ Shape(req[r]) /\ Purpose(req[r]) /\ Carried(r, req[r])
      /\ req'[r] = Idle /\ \A s \in Requests : s # r => req'[s] = req[s]
  BY <1>1, Frame DEF IInv, RequestShape
<1>4. \A e \in Entities : Committed(e, w)
  BY CommitLinks
<1>5. \A e \in DOMAIN w.rows :
          /\ e \in Entities /\ NewRow(w.rows[e]) /\ w.rows[e].key \in Created
          /\ link[e].state = "none" /\ \A f \in Entities : link[f].key # w.rows[e].key
  BY DEF IInv, RowsPending
<1> HIDE DEF w
<1>6. LinkShape'
  <2>1. link' = [e \in Entities |-> link'[e]]
    BY <1>1
  <2>2. ASSUME NEW e \in Entities
        PROVE  /\ link'[e] \in [state : {link'[e].state}, key : {link'[e].key},
                                direction : {link'[e].direction}, stamp : {link'[e].stamp},
                                rank : {link'[e].rank}]
               /\ link'[e].state # "none" =>
                     /\ link'[e].state \in {"live", "gone"}
                     /\ link'[e].key \in Keys
                     /\ link'[e].direction \in Directions
    <3>1. CASE e \in DOMAIN w.rows
      BY <1>4, <1>5, <3>1 DEF NewRow, Created, Committed
    <3>2. CASE e \notin DOMAIN w.rows
      <4>1. e \in w.gone => link[e].state # "none"
        BY DEF IInv, OnlyLinksGo, w
      <4> QED
        BY <1>4, <3>2, <4>1 DEF IInv, LinkShape, Committed
    <3> QED
      BY <3>1, <3>2
  <2> QED
    BY <2>1, <2>2 DEF LinkShape
<1>7. RequestShape' /\ OneHolder'
  <2>1. req' = [s \in Requests |-> req'[s]]
    BY <1>1 DEF IInv, RequestShape
  <2>2. \A s \in Requests : Shape(req'[s]) /\ Purpose(req'[s])
    BY <1>3, IdleShape DEF IInv, RequestShape
  <2>3. Idle.locks = {}
    BY DEF Idle
  <2> QED
    BY <1>3, <2>1, <2>2, <2>3 DEF RequestShape, IInv, OneHolder
<1>8. ASSUME NEW s \in Requests, NEW f \in DOMAIN req'[s].writes.rows
      PROVE  s # r /\ req'[s] = req[s] /\ f \in DOMAIN req[s].writes.rows
  <2>1. DOMAIN Idle.writes.rows = {}
    BY DEF Idle, NoWrites
  <2> QED
    BY <1>3, <1>8, <2>1
<1>9. RowsPending'
  <2> SUFFICES ASSUME NEW s \in Requests, NEW f \in DOMAIN req'[s].writes.rows
               PROVE  /\ f \in Entities /\ <<"link", f>> \in req'[s].locks
                      /\ link'[f].state = "none"
                      /\ NewRow(req'[s].writes.rows[f])
                      /\ req'[s].writes.rows[f].key \in Created
                      /\ \A g \in Entities : link'[g].key # req'[s].writes.rows[f].key
    BY <1>2 DEF RowsPending
  <2>1. /\ s # r /\ req'[s] = req[s] /\ f \in DOMAIN req[s].writes.rows
        /\ f \in Entities /\ <<"link", f>> \in req[s].locks
        /\ link[f].state = "none" /\ \A g \in Entities : link[g].key # req[s].writes.rows[f].key
    BY <1>8 DEF IInv, RowsPending
  <2>2. f \notin DOMAIN w.rows
    BY <2>1 DEF IInv, RowsPending, OneHolder, w
  <2>3. f \notin w.gone
    BY <2>1 DEF IInv, OnlyLinksGo, w
  <2>4. link'[f].state = "none"
    BY <1>4, <2>1, <2>2, <2>3 DEF Committed
  <2>5. ASSUME NEW g \in Entities
        PROVE  link'[g].key # req[s].writes.rows[f].key
    <3>1. CASE g \in DOMAIN w.rows
      <4>1. w.rows[g].key # req[s].writes.rows[f].key
        BY <2>1, <3>1 DEF IInv, RowsDiffer, w
      <4> QED
        BY <1>4, <3>1, <4>1 DEF Committed
    <3>2. CASE g \notin DOMAIN w.rows
      BY <1>4, <2>1, <3>2 DEF Committed
    <3> QED
      BY <3>1, <3>2
  <2> QED
    BY <2>1, <2>4, <2>5 DEF IInv, RowsPending
<1>10. RowsDiffer'
  BY <1>8 DEF IInv, RowsDiffer
<1>11. KeysAwaited'
  <2>1. Idle.pc # "insert"
    BY DEF Idle
  <2> QED
    BY <1>2, <1>3, <1>8, <2>1 DEF IInv, KeysAwaited
<1>12. OnlyLinksGo'
  <2>1. Idle.pc # "drop" /\ Idle.writes.gone = {}
    BY DEF Idle, NoWrites
  <2>2. \A e \in Entities : link[e].state # "none" => link'[e].state # "none"
    BY <1>4, <1>5 DEF Committed, NewRow
  <2>3. \A s \in Requests : req[s].pc = "drop" => req[s].here \in Entities
    BY Frame DEF Purpose
  <2> QED
    BY <1>3, <2>1, <2>2, <2>3 DEF IInv, OnlyLinksGo
<1> QED
  BY <1>2, <1>6, <1>7, <1>9, <1>10, <1>11, <1>12 DEF IInv

\* A user links an entity by hand. No request has that row in hand, since the
\* row would be locked, nor one for the same issue.
LEMMA CreateMappingKeepsInv ==
    ASSUME IInv, NEW e \in Entities, NEW k \in Keys, NEW d \in Directions,
           CreateMapping(e, k, d)
    PROVE  IInv'
<1> DEFINE row == [state |-> "live", key |-> k, direction |-> d,
                   stamp |-> NoStamp, rank |-> clock]
<1>1. /\ link' = [link EXCEPT ![e] = row] /\ UNCHANGED <<issue, req>>
      /\ k \in Created /\ LinkAllowed(e, k)
      /\ \A r \in Requests : <<"link", e>> \notin req[r].locks
      /\ \A r \in Requests : \A f \in DOMAIN req[r].writes.rows :
            req[r].writes.rows[f].key # k
  BY DEF CreateMapping, jira, Unlocked
<1>2. IssueShape' /\ KeysInOrder' /\ Created' = Created
  BY <1>1, Frame, SameIssuesKeep
<1>3. link'[e] = row /\ \A f \in Entities : f # e => link'[f] = link[f]
  BY <1>1 DEF IInv, LinkShape
<1>4. LinkShape'
  <2>1. link' = [f \in Entities |-> link'[f]]
    BY <1>1 DEF IInv, LinkShape
  <2>2. \A f \in Entities :
           /\ link'[f] \in [state : {link'[f].state}, key : {link'[f].key},
                            direction : {link'[f].direction}, stamp : {link'[f].stamp},
                            rank : {link'[f].rank}]
           /\ link'[f].state # "none" =>
                 /\ link'[f].state \in {"live", "gone"}
                 /\ link'[f].key \in Keys
                 /\ link'[f].direction \in Directions
    BY <1>3 DEF IInv, LinkShape
  <2> QED
    BY <2>1, <2>2 DEF LinkShape
<1>5. RowsPending'
  <2> SUFFICES ASSUME NEW r \in Requests, NEW f \in DOMAIN req'[r].writes.rows
               PROVE  /\ f \in Entities /\ <<"link", f>> \in req'[r].locks
                      /\ link'[f].state = "none"
                      /\ NewRow(req'[r].writes.rows[f])
                      /\ req'[r].writes.rows[f].key \in Created
                      /\ \A g \in Entities : link'[g].key # req'[r].writes.rows[f].key
    BY <1>2 DEF RowsPending
  <2>1. /\ req'[r] = req[r] /\ f \in DOMAIN req[r].writes.rows
        /\ f \in Entities /\ <<"link", f>> \in req[r].locks
        /\ link[f].state = "none" /\ NewRow(req[r].writes.rows[f])
        /\ req[r].writes.rows[f].key \in Created
        /\ \A g \in Entities : link[g].key # req[r].writes.rows[f].key
    BY <1>1 DEF IInv, RowsPending
  <2>2. f # e /\ req[r].writes.rows[f].key # k
    BY <1>1, <2>1
  <2> QED
    BY <1>3, <2>1, <2>2
<1>6. RequestShape' /\ OneHolder' /\ RowsDiffer'
  BY <1>1 DEF IInv, RequestShape, OneHolder, RowsDiffer
<1>7. KeysAwaited'
  BY <1>1, <1>2 DEF IInv, KeysAwaited
<1>8. OnlyLinksGo'
  <2>1. \A f \in Entities : link[f].state # "none" => link'[f].state # "none"
    BY <1>3
  <2>2. \A r \in Requests : req[r].pc = "drop" => req[r].here \in Entities
    BY Frame DEF Purpose
  <2> QED
    BY <1>1, <2>1, <2>2 DEF IInv, OnlyLinksGo
<1> QED
  BY <1>2, <1>4, <1>5, <1>6, <1>7, <1>8 DEF IInv

LEMMA DeleteMappingKeepsInv ==
    ASSUME IInv, NEW e \in Entities, DeleteMapping(e)
    PROVE  IInv'
<1>1. /\ link' = [link EXCEPT ![e].state = "gone"] /\ UNCHANGED <<issue, req>>
      /\ link[e].state = "live"
  BY DEF DeleteMapping, jira, Live
<1>2. IssueShape' /\ KeysInOrder' /\ Created' = Created
  BY <1>1, Frame, SameIssuesKeep
<1>3. /\ \A f \in Entities : f # e => link'[f] = link[f]
      /\ link'[e].state = "gone" /\ link'[e].key = link[e].key
      /\ link'[e].direction = link[e].direction
      /\ link'[e] \in [state : {link'[e].state}, key : {link'[e].key},
                       direction : {link'[e].direction}, stamp : {link'[e].stamp},
                       rank : {link'[e].rank}]
  BY <1>1 DEF IInv, LinkShape
<1>4. LinkShape'
  <2>1. link' = [f \in Entities |-> link'[f]]
    BY <1>1 DEF IInv, LinkShape
  <2> QED
    BY <1>1, <1>3, <2>1 DEF IInv, LinkShape
<1>5. RowsPending'
  <2> SUFFICES ASSUME NEW r \in Requests, NEW f \in DOMAIN req'[r].writes.rows
               PROVE  /\ f \in Entities /\ <<"link", f>> \in req'[r].locks
                      /\ link'[f].state = "none"
                      /\ NewRow(req'[r].writes.rows[f])
                      /\ req'[r].writes.rows[f].key \in Created
                      /\ \A g \in Entities : link'[g].key # req'[r].writes.rows[f].key
    BY <1>2 DEF RowsPending
  <2>1. /\ req'[r] = req[r] /\ f \in DOMAIN req[r].writes.rows
        /\ f \in Entities /\ <<"link", f>> \in req[r].locks
        /\ link[f].state = "none" /\ NewRow(req[r].writes.rows[f])
        /\ req[r].writes.rows[f].key \in Created
        /\ \A g \in Entities : link[g].key # req[r].writes.rows[f].key
    BY <1>1 DEF IInv, RowsPending
  <2>2. \A g \in Entities : link'[g].key = link[g].key /\ (link'[g].state = "none" <=> link[g].state = "none")
    BY <1>1, <1>3
  <2> QED
    BY <2>1, <2>2
<1>6. RequestShape' /\ OneHolder' /\ RowsDiffer'
  BY <1>1 DEF IInv, RequestShape, OneHolder, RowsDiffer
<1>7. KeysAwaited'
  BY <1>1, <1>2 DEF IInv, KeysAwaited
<1>8. OnlyLinksGo'
  <2>1. \A f \in Entities : link[f].state # "none" => link'[f].state # "none"
    BY <1>3
  <2>2. \A r \in Requests : req[r].pc = "drop" => req[r].here \in Entities
    BY Frame DEF Purpose
  <2> QED
    BY <1>1, <2>1, <2>2 DEF IInv, OnlyLinksGo
<1> QED
  BY <1>2, <1>4, <1>5, <1>6, <1>7, <1>8 DEF IInv

\* The other users leave links and requests alone.
Others ==
    \/ UserCreatesIssue
    \/ \E k \in Keys : UserRetitlesIssue(k) \/ UserMovesIssue(k) \/ UserErasesIssue(k)
    \/ Connect \/ SwitchSync \/ DeleteIntegration
    \/ \E e \in Entities : Rename(e) \/ Remove(e)
    \/ \E e \in Activities, p \in Percents : Progress(e, p)
    \/ \E h \in hooks : IgnoreHook(h)

LEMMA OthersKeepInv ==
    ASSUME IInv, Others
    PROVE  IInv' /\ link' = link
<1>1. UNCHANGED <<req, link>>
  BY DEF Others, UserCreatesIssue, UserRetitlesIssue, UserMovesIssue, UserErasesIssue,
         Connect, SwitchSync, DeleteIntegration, Rename, Remove, Progress, IgnoreHook,
         database, jira
<1>2. IssueShape' /\ KeysInOrder' /\ Created \subseteq Created'
  <2>1. CASE UserCreatesIssue
    BY <2>1, Frame, NewIssueKeeps DEF UserCreatesIssue
  <2>2. CASE \E k \in Keys : UserRetitlesIssue(k) \/ UserMovesIssue(k)
    BY <2>2, Frame, EditIssueKeeps DEF UserRetitlesIssue, UserMovesIssue
  <2>3. CASE \E k \in Keys : UserErasesIssue(k)
    BY <2>3, Frame, UserErasesKeeps
  <2>4. CASE issue' = issue
    BY <2>4, Frame, SameIssuesKeep
  <2>5. \/ UserCreatesIssue
        \/ \E k \in Keys : UserRetitlesIssue(k) \/ UserMovesIssue(k)
        \/ \E k \in Keys : UserErasesIssue(k)
        \/ issue' = issue
    BY DEF Others, Connect, SwitchSync, DeleteIntegration, Rename, Remove, Progress,
           IgnoreHook, jira
  <2> QED
    BY <2>1, <2>2, <2>3, <2>4, <2>5
<1> QED
  BY <1>1, <1>2, ElsewhereKeepsInv

-----------------------------------------------------------------------------
(* The invariant of the whole.                                              *)

\* Every step but the insertion of a row, a commit and the two endpoints for
\* mappings leaves the links as they are.
Plain(r) ==
    \/ Create(r) \/ Update(r) \/ Touch(r) \/ Fetch(r) \/ Read(r) \/ Write(r)
    \/ Stamp(r) \/ Drop(r) \/ Aim(r) \/ Compare(r) \/ Transition(r) \/ Victim(r)

LEMMA PlainKeepsInv ==
    ASSUME IInv, NEW r \in Requests, Plain(r)
    PROVE  IInv' /\ link' = link
<1>1. CASE Create(r)
  <2>1. link' = link
    BY <1>1 DEF Create, Quietly, Fault, database
  <2> QED
    BY <1>1, <2>1, CreateKeepsInv
<1>2. CASE Update(r) \/ Transition(r)
  <2>1. link' = link
    BY <1>2 DEF Update, Transition, Quietly, Inside, Fault, database
  <2> QED
    BY <1>2, <2>1, EditingKeepsInv
<1>3. CASE Fetch(r) \/ Compare(r)
  <2>1. UNCHANGED <<link, issue>>
    BY <1>3 DEF Fetch, Compare, Inside, Fault, database, jira
  <2> QED
    BY <1>3, <2>1, FetchGoes, CompareGoes, GoesInside
<1>4. CASE Touch(r) \/ Read(r) \/ Write(r) \/ Stamp(r) \/ Drop(r) \/ Aim(r) \/ Victim(r)
  <2>1. UNCHANGED <<link, issue>>
    BY <1>4 DEF Touch, Read, Write, Stamp, Drop, Aim, Victim, Inside, database, jira
  <2> QED
    BY <1>4, <2>1, TouchGoes, ReadGoes, WriteGoes, StampGoes, DropGoes, AimGoes,
       VictimGoes, GoesInside
<1> QED
  BY <1>1, <1>2, <1>3, <1>4 DEF Plain

LEMMA InitInv == Init => IInv
<1> SUFFICES ASSUME Init PROVE IInv
  OBVIOUS
<1>1. IssueShape /\ LinkShape
  BY DEF Init, IssueShape, NoIssue, LinkShape, NoLink
<1>2. KeysInOrder
  <2>1. Created = {}
    BY DEF Init, Created, NoIssue
  <2>2. 0 \in 0 .. MaxIssues /\ 1 .. 0 = {}
    BY MaxIssuesAssumption
  <2> QED
    BY <2>1, <2>2 DEF KeysInOrder
<1>3. RequestShape
  BY IdleShape DEF Init, RequestShape
<1>4. \A r \in Requests :
         /\ req[r].pc = "idle" /\ req[r].locks = {} /\ DOMAIN req[r].writes.rows = {}
         /\ req[r].writes.gone = {}
  BY DEF Init, Idle, NoWrites
<1>5. OneHolder /\ RowsPending /\ RowsDiffer
  BY <1>4 DEF OneHolder, RowsPending, RowsDiffer
<1>6. KeysAwaited /\ OnlyLinksGo
  BY <1>4 DEF KeysAwaited, OnlyLinksGo
<1> QED
  BY <1>1, <1>2, <1>3, <1>5, <1>6 DEF IInv

\* The steps of the specification, sorted by what they do to the links.
LEMMA StepCases ==
    ASSUME Next
    PROVE  \/ \E r \in Requests : Begin(r) \/ Plain(r) \/ Insert(r) \/ Commit(r)
           \/ Others
           \/ \E e \in Entities : DeleteMapping(e)
           \/ \E e \in Entities, k \in Keys, d \in Directions : CreateMapping(e, k, d)
<1>1. CASE \E r \in Requests : Begin(r) \/ RequestStep(r)
  BY <1>1 DEF RequestStep, Plain
<1>2. CASE \E h \in hooks : IgnoreHook(h)
  BY <1>2 DEF Others
<1>3. CASE Users
  BY <1>3 DEF Users, Others
<1> QED
  BY <1>1, <1>2, <1>3 DEF Next

LEMMA NextInv == IInv /\ [Next]_vars => IInv'
<1> SUFFICES ASSUME IInv, [Next]_vars PROVE IInv'
  OBVIOUS
<1>1. CASE UNCHANGED vars
  <2>1. UNCHANGED <<req, link, issue>>
    BY <1>1 DEF vars, database, jira
  <2> QED
    BY <2>1, Frame, SameIssuesKeep, ElsewhereKeepsInv
<1>2. CASE Next
  BY <1>2, StepCases, BeginKeepsInv, PlainKeepsInv, InsertKeepsInv, CommitKeepsInv,
     OthersKeepInv, DeleteMappingKeepsInv, CreateMappingKeepsInv
<1> QED
  BY <1>1, <1>2

LEMMA Invariant == Spec => []IInv
BY InitInv, NextInv, PTL DEF Spec

-----------------------------------------------------------------------------
(* The refinement: each step of the exchange is a step of JiraLinks.        *)

LEMMA LifeShape ==
    ASSUME LinkShape
    PROVE  /\ Links!TypeOK
           /\ \A e \in Entities :
                 /\ Life[e] = Links!None <=> link[e].state = "none"
                 /\ link[e].state # "none" =>
                       /\ Life[e].state = link[e].state /\ Life[e].key = link[e].key
                       /\ Life[e].direction = link[e].direction
                       /\ Life[e] \in Links!Link
BY DEF LinkShape, Life, Links!TypeOK, Links!None, Links!Link

LEMMA InitLife == Init => Links!Init
BY DEF Init, NoLink, Life, Links!Init, Links!None

\* The shape of the links in the next state.
LEMMA NextLifeShape ==
    ASSUME LinkShape'
    PROVE  /\ Links!TypeOK'
           /\ \A e \in Entities :
                 /\ Life'[e] = Links!None <=> link'[e].state = "none"
                 /\ link'[e].state # "none" =>
                       /\ Life'[e].state = link'[e].state /\ Life'[e].key = link'[e].key
                       /\ Life'[e].direction = link'[e].direction
BY DEF LinkShape, Life, Links!TypeOK, Links!None, Links!Link

\* Links that stay, and new ones to issues that no other link names.
LEMMA AttachMaps ==
    ASSUME LinkShape, LinkShape',
           \A e \in Entities : link[e].state # "none" =>
               /\ link'[e].state = link[e].state /\ link'[e].key = link[e].key
               /\ link'[e].direction = link[e].direction,
           \A e \in Entities : link[e].state = "none" /\ link'[e].state # "none" =>
               /\ link'[e].state = "live"
               /\ \A f \in Entities \ {e} :
                     link'[f].state # "none" => link'[f].key # link'[e].key
    PROVE  Links!Attach
<1>1. \A e \in Entities : link[e].state # "none" => Life'[e] = Life[e]
  BY DEF Life
<1>2. \A e \in Entities : e \in Links!Linked <=> link[e].state # "none"
  BY LifeShape DEF Links!Linked
<1>3. ASSUME NEW e \in Entities, e \notin Links!Linked, Life'[e] # Links!None
      PROVE  /\ Life'[e].state = "live"
             /\ \A f \in Entities \ {e} :
                   Life'[f] # Links!None => Life'[f].key # Life'[e].key
  BY <1>2, <1>3, NextLifeShape
<1>4. Links!Linked \subseteq Entities /\ Links!TypeOK'
  BY NextLifeShape DEF Links!Linked
<1> QED
  BY <1>1, <1>2, <1>3, <1>4 DEF Links!Attach

\* A link that goes, and no other change.
LEMMA DetachMaps ==
    ASSUME LinkShape, LinkShape', NEW e \in Entities, link[e].state # "none",
           link'[e].state = "gone", link'[e].key = link[e].key,
           link'[e].direction = link[e].direction,
           \A f \in Entities \ {e} :
               /\ link'[f].state = link[f].state /\ link'[f].key = link[f].key
               /\ link'[f].direction = link[f].direction
    PROVE  Links!Detach(e)
<1>1. e \in Links!Linked
  BY LifeShape DEF Links!Linked
<1>2. \A f \in Entities \ {e} : Life'[f] = Life[f]
  BY DEF Life
<1>3. Life'[e] = [Life[e] EXCEPT !.state = "gone"]
  BY DEF Life
<1>4. Life' = [f \in Entities |-> Life'[f]] /\ Life = [f \in Entities |-> Life[f]]
  BY DEF Life
<1>5. Life' = [Life EXCEPT ![e].state = "gone"]
  <2> HIDE DEF Life
  <2> QED
    BY <1>2, <1>3, <1>4
<1> QED
  BY <1>1, <1>5 DEF Links!Detach

LEMMA CommitMaps ==
    ASSUME IInv, NEW r \in Requests, Commit(r)
    PROVE  Links!Next
<1> DEFINE w == req[r].writes
<1>1. LinkShape /\ LinkShape'
  BY CommitKeepsInv DEF IInv
<1>2. \A e \in Entities : Committed(e, w)
  BY CommitLinks
<1>3. CASE w.gone = {}
  <2>1. \A e \in DOMAIN w.rows :
            /\ e \in Entities /\ link[e].state = "none" /\ w.rows[e].state = "live"
            /\ \A f \in Entities : link[f].key # w.rows[e].key
            /\ \A f \in DOMAIN w.rows : f # e => w.rows[f].key # w.rows[e].key
    <3>1. \A e \in DOMAIN w.rows :
              /\ e \in Entities /\ link[e].state = "none" /\ NewRow(w.rows[e])
              /\ \A f \in Entities : link[f].key # w.rows[e].key
      BY DEF IInv, RowsPending
    <3>2. \A e, f \in DOMAIN w.rows : f # e => w.rows[f].key # w.rows[e].key
      BY DEF IInv, RowsDiffer
    <3> QED
      BY <3>1, <3>2 DEF NewRow
  <2> HIDE DEF w
  <2>2. \A e \in Entities : link[e].state # "none" =>
            /\ link'[e].state = link[e].state /\ link'[e].key = link[e].key
            /\ link'[e].direction = link[e].direction
    BY <1>2, <1>3, <2>1 DEF Committed
  <2>3. ASSUME NEW e \in Entities, link[e].state = "none", link'[e].state # "none"
        PROVE  /\ link'[e].state = "live"
               /\ \A f \in Entities \ {e} :
                     link'[f].state # "none" => link'[f].key # link'[e].key
    <3>1. e \in DOMAIN w.rows /\ link'[e] = w.rows[e]
      BY <1>2, <1>3, <2>3 DEF Committed
    <3>2. ASSUME NEW f \in Entities \ {e}
          PROVE  link'[f].key # link'[e].key
      <4>1. CASE f \in DOMAIN w.rows
        BY <1>2, <2>1, <3>1, <4>1 DEF Committed
      <4>2. CASE f \notin DOMAIN w.rows
        BY <1>2, <2>1, <3>1, <4>2 DEF Committed
      <4> QED
        BY <4>1, <4>2
    <3> QED
      BY <2>1, <3>1, <3>2
  <2> QED
    BY <1>1, <2>2, <2>3, AttachMaps DEF Links!Next
<1>4. CASE w.gone # {}
  <2>1. DOMAIN w.rows = {}
    BY <1>4, Frame DEF Purpose
  <2>2. PICK e \in w.gone : TRUE
    BY <1>4
  <2>3. e \in Entities /\ link[e].state # "none" /\ w.gone = {e}
    BY <2>2 DEF IInv, OnlyLinksGo
  <2> HIDE DEF w
  <2>4. /\ link'[e].state = "gone" /\ link'[e].key = link[e].key
        /\ link'[e].direction = link[e].direction
        /\ \A f \in Entities \ {e} :
              /\ link'[f].state = link[f].state /\ link'[f].key = link[f].key
              /\ link'[f].direction = link[f].direction
    BY <1>2, <2>1, <2>3 DEF Committed
  <2> QED
    BY <1>1, <2>3, <2>4, DetachMaps DEF Links!Next
<1> QED
  BY <1>3, <1>4

LEMMA CreateMappingMaps ==
    ASSUME IInv, NEW e \in Entities, NEW k \in Keys, NEW d \in Directions,
           CreateMapping(e, k, d)
    PROVE  Links!Next
<1> DEFINE row == [state |-> "live", key |-> k, direction |-> d,
                   stamp |-> NoStamp, rank |-> clock]
<1>1. LinkShape /\ LinkShape'
  BY CreateMappingKeepsInv DEF IInv
<1>2. link' = [link EXCEPT ![e] = row] /\ LinkAllowed(e, k)
  BY DEF CreateMapping
<1>3. /\ link'[e].state = "live" /\ link'[e].key = k
      /\ \A f \in Entities \ {e} : link'[f] = link[f]
  BY <1>1, <1>2 DEF LinkShape
<1> QED
  BY <1>1, <1>2, <1>3, AttachMaps DEF LinkAllowed, Links!Next

LEMMA DeleteMappingMaps ==
    ASSUME IInv, NEW e \in Entities, DeleteMapping(e)
    PROVE  Links!Next
<1>1. LinkShape /\ LinkShape'
  BY DeleteMappingKeepsInv DEF IInv
<1>2. link' = [link EXCEPT ![e].state = "gone"] /\ link[e].state = "live"
  BY DEF DeleteMapping, Live
<1>3. /\ link'[e].state = "gone" /\ link'[e].key = link[e].key
      /\ link'[e].direction = link[e].direction
      /\ \A f \in Entities \ {e} : link'[f] = link[f]
  BY <1>1, <1>2 DEF LinkShape
<1> QED
  BY <1>1, <1>2, <1>3, DetachMaps DEF Links!Next

LEMMA InsertLeavesLinks ==
    ASSUME NEW r \in Requests, Insert(r)
    PROVE  link' = link
BY DEF Insert, Inside, database

LEMMA StepMaps == IInv /\ [Next]_vars => [Links!Next]_Life
<1> SUFFICES ASSUME IInv, [Next]_vars PROVE [Links!Next]_Life
  OBVIOUS
<1>1. link' = link => Life' = Life
  BY DEF Life
<1>2. CASE UNCHANGED vars
  BY <1>1, <1>2 DEF vars, database
<1>3. CASE Next
  BY <1>1, <1>3, StepCases, BeginKeepsInv, PlainKeepsInv, InsertLeavesLinks, CommitMaps,
     OthersKeepInv, DeleteMappingMaps, CreateMappingMaps
<1> QED
  BY <1>2, <1>3

(* The rows of jira_mappings keep the promises of JiraLinks, however many   *)
(* requests, users and webhooks work on them: an entity is linked once, to  *)
(* an issue of its own, in a direction that stays.                          *)
THEOREM LinksImplemented == Spec => LinksRefined
<1>1. Init => Links!Init
  BY InitLife
<1>2. IInv /\ [Next]_vars => [Links!Next]_Life
  BY StepMaps
<1> QED
  BY <1>1, <1>2, Invariant, PTL DEF Spec, LinksRefined, Links!Spec

-----------------------------------------------------------------------------
(* What a reader should know of the invariant.                              *)

(* An insertion that passed the unique constraints still passes them when   *)
(* it is committed: meanwhile nobody has linked its entity or its issue,    *)
(* nor inserted another row for either.                                     *)
InsertionsStayValid ==
    \A r, s \in Requests : \A e \in DOMAIN req[r].writes.rows :
       /\ link[e].state = "none"
       /\ \A f \in Entities : link[f].key # req[r].writes.rows[e].key
       /\ s # r => e \notin DOMAIN req[s].writes.rows
       /\ \A f \in DOMAIN req[s].writes.rows :
             req[s].writes.rows[f].key = req[r].writes.rows[e].key => s = r /\ f = e

(* Rows that requests have inserted but not committed never collide.        *)
THEOREM InsertionsValid == Spec => []InsertionsStayValid
<1>1. ASSUME IInv, NEW r \in Requests, NEW e \in DOMAIN req[r].writes.rows
      PROVE  link[e].state = "none" /\ \A f \in Entities : link[f].key # req[r].writes.rows[e].key
  BY <1>1 DEF IInv, RowsPending
<1>2. ASSUME IInv, NEW r \in Requests, NEW s \in Requests, s # r,
             NEW e \in DOMAIN req[r].writes.rows
      PROVE  e \notin DOMAIN req[s].writes.rows
  <2>1. <<"link", e>> \in req[r].locks
    BY <1>2 DEF IInv, RowsPending
  <2>2. <<"link", e>> \notin req[s].locks
    BY <1>2, <2>1 DEF IInv, OneHolder
  <2> QED
    BY <1>2, <2>2 DEF IInv, RowsPending
<1>3. IInv => InsertionsStayValid
  BY <1>1, <1>2 DEF IInv, RowsDiffer, InsertionsStayValid
<1> QED
  BY <1>3, Invariant, PTL

-----------------------------------------------------------------------------
(***************************************************************************)
(* The steps of a request as records: what request q is once it has gone   *)
(* on. Every later theorem reads the actions through these forms.          *)
(***************************************************************************)

\* The same item, at another step, with other things in hand.
Onto(p, q, pc, tries, got, writes, locks) ==
    /\ Shape(p) /\ p.kind = q.kind /\ p.plan = q.plan /\ p.here = q.here
    /\ p.began = q.began /\ p.pc = pc /\ p.tries = tries /\ p.got = got
    /\ p.writes = writes /\ p.locks = locks

\* At the first step of an item of the plan, or at the commit.
AtFirst(p, plan) ==
    /\ p.plan = plan /\ p.got = Nothing /\ p.tries = 0
    /\ \/ p.pc = "commit" /\ p.here = "nobody" /\ DOMAIN plan = {}
       \/ /\ p.kind \in {"push", "pull", "sync"} /\ p.here \in DOMAIN plan
          /\ p.pc = FirstStep(p.kind, plan[p.here])

Past(p, q, writes, locks) ==
    /\ Shape(p) /\ p.kind = q.kind /\ p.began = q.began
    /\ AtFirst(p, [e \in DOMAIN q.plan \ {q.here} |-> q.plan[e]])
    /\ p.writes = writes /\ p.locks = locks

LEMMA ProceedForm ==
    ASSUME NEW r \in Requests, NEW n, Shape(n), n.got = Nothing, n.tries = 0, Proceed(r, n)
    PROVE  \E p : /\ req' = [req EXCEPT ![r] = p] /\ Shape(p)
                  /\ p.kind = n.kind /\ p.began = n.began
                  /\ AtFirst(p, n.plan) /\ p.writes = n.writes /\ p.locks = n.locks
<1>1. CASE DOMAIN n.plan = {} /\ Put(r, [n EXCEPT !.pc = "commit", !.here = "nobody"])
  <2> DEFINE p == [n EXCEPT !.pc = "commit", !.here = "nobody"]
  <2>1. /\ Shape(p) /\ p.kind = n.kind /\ p.began = n.began /\ p.writes = n.writes
        /\ p.locks = n.locks /\ p.plan = n.plan /\ p.got = n.got /\ p.tries = n.tries
        /\ p.pc = "commit" /\ p.here = "nobody"
    BY DEF Shape
  <2>2. req' = [req EXCEPT ![r] = p]
    BY <1>1 DEF Put
  <2> HIDE DEF p
  <2> QED
    BY <1>1, <2>1, <2>2 DEF AtFirst
<1>2. ASSUME NEW e \in Turns(n.plan),
             Put(r, [n EXCEPT !.pc = FirstStep(n.kind, n.plan[e]), !.here = e])
      PROVE  \E p : /\ req' = [req EXCEPT ![r] = p] /\ Shape(p)
                    /\ p.kind = n.kind /\ p.began = n.began
                    /\ AtFirst(p, n.plan) /\ p.writes = n.writes /\ p.locks = n.locks
  <2> DEFINE p == [n EXCEPT !.pc = FirstStep(n.kind, n.plan[e]), !.here = e]
  <2>1. e \in DOMAIN n.plan /\ n.kind \in {"push", "pull", "sync"}
    BY DEF Shape, Turns
  <2>2. /\ Shape(p) /\ p.kind = n.kind /\ p.began = n.began /\ p.writes = n.writes
        /\ p.locks = n.locks /\ p.plan = n.plan /\ p.got = n.got /\ p.tries = n.tries
        /\ p.pc = FirstStep(n.kind, n.plan[e]) /\ p.here = e
    BY <2>1 DEF Shape
  <2>3. req' = [req EXCEPT ![r] = p]
    BY <1>2 DEF Put
  <2> HIDE DEF p
  <2> QED
    BY <2>1, <2>2, <2>3 DEF AtFirst
<1> QED
  BY <1>1, <1>2 DEF Proceed

LEMMA NextItemForm ==
    ASSUME NEW r \in Requests, NEW q, Shape(q), NextItem(r, q)
    PROVE  \E p : req' = [req EXCEPT ![r] = p] /\ Past(p, q, q.writes, q.locks)
<1> DEFINE n == [q EXCEPT !.plan = [e \in DOMAIN @ \ {q.here} |-> @[e]],
                          !.got = Nothing, !.tries = 0]
<1>1. /\ n.kind = q.kind /\ n.writes = q.writes /\ n.locks = q.locks /\ n.began = q.began
      /\ n.plan = [e \in DOMAIN q.plan \ {q.here} |-> q.plan[e]]
      /\ n.got = Nothing /\ n.tries = 0
      /\ n \in [pc : {n.pc}, kind : {n.kind}, plan : {n.plan}, here : {n.here},
                began : {n.began}, got : {n.got}, tries : {n.tries},
                writes : {n.writes}, locks : {n.locks}]
  BY DEF Shape
<1>2. Shape(n)
  BY <1>1 DEF Shape, Nothing
<1>3. Proceed(r, n)
  BY DEF NextItem
<1> HIDE DEF n
<1> QED
  BY <1>1, <1>2, <1>3, ProceedForm DEF Past

\* Past the item, with a lock and other writes.
LEMMA LockedForm ==
    ASSUME NEW r \in Requests, NEW q, NEW w, NEW x, Shape(w), w.kind = q.kind,
           w.plan = q.plan, w.here = q.here, w.began = q.began, w.locks = q.locks,
           NextItem(r, Lock(w, x))
    PROVE  \E p : /\ req' = [req EXCEPT ![r] = p]
                  /\ Past(p, q, w.writes, q.locks \cup {x})
<1> DEFINE l == Lock(w, x)
<1>1. /\ Shape(l) /\ l.kind = w.kind /\ l.plan = w.plan /\ l.here = w.here
      /\ l.writes = w.writes /\ l.locks = w.locks \cup {x}
  BY LockShape
<1>2. l.began = w.began
  BY DEF Lock, Shape
<1> HIDE DEF l
<1>3. PICK p : req' = [req EXCEPT ![r] = p] /\ Past(p, l, l.writes, l.locks)
  BY <1>1, NextItemForm DEF l
<1> QED
  BY <1>1, <1>2, <1>3 DEF Past

-----------------------------------------------------------------------------
(* One form for each kind of step. p is the request afterwards.             *)

Mine(q) == <<"link", q.here>>
Own(q) == <<"entity", q.here>>

Retried(p, q) ==
    /\ q.pc \in {"create", "update", "fetch", "compare", "transition"}
    /\ q.tries + 1 < MaxRetries
    /\ Onto(p, q, q.pc, q.tries + 1, q.got, q.writes, q.locks)

CreatedOne(p, q) ==
    /\ q.pc = "create" /\ q.here \in Entities
    /\ NewIssue(q.here, q.plan[q.here].name)
    /\ Onto(p, q, "insert", 0, [q.got EXCEPT !.key = NextKey, !.at = clock + 1],
            q.writes, q.locks)

Passed(p, q) ==
    /\ q.pc \in {"create", "update", "fetch", "read", "aim", "compare"}
    /\ Past(p, q, q.writes, q.locks)

NewLink(q) == [state |-> "live", key |-> q.got.key, direction |-> "bidirectional",
               stamp |-> q.got.at, rank |-> q.began]

Inserted(p, q) ==
    /\ q.pc = "insert" /\ LinkAllowed(q.here, q.got.key)
    /\ Past(p, q, [q.writes EXCEPT !.rows = With(@, q.here, NewLink(q))],
            q.locks \cup {Mine(q)})

Called(p, q) ==
    /\ \/ q.pc \in {"update", "transition"} /\ p.pc = "touch"
       \/ q.pc = "compare" /\ p.pc \in {"touch", "transition"}
    /\ Onto(p, q, p.pc, 0, q.got, q.writes, q.locks)

Touched(p, q) ==
    /\ q.pc = "touch"
    /\ Past(p, q, q.writes, q.locks \cup {Mine(q)})

Fetched(p, q) ==
    /\ q.pc = "fetch" /\ Open(q.plan[q.here].key)
    /\ LET seen == issue[q.plan[q.here].key]
       IN  Onto(p, q, "read", 0,
                [q.got EXCEPT !.summary = seen.summary, !.status = seen.status,
                              !.at = seen.updated], q.writes, q.locks)

NewPercent(q) ==
    IF q.here \notin Activities THEN 0
    ELSE IF q.kind = "pull" THEN PullPercent(q.got.status, percent[q.here])
    ELSE HookPercent(q.got.status, percent[q.here])

WasRead(p, q) ==
    /\ q.pc = "read"
    /\ Onto(p, q, "write", q.tries, q.got,
            [q.writes EXCEPT
                !.names = IF q.got.summary # name[q.here]
                          THEN With(@, q.here, q.got.summary) ELSE @,
                !.percents = IF q.here \in Activities /\ NewPercent(q) # percent[q.here]
                             THEN With(@, q.here, NewPercent(q)) ELSE @],
            q.locks)

Written(p, q) ==
    /\ q.pc = "write"
    /\ IF q.kind = "pull"
       THEN Onto(p, q, "stamp", q.tries, q.got, q.writes, q.locks \cup {Own(q)})
       ELSE Past(p, q, q.writes, q.locks \cup {Own(q)})

Stamped(p, q) ==
    /\ q.pc = "stamp"
    /\ LET w == [q.writes EXCEPT !.stamps = With(@, q.here, q.got.at)]
       IN  IF q.kind = "updated"
           THEN Onto(p, q, "read", q.tries, q.got, w, q.locks \cup {Mine(q)})
           ELSE Past(p, q, w, q.locks \cup {Mine(q)})

Dropped(p, q) ==
    /\ q.pc = "drop"
    /\ Past(p, q, [q.writes EXCEPT !.gone = @ \cup {q.here}], q.locks \cup {Mine(q)})

Aimed(p, q) ==
    /\ q.pc = "aim"
    /\ Onto(p, q, "compare", q.tries, [q.got EXCEPT !.status = StatusOf(percent[q.here])],
            q.writes, q.locks)

Turn(p, q) ==
    \/ Retried(p, q) \/ CreatedOne(p, q) \/ Passed(p, q) \/ Inserted(p, q) \/ Called(p, q)
    \/ Touched(p, q) \/ Fetched(p, q) \/ WasRead(p, q) \/ Written(p, q) \/ Stamped(p, q)
    \/ Dropped(p, q) \/ Aimed(p, q) \/ p = Idle

Turned(r) == \E p : req' = [req EXCEPT ![r] = p] /\ Turn(p, req[r])

LEMMA RetryForm ==
    ASSUME IInv, NEW r \in Requests, req[r].tries + 1 < MaxRetries,
           req[r].pc \in {"create", "update", "fetch", "compare", "transition"},
           Put(r, [req[r] EXCEPT !.tries = @ + 1])
    PROVE  Turned(r)
<1> DEFINE q == req[r]
           p == [q EXCEPT !.tries = @ + 1]
<1>1. Shape(q)
  BY Frame
<1>2. Onto(p, q, q.pc, q.tries + 1, q.got, q.writes, q.locks)
  BY <1>1 DEF Shape, Onto
<1>3. req' = [req EXCEPT ![r] = p]
  BY DEF Put
<1> HIDE DEF p
<1> QED
  BY <1>2, <1>3 DEF Turned, Turn, Retried

LEMMA PassedForm ==
    ASSUME IInv, NEW r \in Requests, NextItem(r, req[r]),
           req[r].pc \in {"create", "update", "fetch", "read", "aim", "compare"}
    PROVE  Turned(r)
<1>1. PICK p : /\ req' = [req EXCEPT ![r] = p]
               /\ Past(p, req[r], req[r].writes, req[r].locks)
  BY Frame, NextItemForm
<1> QED
  BY <1>1 DEF Turned, Turn, Passed

LEMMA CreateForm ==
    ASSUME IInv, NEW r \in Requests, Create(r)
    PROVE  Turned(r)
<1> DEFINE q == req[r]
           e == q.here
           got == [q.got EXCEPT !.key = NextKey, !.at = clock + 1]
           p == [q EXCEPT !.pc = "insert", !.tries = 0,
                          !.got = [@ EXCEPT !.key = NextKey, !.at = clock + 1]]
<1>1. Shape(q) /\ q.pc = "create"
  BY Frame DEF Create
<1>2. CASE NextItem(r, q)
  BY <1>1, <1>2, PassedForm
<1>3. CASE e \in Entities /\ NewIssue(e, q.plan[e].name) /\ Put(r, p)
  <2>1. Onto(p, q, "insert", 0, got, q.writes, q.locks)
    BY <1>1 DEF Shape, Onto
  <2>2. req' = [req EXCEPT ![r] = p]
    BY <1>3 DEF Put
  <2> HIDE DEF p
  <2> QED
    BY <1>1, <1>3, <2>1, <2>2 DEF Turned, Turn, CreatedOne
<1>4. CASE q.tries + 1 < MaxRetries /\ Put(r, [q EXCEPT !.tries = @ + 1])
  BY <1>1, <1>4, RetryForm
<1> QED
  BY <1>2, <1>3, <1>4 DEF Create, Fault

LEMMA InsertForm ==
    ASSUME IInv, NEW r \in Requests, Insert(r)
    PROVE  Turned(r)
<1> DEFINE q == req[r]
           row == [state |-> "live", key |-> q.got.key, direction |-> "bidirectional",
                   stamp |-> q.got.at, rank |-> q.began]
           w == [q EXCEPT !.writes.rows = With(@, q.here, row)]
<1>1. Shape(q) /\ q.pc = "insert"
  BY Frame DEF Insert
<1>2. CASE RollBack(r)
  BY <1>2 DEF RollBack, Put, Turned, Turn
<1>3. CASE LinkAllowed(q.here, q.got.key) /\ NextItem(r, Lock(w, Mine(q)))
  <2>1. /\ Shape(w) /\ w.kind = q.kind /\ w.plan = q.plan /\ w.here = q.here
        /\ w.began = q.began /\ w.locks = q.locks
        /\ w.writes = [q.writes EXCEPT !.rows = With(@, q.here, NewLink(q))]
    BY <1>1 DEF Shape, NewLink
  <2> HIDE DEF w
  <2>2. PICK p : /\ req' = [req EXCEPT ![r] = p]
                 /\ Past(p, q, w.writes, q.locks \cup {Mine(q)})
    BY <1>3, <2>1, LockedForm
  <2> QED
    BY <1>1, <1>3, <2>1, <2>2 DEF Turned, Turn, Inserted
<1> QED
  BY <1>2, <1>3 DEF Insert, Mine

LEMMA CallForm ==
    ASSUME IInv, NEW r \in Requests, Update(r) \/ Transition(r) \/ Compare(r)
    PROVE  Turned(r)
<1> DEFINE q == req[r]
<1>1. Shape(q)
  BY Frame
<1>2. ASSUME NEW pc,
             \/ q.pc \in {"update", "transition"} /\ pc = "touch"
             \/ q.pc = "compare" /\ pc \in {"touch", "transition"},
             Put(r, [q EXCEPT !.pc = pc, !.tries = 0])
      PROVE  Turned(r)
  <2> DEFINE p == [q EXCEPT !.pc = pc, !.tries = 0]
  <2>1. p.pc = pc /\ Onto(p, q, pc, 0, q.got, q.writes, q.locks)
    BY <1>1 DEF Shape, Onto
  <2>2. req' = [req EXCEPT ![r] = p]
    BY <1>2 DEF Put
  <2> HIDE DEF p
  <2> QED
    BY <1>2, <2>1, <2>2 DEF Turned, Turn, Called
<1>3. CASE Update(r)
  <2>1. /\ q.pc = "update"
        /\ \/ Put(r, [q EXCEPT !.pc = "touch", !.tries = 0])
           \/ NextItem(r, q)
           \/ q.tries + 1 < MaxRetries /\ Put(r, [q EXCEPT !.tries = @ + 1])
    BY <1>3 DEF Update, Fault
  <2> QED
    BY <1>2, <2>1, PassedForm, RetryForm
<1>4. CASE Transition(r)
  <2>1. /\ q.pc = "transition"
        /\ \/ Put(r, [q EXCEPT !.pc = "touch", !.tries = 0])
           \/ q.tries + 1 < MaxRetries /\ Put(r, [q EXCEPT !.tries = @ + 1])
    BY <1>4 DEF Transition, Fault
  <2> QED
    BY <1>2, <2>1, RetryForm
<1>5. CASE Compare(r)
  <2>1. /\ q.pc = "compare"
        /\ \/ \E pc \in {"touch", "transition"} : Put(r, [q EXCEPT !.pc = pc, !.tries = 0])
           \/ NextItem(r, q)
           \/ q.tries + 1 < MaxRetries /\ Put(r, [q EXCEPT !.tries = @ + 1])
    BY <1>5 DEF Compare, Fault
  <2> QED
    BY <1>2, <2>1, PassedForm, RetryForm
<1> QED
  BY <1>3, <1>4, <1>5

LEMMA FetchForm ==
    ASSUME IInv, NEW r \in Requests, Fetch(r)
    PROVE  Turned(r)
<1> DEFINE q == req[r]
           seen == issue[q.plan[q.here].key]
           got == [q.got EXCEPT !.summary = seen.summary, !.status = seen.status,
                                !.at = seen.updated]
           p == [q EXCEPT !.pc = "read", !.tries = 0,
                          !.got = [@ EXCEPT !.summary = seen.summary,
                                            !.status = seen.status, !.at = seen.updated]]
<1>1. Shape(q) /\ q.pc = "fetch"
  BY Frame DEF Fetch
<1>2. \/ Open(q.plan[q.here].key) /\ Put(r, p)
      \/ NextItem(r, q)
      \/ q.tries + 1 < MaxRetries /\ Put(r, [q EXCEPT !.tries = @ + 1])
  BY DEF Fetch, Fault
<1>3. CASE Open(q.plan[q.here].key) /\ Put(r, p)
  <2>1. Onto(p, q, "read", 0, got, q.writes, q.locks)
    BY <1>1 DEF Shape, Onto
  <2>2. req' = [req EXCEPT ![r] = p]
    BY <1>3 DEF Put
  <2> HIDE DEF p
  <2> QED
    BY <1>1, <1>3, <2>1, <2>2 DEF Turned, Turn, Fetched
<1> QED
  BY <1>1, <1>2, <1>3, PassedForm, RetryForm

LEMMA ReadForm ==
    ASSUME IInv, NEW r \in Requests, Read(r)
    PROVE  Turned(r)
<1> DEFINE q == req[r]
           names == IF q.got.summary # name[q.here]
                    THEN With(q.writes.names, q.here, q.got.summary) ELSE q.writes.names
           percents == IF q.here \in Activities /\ NewPercent(q) # percent[q.here]
                       THEN With(q.writes.percents, q.here, NewPercent(q))
                       ELSE q.writes.percents
           p == [q EXCEPT !.pc = "write", !.writes.names = names,
                          !.writes.percents = percents]
<1>1. Shape(q) /\ q.pc = "read"
  BY Frame DEF Read
<1>2. Put(r, p) \/ NextItem(r, q)
  BY DEF Read, NewPercent
<1>3. CASE Put(r, p)
  <2> HIDE DEF names, percents
  <2>1. Onto(p, q, "write", q.tries, q.got,
             [q.writes EXCEPT !.names = names, !.percents = percents], q.locks)
    BY <1>1 DEF Shape, Onto
  <2>2. req' = [req EXCEPT ![r] = p]
    BY <1>3 DEF Put
  <2> HIDE DEF p
  <2>3. WasRead(p, q)
    BY <1>1, <2>1 DEF WasRead, names, percents
  <2> QED
    BY <2>2, <2>3 DEF Turned, Turn
<1> QED
  BY <1>1, <1>2, <1>3, PassedForm

LEMMA WriteForm ==
    ASSUME IInv, NEW r \in Requests, Write(r)
    PROVE  Turned(r)
<1> DEFINE q == req[r]
           w == Lock(q, Own(q))
           p == [w EXCEPT !.pc = "stamp"]
<1>1. Shape(q) /\ q.pc = "write"
  BY Frame DEF Write
<1>2. w.kind = q.kind
  BY <1>1, LockShape
<1>3. IF q.kind = "pull" THEN Put(r, p) ELSE NextItem(r, w)
  BY <1>2 DEF Write, Own
<1>4. CASE q.kind = "pull"
  <2>1. Onto(p, q, "stamp", q.tries, q.got, q.writes, q.locks \cup {Own(q)})
    BY <1>1 DEF Shape, Onto, Lock
  <2>2. req' = [req EXCEPT ![r] = p]
    BY <1>3, <1>4 DEF Put
  <2> HIDE DEF p
  <2> QED
    BY <1>1, <1>4, <2>1, <2>2 DEF Turned, Turn, Written
<1>5. CASE q.kind # "pull"
  <2>1. PICK n : /\ req' = [req EXCEPT ![r] = n]
                 /\ Past(n, q, q.writes, q.locks \cup {Own(q)})
    BY <1>1, <1>3, <1>5, LockedForm
  <2> QED
    BY <1>1, <1>5, <2>1 DEF Turned, Turn, Written
<1> QED
  BY <1>4, <1>5

LEMMA StampForm ==
    ASSUME IInv, NEW r \in Requests, Stamp(r)
    PROVE  Turned(r)
<1> DEFINE q == req[r]
           w == [q.writes EXCEPT !.stamps = With(@, q.here, q.got.at)]
           s == [q EXCEPT !.writes.stamps = With(@, q.here, q.got.at)]
           l == Lock(s, Mine(q))
           p == [l EXCEPT !.pc = "read"]
<1>1. Shape(q) /\ q.pc = "stamp"
  BY Frame DEF Stamp
<1>2. /\ Shape(s) /\ s.kind = q.kind /\ s.plan = q.plan /\ s.here = q.here
      /\ s.began = q.began /\ s.locks = q.locks /\ s.writes = w /\ s.tries = q.tries
      /\ s.got = q.got
  BY <1>1 DEF Shape
<1>3. IF l.kind = "updated" THEN Put(r, p) ELSE NextItem(r, l)
  BY DEF Stamp, Mine
<1> HIDE DEF s, w
<1>4. l.kind = q.kind
  BY <1>2, LockShape
<1>5. CASE q.kind = "updated"
  <2>1. Onto(p, s, "read", s.tries, s.got, s.writes, s.locks \cup {Mine(q)})
    BY <1>2 DEF Shape, Onto, Lock
  <2>2. req' = [req EXCEPT ![r] = p]
    BY <1>3, <1>4, <1>5 DEF Put
  <2> HIDE DEF p
  <2>3. Onto(p, q, "read", q.tries, q.got, w, q.locks \cup {Mine(q)})
    BY <1>2, <2>1 DEF Onto
  <2> QED
    BY <1>1, <1>5, <2>2, <2>3 DEF Turned, Turn, Stamped, w
<1>6. CASE q.kind # "updated"
  <2>1. PICK n : /\ req' = [req EXCEPT ![r] = n]
                 /\ Past(n, q, w, q.locks \cup {Mine(q)})
    BY <1>2, <1>3, <1>4, <1>6, LockedForm
  <2> QED
    BY <1>1, <1>6, <2>1 DEF Turned, Turn, Stamped, w
<1> QED
  BY <1>5, <1>6

LEMMA StatementForm ==
    ASSUME IInv, NEW r \in Requests, Touch(r) \/ Drop(r) \/ Aim(r)
    PROVE  Turned(r)
<1> DEFINE q == req[r]
           e == q.here
<1>1. Shape(q)
  BY Frame
<1>2. CASE Touch(r)
  <2>1. q.pc = "touch" /\ NextItem(r, Lock(q, Mine(q)))
    BY <1>2 DEF Touch, Mine
  <2>2. PICK n : /\ req' = [req EXCEPT ![r] = n]
                 /\ Past(n, q, q.writes, q.locks \cup {Mine(q)})
    BY <1>1, <2>1, LockedForm
  <2> QED
    BY <2>1, <2>2 DEF Turned, Turn, Touched
<1>3. CASE Drop(r)
  <2> DEFINE w == [q EXCEPT !.writes.gone = @ \cup {e}]
  <2>1. /\ Shape(w) /\ w.kind = q.kind /\ w.plan = q.plan /\ w.here = q.here
        /\ w.began = q.began /\ w.locks = q.locks
        /\ w.writes = [q.writes EXCEPT !.gone = @ \cup {e}]
    BY <1>1 DEF Shape
  <2>2. q.pc = "drop" /\ NextItem(r, Lock(w, Mine(q)))
    BY <1>3 DEF Drop, Mine
  <2> HIDE DEF w
  <2>3. PICK n : /\ req' = [req EXCEPT ![r] = n]
                 /\ Past(n, q, w.writes, q.locks \cup {Mine(q)})
    BY <2>1, <2>2, LockedForm
  <2> QED
    BY <2>1, <2>2, <2>3 DEF Turned, Turn, Dropped
<1>4. CASE Aim(r)
  <2> DEFINE p == [q EXCEPT !.pc = "compare", !.got.status = StatusOf(percent[e])]
  <2>1. Onto(p, q, "compare", q.tries, [q.got EXCEPT !.status = StatusOf(percent[e])],
             q.writes, q.locks)
    BY <1>1 DEF Shape, Onto
  <2>2. q.pc = "aim" /\ (Put(r, p) \/ NextItem(r, q))
    BY <1>4 DEF Aim
  <2> HIDE DEF p
  <2>3. CASE Put(r, p)
    BY <2>1, <2>2, <2>3 DEF Put, Turned, Turn, Aimed
  <2> QED
    BY <2>2, <2>3, PassedForm
<1> QED
  BY <1>2, <1>3, <1>4

\* Every step of a request has one of these forms.
LEMMA StepForm ==
    ASSUME IInv, NEW r \in Requests, RequestStep(r)
    PROVE  Turned(r)
<1>1. Commit(r) \/ Victim(r) => Turned(r)
  BY DEF Commit, Victim, RollBack, Put, Turned, Turn
<1> QED
  BY <1>1, CreateForm, InsertForm, CallForm, FetchForm, ReadForm, WriteForm, StampForm,
     StatementForm DEF RequestStep

-----------------------------------------------------------------------------
(* How a request begins.                                                    *)

Planned(p, plan) ==
    /\ Shape(p) /\ AtFirst(p, plan)
    /\ p.writes = NoWrites /\ p.locks = {} /\ p.began \in {0, clock}

BegunPush(p) ==
    /\ p.kind = "push"
    /\ \E es \in SUBSET Entities :
          /\ \A e \in es : Live(e) => link[e].direction \in ToJira
          /\ Planned(p, [e \in es |-> Item(e, Code[e])])

BegunPull(p) ==
    /\ p.kind \in {"pull", "sync"}
    /\ \E es \in SUBSET Mapped : Planned(p, [e \in es |-> Item(e, link[e].rank)])

BegunAlert(p) == p = [Idle EXCEPT !.kind = "alert", !.pc = "create", !.here = "variance"]

HookRequest(h, e) ==
    [Idle EXCEPT !.kind = h.event, !.here = e,
                 !.pc = IF h.event = "deleted" THEN "drop" ELSE "stamp",
                 !.got = [@ EXCEPT !.summary = h.summary, !.status = h.status,
                                   !.at = clock + 1]]

BegunHook(p) ==
    /\ clock' = clock + 1 /\ issue' = issue
    /\ \E h \in hooks : \E e \in Target(h) : p = HookRequest(h, e)

Begun(p) == BegunPush(p) \/ BegunPull(p) \/ BegunAlert(p) \/ BegunHook(p)

LEMMA StartForm ==
    ASSUME NEW r \in Requests, NEW kind \in {"push", "pull", "sync"}, NEW plan,
           Start(r, kind, plan)
    PROVE  \E p : req' = [req EXCEPT ![r] = p] /\ p.kind = kind /\ Planned(p, plan)
<1> DEFINE q == [Idle EXCEPT !.kind = kind, !.plan = plan,
                              !.began = IF kind = "push" THEN clock ELSE 0]
<1>1. /\ Shape(q) /\ q.kind = kind /\ q.plan = plan /\ q.writes = NoWrites /\ q.locks = {}
      /\ q.got = Nothing /\ q.tries = 0 /\ q.began \in {0, clock}
  BY IdleShape DEF Shape, Idle
<1>2. Proceed(r, q)
  BY DEF Start
<1> HIDE DEF q
<1> QED
  BY <1>1, <1>2, ProceedForm DEF Planned

LEMMA BeginForm ==
    ASSUME NEW r \in Requests, Begin(r)
    PROVE  \E p : req' = [req EXCEPT ![r] = p] /\ Begun(p)
<1>1. CASE StartPush(r)
  <2>0. PICK all \in {Activities, Elements} : \E chosen \in SUBSET Page(all) :
            LET pushed == {e \in chosen : Live(e) => link[e].direction \in ToJira}
            IN  Start(r, "push", [e \in pushed |-> Item(e, Code[e])])
    BY <1>1 DEF StartPush
  <2>1. PICK chosen \in SUBSET Page(all) :
            Start(r, "push", [e \in {e \in chosen : Live(e) => link[e].direction \in ToJira} |->
                                 Item(e, Code[e])])
    BY <2>0
  <2> DEFINE es == {e \in chosen : Live(e) => link[e].direction \in ToJira}
  <2>2. es \in SUBSET Entities
    BY DEF Page, Entities
  <2>3. PICK p : /\ req' = [req EXCEPT ![r] = p] /\ p.kind = "push"
                 /\ Planned(p, [e \in es |-> Item(e, Code[e])])
    BY <2>1, StartForm
  <2>4. \A e \in es : Live(e) => link[e].direction \in ToJira
    OBVIOUS
  <2> HIDE DEF es
  <2> QED
    BY <2>2, <2>3, <2>4 DEF Begun, BegunPush
<1>2. CASE StartPull(r)
  <2>1. PICK chosen \in SUBSET {e \in Mapped : link[e].direction \in FromJira} :
            Start(r, "pull", [e \in chosen |-> Item(e, link[e].rank)])
    BY <1>2 DEF StartPull
  <2>2. PICK p : /\ req' = [req EXCEPT ![r] = p] /\ p.kind = "pull"
                 /\ Planned(p, [e \in chosen |-> Item(e, link[e].rank)])
    BY <2>1, StartForm
  <2> QED
    BY <2>2 DEF Begun, BegunPull
<1>3. CASE StartProgress(r)
  <2>1. PICK chosen \in SUBSET Mapped :
            Start(r, "sync", [e \in chosen |-> Item(e, link[e].rank)])
    BY <1>3 DEF StartProgress
  <2>2. PICK p : /\ req' = [req EXCEPT ![r] = p] /\ p.kind = "sync"
                 /\ Planned(p, [e \in chosen |-> Item(e, link[e].rank)])
    BY <2>1, StartForm
  <2> QED
    BY <2>2 DEF Begun, BegunPull
<1>4. CASE StartAlert(r)
  BY <1>4 DEF StartAlert, Put, Begun, BegunAlert
<1>5. ASSUME NEW h \in hooks, ReceiveHook(r, h)
      PROVE  \E p : req' = [req EXCEPT ![r] = p] /\ Begun(p)
  BY <1>5 DEF ReceiveHook, Put, Begun, BegunHook, HookRequest
<1> QED
  BY <1>1, <1>2, <1>3, <1>4, <1>5 DEF Begin

\* The fields of a request that a webhook began.
LEMMA HookFields ==
    ASSUME NEW h, NEW e, NEW p, p = HookRequest(h, e)
    PROVE  /\ Shape(p) /\ p.kind = h.event /\ p.here = e
           /\ p.pc = IF h.event = "deleted" THEN "drop" ELSE "stamp"
           /\ p.plan = <<>> /\ p.began = 0 /\ p.tries = 0
           /\ p.writes = NoWrites /\ p.locks = {}
           /\ p.got.key = NoKey /\ p.got.summary = h.summary /\ p.got.status = h.status
           /\ p.got.at = clock + 1
<1>1. /\ Shape(Idle) /\ Idle.plan = <<>> /\ DOMAIN Idle.plan = {} /\ Idle.began = 0
      /\ Idle.tries = 0 /\ Idle.writes = NoWrites /\ Idle.locks = {} /\ Idle.got.key = NoKey
  BY IdleShape DEF Idle, Nothing
<1> QED
  BY <1>1 DEF Shape, HookRequest

\* What a step does to the requests.
LEMMA RequestsForm ==
    ASSUME IInv, [Next]_vars
    PROVE  \/ req' = req
           \/ \E r \in Requests : \E p :
                 /\ req' = [req EXCEPT ![r] = p]
                 /\ \/ Begin(r) /\ Begun(p)
                    \/ RequestStep(r) /\ Turn(p, req[r])
<1>1. CASE UNCHANGED vars
  BY <1>1 DEF vars
<1>2. ASSUME NEW r \in Requests, Begin(r)
      PROVE  \E p : req' = [req EXCEPT ![r] = p] /\ Begin(r) /\ Begun(p)
  BY <1>2, BeginForm
<1>3. ASSUME NEW r \in Requests, RequestStep(r)
      PROVE  \E p : req' = [req EXCEPT ![r] = p] /\ RequestStep(r) /\ Turn(p, req[r])
  BY <1>3, StepForm DEF Turned
<1>4. CASE (\E h \in hooks : IgnoreHook(h)) \/ Users
  BY <1>4 DEF IgnoreHook, Users, UserCreatesIssue, UserRetitlesIssue, UserMovesIssue,
              UserErasesIssue, Connect, SwitchSync, DeleteIntegration, Rename, Remove,
              Progress, DeleteMapping, CreateMapping
<1> QED
  BY <1>1, <1>2, <1>3, <1>4 DEF Next

-----------------------------------------------------------------------------
(* What a step does to the issues.                                          *)

Item1(q) == q.plan[q.here]

TrackerLeft == issue' = issue /\ hooks' \subseteq hooks /\ clock' \in {clock, clock + 1}

TrackerStep ==
    \/ TrackerLeft
    \/ \E owner : NewIssue(owner, clock + 1)
    \/ \E r \in Requests : /\ req[r].pc = "create" /\ req[r].here \in Entities
                           /\ NewIssue(req[r].here, Item1(req[r]).name)
    \/ \E r \in Requests :
          /\ req[r].pc = "update"
          /\ EditIssue(Item1(req[r]).key, Item1(req[r]).name, issue[Item1(req[r]).key].status)
    \/ \E r \in Requests :
          /\ req[r].pc = "transition"
          /\ EditIssue(Item1(req[r]).key, issue[Item1(req[r]).key].summary, req[r].got.status)
    \/ \E k \in Keys : UserRetitlesIssue(k) \/ UserMovesIssue(k) \/ UserErasesIssue(k)

LEMMA TrackerForm ==
    ASSUME [Next]_vars
    PROVE  TrackerStep
<1>1. CASE UNCHANGED vars
  BY <1>1 DEF vars, jira, TrackerStep, TrackerLeft
<1>2. ASSUME NEW r \in Requests, Begin(r)
      PROVE  TrackerLeft
  BY <1>2 DEF Begin, StartPush, StartPull, StartProgress, Start, StartAlert, ReceiveHook,
              jira, TrackerLeft
<1>3. ASSUME NEW r \in Requests, Create(r) PROVE TrackerStep
  BY <1>3 DEF Create, Fault, jira, TrackerStep, TrackerLeft, Item1
<1>4. ASSUME NEW r \in Requests, Update(r) PROVE TrackerStep
  BY <1>4 DEF Update, Fault, Inside, jira, TrackerStep, TrackerLeft, Item1
<1>5. ASSUME NEW r \in Requests, Transition(r) PROVE TrackerStep
  BY <1>5 DEF Transition, Fault, Inside, jira, TrackerStep, TrackerLeft, Item1
<1>6. ASSUME NEW r \in Requests,
             \/ Touch(r) \/ Fetch(r) \/ Read(r) \/ Write(r) \/ Stamp(r) \/ Drop(r)
             \/ Aim(r) \/ Compare(r) \/ Victim(r) \/ Insert(r) \/ Commit(r)
      PROVE  TrackerLeft
  BY <1>6 DEF Touch, Fetch, Read, Write, Stamp, Drop, Aim, Compare, Victim, Insert,
              Commit, Fault, Inside, jira, TrackerLeft
<1>7. CASE UserCreatesIssue
  BY <1>7 DEF UserCreatesIssue, TrackerStep
<1>8. CASE \E k \in Keys : UserRetitlesIssue(k) \/ UserMovesIssue(k) \/ UserErasesIssue(k)
  BY <1>8 DEF TrackerStep
<1>9. ASSUME \/ Connect \/ SwitchSync \/ DeleteIntegration
             \/ \E e \in Entities : Rename(e) \/ Remove(e) \/ DeleteMapping(e)
             \/ \E e \in Activities, p \in Percents : Progress(e, p)
             \/ \E e \in Entities, k \in Keys, d \in Directions : CreateMapping(e, k, d)
      PROVE  TrackerLeft
  BY <1>9 DEF Connect, SwitchSync, DeleteIntegration, Rename, Remove, DeleteMapping,
              Progress, CreateMapping, jira, TrackerLeft
<1>10. ASSUME NEW h \in hooks, IgnoreHook(h)
       PROVE  TrackerLeft
  BY <1>10 DEF IgnoreHook, TrackerLeft
<1> QED
  BY <1>1, <1>2, <1>3, <1>4, <1>5, <1>6, <1>7, <1>8, <1>9, <1>10
     DEF Next, RequestStep, Users, TrackerStep

LEMMA EditForm ==
    ASSUME IssueShape, NEW j, NEW text, NEW s, EditIssue(j, text, s), NEW k \in Keys
    PROVE  /\ issue'[k].state = issue[k].state
           /\ k # j => issue'[k] = issue[k]
           /\ k = j => /\ issue'[k].summary = text /\ issue'[k].status = s
                       /\ issue'[k].updated = clock + 1
<1>1. issue' = [issue EXCEPT ![j].summary = text, ![j].status = s, ![j].updated = clock + 1]
  BY DEF EditIssue
<1>2. CASE j = k
  BY <1>1, <1>2 DEF IssueShape
<1>3. CASE j # k
  BY <1>1, <1>3 DEF IssueShape
<1> QED
  BY <1>2, <1>3

LEMMA NewForm ==
    ASSUME IInv, NEW owner, NEW text, NewIssue(owner, text)
    PROVE  /\ NextKey \in Keys \ Created /\ issue[NextKey].state = "none"
           /\ issue'[NextKey] = [state |-> "open", owner |-> owner, summary |-> text,
                                 status |-> "To Do", updated |-> clock + 1]
           /\ \A k \in Keys : k # NextKey => issue'[k] = issue[k]
<1>1. NextKey \notin Created /\ NextKey \in Keys
  BY NewIssueKeeps DEF IInv, NewIssue
<1> QED
  BY <1>1 DEF NewIssue, IInv, IssueShape, Created

LEMMA EraseForm ==
    ASSUME IInv, NEW j \in Keys, UserErasesIssue(j), NEW k \in Keys
    PROVE  /\ k # j => issue'[k] = issue[k]
           /\ k = j => issue[k].state = "open" /\ issue'[k].state = "deleted"
           /\ issue'[k].summary = issue[k].summary /\ issue'[k].status = issue[k].status
           /\ issue'[k].updated = issue[k].updated
<1>1. issue' = [issue EXCEPT ![j].state = "deleted"] /\ Open(j)
  BY DEF UserErasesIssue
<1>2. CASE j = k
  BY <1>1, <1>2 DEF IInv, IssueShape, Open
<1>3. CASE j # k
  BY <1>1, <1>3 DEF IInv, IssueShape
<1> QED
  BY <1>2, <1>3
=============================================================================
