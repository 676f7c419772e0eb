------------------------- MODULE JiraExchangeProofs -------------------------
(* What the exchange does with names, summaries and issues, for every       *)
(* number of requests, activities and issues: theorems about JiraSync that  *)
(* rest on the invariant of JiraSyncProofs and on the refinement of         *)
(* JiraLinks.                                                               *)
EXTENDS JiraSyncProofs

(* Links of one direction. What a request has set out to do was right by    *)
(* the links when it began, and links keep their key and direction, so it   *)
(* stays right, however long the request takes. l is the mapping table.     *)
Inward(e, l) == e \in Entities /\ l[e].state # "none" /\ l[e].direction \in FromJira
Outward(e, k, l) ==
    e \in Entities /\ l[e].state # "none" /\ l[e].key = k /\ l[e].direction \in ToJira

PlanAims(q, l) ==
    /\ q.kind = "push" =>
          \A e \in DOMAIN q.plan : q.plan[e].key # NoKey => Outward(e, q.plan[e].key, l)
    /\ q.kind = "pull" => \A e \in DOMAIN q.plan : Inward(e, l)
    /\ \A e \in DOMAIN q.writes.names : Inward(e, l)

StepAims(q, l) ==
    /\ q.pc = "update" => Outward(q.here, q.plan[q.here].key, l)
    /\ q.pc \in {"fetch", "read"} => Inward(q.here, l)
    /\ q.pc = "stamp" /\ q.kind = "updated" => Inward(q.here, l)

Aims(q, l) == PlanAims(q, l) /\ StepAims(q, l)

\* No two entities are linked to one issue.
KeysDiffer(l) ==
    \A e, f \in Entities :
        l[e].state # "none" /\ l[f].state # "none" /\ l[e].key = l[f].key => e = f

NamesShape == name = [e \in Entities |-> name[e]]

DInv == /\ IInv /\ KeysDiffer(link) /\ NamesShape
        /\ \A r \in Requests : Aims(req[r], link)

-----------------------------------------------------------------------------
(* What the refinement says of the rows.                                    *)

Lasts(l, m) ==
    \A e \in Entities : l[e].state # "none" =>
        m[e].state # "none" /\ m[e].key = l[e].key /\ m[e].direction = l[e].direction

LEMMA LinksLast ==
    ASSUME IInv, IInv', [Next]_vars, KeysDiffer(link)
    PROVE  Lasts(link, link') /\ KeysDiffer(link')
<1>1. LinkShape /\ LinkShape'
  BY DEF IInv
<1>2. \A e \in Entities :
          /\ e \in Links!Linked <=> link[e].state # "none"
          /\ link[e].state # "none" =>
                /\ Life[e].key = link[e].key /\ Life[e].direction = link[e].direction
                /\ Life[e] \in Links!Link
  BY <1>1, LifeShape DEF Links!Linked
<1>3. \A e \in Entities :
          /\ Life'[e] = Links!None <=> link'[e].state = "none"
          /\ link'[e].state # "none" =>
                Life'[e].key = link'[e].key /\ Life'[e].direction = link'[e].direction
  BY <1>1, NextLifeShape
<1>4. \A e \in Entities : e \in Links!Linked => Life[e] # Links!None
  BY DEF Links!Linked
<1>5. CASE Links!Attach
  <2>1. /\ \A e \in Links!Linked : Life'[e] = Life[e]
        /\ \A e \in Entities \ Links!Linked : Life'[e] # Links!None =>
              \A f \in Entities \ {e} :
                 Life'[f] # Links!None => Life'[f].key # Life'[e].key
    BY <1>5 DEF Links!Attach
  <2>2. Lasts(link, link')
    BY <1>2, <1>3, <1>4, <2>1 DEF Lasts
  <2>3. ASSUME NEW e \in Entities, NEW f \in Entities, e # f,
               link'[e].state # "none", link'[f].state # "none"
        PROVE  link'[e].key # link'[f].key
    <3>1. CASE e \in Links!Linked /\ f \in Links!Linked
      <4>1. link'[e].key = link[e].key /\ link'[f].key = link[f].key
        BY <1>2, <2>2, <3>1 DEF Lasts
      <4> QED
        BY <1>2, <2>3, <3>1, <4>1 DEF KeysDiffer
    <3>2. CASE e \notin Links!Linked
      BY <1>3, <2>1, <2>3, <3>2
    <3>3. CASE f \notin Links!Linked
      BY <1>3, <2>1, <2>3, <3>3
    <3> QED
      BY <3>1, <3>2, <3>3
  <2> QED
    BY <2>2, <2>3 DEF KeysDiffer
<1>6. ASSUME NEW d \in Entities, Links!Detach(d)
      PROVE  Lasts(link, link') /\ KeysDiffer(link')
  <2>1. d \in Links!Linked /\ Life' = [Life EXCEPT ![d].state = "gone"]
    BY <1>6 DEF Links!Detach
  <2>2. Life = [e \in Entities |-> Life[e]]
    BY DEF Life
  <2>3. \A e \in Entities : e # d => Life'[e] = Life[e]
    BY <2>1, <2>2
  <2>4. /\ Life'[d] = [Life[d] EXCEPT !.state = "gone"] /\ Life[d] \in Links!Link
        /\ Life'[d] # Links!None
    <3>1. Life'[d] = [Life[d] EXCEPT !.state = "gone"] /\ Life[d] \in Links!Link
      BY <1>2, <2>1, <2>2
    <3> QED
      BY <3>1 DEF Links!Link, Links!None
  <2>5. Life'[d].key = Life[d].key /\ Life'[d].direction = Life[d].direction
    BY <2>4 DEF Links!Link
  <2>6. Lasts(link, link')
    BY <1>2, <1>3, <1>4, <2>1, <2>3, <2>4, <2>5 DEF Lasts
  <2>7. \A e \in Entities : link'[e].state # "none" => link[e].state # "none"
    BY <1>2, <1>3, <2>1, <2>3, LifeShape, <1>1
  <2> QED
    BY <2>6, <2>7 DEF Lasts, KeysDiffer
<1>7. CASE Life' = Life
  <2>1. Lasts(link, link')
    BY <1>2, <1>3, <1>4, <1>7 DEF Lasts
  <2>2. \A e \in Entities : link'[e].state # "none" => link[e].state # "none"
    BY <1>3, <1>7, LifeShape, <1>1
  <2> QED
    BY <2>1, <2>2 DEF Lasts, KeysDiffer
<1> QED
  BY <1>5, <1>6, <1>7, StepMaps DEF Links!Next

LEMMA AimsLast ==
    ASSUME NEW q, NEW l, NEW m, Aims(q, l), Lasts(l, m)
    PROVE  Aims(q, m)
<1>1. \A e : Inward(e, l) => Inward(e, m)
  BY DEF Inward, Lasts
<1>2. \A e, k : Outward(e, k, l) => Outward(e, k, m)
  BY DEF Outward, Lasts
<1> QED
  BY <1>1, <1>2 DEF Aims, PlanAims, StepAims

-----------------------------------------------------------------------------
(* A step of a request leaves it with right aims.                           *)

\* Request r goes on with right aims.
AimsWell(r) == \E p : req' = [req EXCEPT ![r] = p] /\ Aims(p, link)

LEMMA ProceedAims ==
    ASSUME NEW r \in Requests, NEW q, Shape(q), PlanAims(q, link), Proceed(r, q)
    PROVE  AimsWell(r)
<1>1. CASE Put(r, [q EXCEPT !.pc = "commit", !.here = "nobody"])
  <2> DEFINE p == [q EXCEPT !.pc = "commit", !.here = "nobody"]
  <2>1. p.kind = q.kind /\ p.plan = q.plan /\ p.writes = q.writes /\ p.pc = "commit"
    BY DEF Shape
  <2>2. Aims(p, link)
    <3> HIDE DEF p
    <3> QED
      BY <2>1 DEF Aims, PlanAims, StepAims
  <2> QED
    BY <1>1, <2>2 DEF Put, AimsWell
<1>2. ASSUME NEW e \in Turns(q.plan),
             Put(r, [q EXCEPT !.pc = FirstStep(q.kind, q.plan[e]), !.here = e])
      PROVE  AimsWell(r)
  <2> DEFINE p == [q EXCEPT !.pc = FirstStep(q.kind, q.plan[e]), !.here = e]
  <2>1. e \in DOMAIN q.plan /\ q.kind \in {"push", "pull", "sync"}
    BY DEF Turns, Shape
  <2>2. /\ p.kind = q.kind /\ p.plan = q.plan /\ p.writes = q.writes /\ p.here = e
        /\ p.pc = FirstStep(q.kind, q.plan[e])
    BY DEF Shape
  <2>3. Aims(p, link)
    <3> HIDE DEF p
    <3>1. PlanAims(p, link)
      BY <2>2 DEF PlanAims
    <3>2. p.pc = "update" => p.kind = "push" /\ p.plan[e].key # NoKey
      BY <2>1, <2>2 DEF FirstStep
    <3>3. p.pc = "fetch" => p.kind = "pull"
      BY <2>1, <2>2 DEF FirstStep
    <3>4. p.pc \in {"create", "update", "fetch", "aim"}
      BY <2>1, <2>2 DEF FirstStep
    <3> QED
      BY <2>1, <2>2, <3>1, <3>2, <3>3, <3>4 DEF Aims, PlanAims, StepAims
  <2> QED
    BY <1>2, <2>3 DEF Put, AimsWell
<1> QED
  BY <1>1, <1>2 DEF Proceed

LEMMA NextItemAims ==
    ASSUME NEW r \in Requests, NEW q, Shape(q), PlanAims(q, link), NextItem(r, q)
    PROVE  AimsWell(r)
<1> DEFINE n == [q EXCEPT !.plan = [e \in DOMAIN @ \ {q.here} |-> @[e]],
                          !.got = Nothing, !.tries = 0]
<1>1. /\ n.kind = q.kind /\ n.writes = q.writes
      /\ n.plan = [e \in DOMAIN q.plan \ {q.here} |-> q.plan[e]]
      /\ n.got = Nothing
      /\ n \in [pc : {n.pc}, kind : {n.kind}, plan : {n.plan}, here : {n.here},
                began : {n.began}, got : {n.got}, tries : {n.tries},
                writes : {n.writes}, locks : {n.locks}]
  BY DEF Shape
<1>2. Shape(n)
  BY <1>1 DEF Shape, Nothing
<1>3. Proceed(r, n)
  BY DEF NextItem
<1> HIDE DEF n
<1>4. PlanAims(n, link)
  BY <1>1 DEF PlanAims
<1> QED
  BY <1>2, <1>3, <1>4, ProceedAims

LEMMA IdleAims == ASSUME NEW l PROVE Aims(Idle, l)
BY DEF Aims, PlanAims, StepAims, Idle, NoWrites

\* A request that goes to a step without aims of its own.
LEMMA ElsewhereAims ==
    ASSUME NEW r \in Requests, NEW q, PlanAims(q, link), NEW p,
           p.kind = q.kind, p.plan = q.plan, p.writes.names = q.writes.names,
           p.pc \notin {"update", "fetch", "read"},
           p.pc = "stamp" => p.kind # "updated",
           req' = [req EXCEPT ![r] = p]
    PROVE  AimsWell(r)
BY DEF AimsWell, Aims, PlanAims, StepAims

LEMMA LockAims ==
    ASSUME NEW q, Shape(q), PlanAims(q, link), NEW x
    PROVE  Shape(Lock(q, x)) /\ PlanAims(Lock(q, x), link)
<1> DEFINE l == Lock(q, x)
<1>1. Shape(l) /\ l.kind = q.kind /\ l.plan = q.plan /\ l.writes = q.writes
  BY LockShape
<1> HIDE DEF l
<1> QED
  BY <1>1 DEF PlanAims, l

LEMMA Here ==
    ASSUME DInv, NEW r \in Requests
    PROVE  /\ Shape(req[r]) /\ Purpose(req[r]) /\ Aims(req[r], link)
           /\ PlanAims(req[r], link) /\ StepAims(req[r], link)
BY Frame DEF DInv, Aims

LEMMA RetryAims ==
    ASSUME DInv, NEW r \in Requests, Put(r, [req[r] EXCEPT !.tries = @ + 1])
    PROVE  AimsWell(r)
<1> DEFINE q == req[r]
           p == [q EXCEPT !.tries = @ + 1]
<1>1. Shape(q) /\ Aims(q, link)
  BY Here
<1>2. /\ p.kind = q.kind /\ p.plan = q.plan /\ p.writes = q.writes /\ p.pc = q.pc
      /\ p.here = q.here
  BY <1>1 DEF Shape
<1>3. Aims(p, link)
  <2> HIDE DEF p
  <2> QED
    BY <1>1, <1>2 DEF Aims, PlanAims, StepAims
<1> QED
  BY <1>3 DEF Put, AimsWell

\* A new request has aims of its own kind.
LEMMA StartAims ==
    ASSUME NEW r \in Requests, NEW kind \in {"push", "pull", "sync"}, NEW plan,
           Start(r, kind, plan),
           kind = "push" =>
              \A e \in DOMAIN plan : plan[e].key # NoKey => Outward(e, plan[e].key, link),
           kind = "pull" => \A e \in DOMAIN plan : Inward(e, link)
    PROVE  AimsWell(r)
<1> DEFINE q == [Idle EXCEPT !.kind = kind, !.plan = plan,
                              !.began = IF kind = "push" THEN clock ELSE 0]
<1>1. Shape(q) /\ q.kind = kind /\ q.plan = plan /\ q.writes = Idle.writes
  BY IdleShape DEF Shape, Idle
<1>2. Proceed(r, q)
  BY DEF Start
<1> HIDE DEF q
<1>3. DOMAIN q.writes.names = {}
  BY <1>1 DEF Idle, NoWrites
<1>4. PlanAims(q, link)
  BY <1>1, <1>3 DEF PlanAims
<1> QED
  BY <1>1, <1>2, <1>4, ProceedAims

LEMMA BeginAims ==
    ASSUME NEW r \in Requests, Begin(r)
    PROVE  AimsWell(r)
<1>1. CASE StartPush(r)
  <2>1. PICK all \in {Activities, Elements} : \E chosen \in SUBSET Page(all) :
            LET pushed == {e \in chosen : Live(e) => link[e].direction \in ToJira}
            IN  Start(r, "push", [e \in pushed |-> Item(e, Code[e])])
    BY <1>1 DEF StartPush
  <2>2. PICK chosen \in SUBSET Page(all) :
            Start(r, "push", [e \in {e \in chosen : Live(e) => link[e].direction \in ToJira} |->
                                 Item(e, Code[e])])
    BY <2>1
  <2> DEFINE plan == [e \in {e \in chosen : Live(e) => link[e].direction \in ToJira} |->
                         Item(e, Code[e])]
  <2>3. ASSUME NEW e \in DOMAIN plan, plan[e].key # NoKey
        PROVE  Outward(e, plan[e].key, link)
    <3>1. e \in Entities /\ (Live(e) => link[e].direction \in ToJira)
      BY DEF Page, Entities
    <3>2. Live(e) /\ plan[e].key = link[e].key
      BY <2>3 DEF Item
    <3> QED
      BY <3>1, <3>2 DEF Outward, Live
  <2> HIDE DEF plan
  <2>4. Start(r, "push", plan)
    BY <2>2 DEF plan
  <2> QED
    BY <2>3, <2>4, StartAims
<1>2. CASE StartPull(r)
  <2>1. PICK chosen \in SUBSET {e \in Mapped : link[e].direction \in FromJira} :
            Start(r, "pull", [e \in chosen |-> Item(e, link[e].rank)])
    BY <1>2 DEF StartPull
  <2>2. \A e \in DOMAIN [e \in chosen |-> Item(e, link[e].rank)] : Inward(e, link)
    BY DEF Mapped, Live, Inward, Entities
  <2> QED
    BY <2>1, <2>2, StartAims
<1>3. CASE StartProgress(r)
  BY <1>3, StartAims DEF StartProgress
<1>4. CASE StartAlert(r)
  <2> DEFINE p == [Idle EXCEPT !.kind = "alert", !.pc = "create", !.here = "variance"]
  <2>1. /\ req' = [req EXCEPT ![r] = p] /\ p.kind = "alert" /\ p.pc = "create"
        /\ p.plan = <<>> /\ DOMAIN p.writes.names = {}
    BY <1>4 DEF StartAlert, Put, Idle, NoWrites
  <2> HIDE DEF p
  <2> QED
    BY <2>1 DEF AimsWell, Aims, PlanAims, StepAims
<1>5. ASSUME NEW h \in hooks, ReceiveHook(r, h)
      PROVE  AimsWell(r)
  <2>1. PICK e \in Target(h) :
          Put(r, [Idle EXCEPT !.kind = h.event, !.here = e,
                    !.pc = IF h.event = "deleted" THEN "drop" ELSE "stamp",
                    !.got = [@ EXCEPT !.summary = h.summary, !.status = h.status,
                                      !.at = clock + 1]])
    BY <1>5 DEF ReceiveHook
  <2> DEFINE p == [Idle EXCEPT !.kind = h.event, !.here = e,
                    !.pc = IF h.event = "deleted" THEN "drop" ELSE "stamp",
                    !.got = [@ EXCEPT !.summary = h.summary, !.status = h.status,
                                      !.at = clock + 1]]
  <2>2. /\ req' = [req EXCEPT ![r] = p] /\ p.here = e /\ p.pc \in {"drop", "stamp"}
        /\ DOMAIN p.plan = {} /\ DOMAIN p.writes.names = {}
    BY <2>1 DEF Put, Idle, NoWrites
  <2>3. Inward(e, link)
    BY DEF Target, Live, Inward
  <2> HIDE DEF p
  <2> QED
    BY <2>2, <2>3 DEF AimsWell, Aims, PlanAims, StepAims
<1> QED
  BY <1>1, <1>2, <1>3, <1>4, <1>5 DEF Begin

\* The calls to Jira.
LEMMA CallAims ==
    ASSUME DInv, NEW r \in Requests,
           Create(r) \/ Update(r) \/ Fetch(r) \/ Compare(r) \/ Transition(r)
    PROVE  AimsWell(r)
<1> DEFINE q == req[r]
<1>1. Shape(q) /\ PlanAims(q, link) /\ StepAims(q, link)
  BY Here
<1>2. ASSUME NEW pc \in {"insert", "touch", "transition"}, NEW got,
             Put(r, [q EXCEPT !.pc = pc, !.tries = 0, !.got = got])
      PROVE  AimsWell(r)
  <2> DEFINE p == [q EXCEPT !.pc = pc, !.tries = 0, !.got = got]
  <2>1. p.kind = q.kind /\ p.plan = q.plan /\ p.writes = q.writes /\ p.pc = pc
    BY <1>1 DEF Shape
  <2>2. req' = [req EXCEPT ![r] = p]
    BY <1>2 DEF Put
  <2> HIDE DEF p
  <2> QED
    BY <1>1, <2>1, <2>2, ElsewhereAims
<1>3. ASSUME NEW pc \in {"touch", "transition"}, Put(r, [q EXCEPT !.pc = pc, !.tries = 0])
      PROVE  AimsWell(r)
  <2> DEFINE p == [q EXCEPT !.pc = pc, !.tries = 0]
  <2>1. p.kind = q.kind /\ p.plan = q.plan /\ p.writes = q.writes /\ p.pc = pc
    BY <1>1 DEF Shape
  <2>2. req' = [req EXCEPT ![r] = p]
    BY <1>3 DEF Put
  <2> HIDE DEF p
  <2> QED
    BY <1>1, <2>1, <2>2, ElsewhereAims
<1>4. ASSUME Fetch(r), NEW got, Put(r, [q EXCEPT !.pc = "read", !.tries = 0, !.got = got])
      PROVE  AimsWell(r)
  <2> DEFINE p == [q EXCEPT !.pc = "read", !.tries = 0, !.got = got]
  <2>1. /\ p.kind = q.kind /\ p.plan = q.plan /\ p.writes = q.writes /\ p.pc = "read"
        /\ p.here = q.here
    BY <1>1 DEF Shape
  <2>2. Inward(q.here, link)
    BY <1>1, <1>4 DEF Fetch, StepAims
  <2>3. req' = [req EXCEPT ![r] = p]
    BY <1>4 DEF Put
  <2> HIDE DEF p
  <2> QED
    BY <1>1, <2>1, <2>2, <2>3 DEF AimsWell, Aims, PlanAims, StepAims
<1>5. NextItem(r, q) => AimsWell(r)
  BY <1>1, NextItemAims
<1>6. Put(r, [q EXCEPT !.tries = @ + 1]) => AimsWell(r)
  BY RetryAims
<1>7. CASE Create(r)
  <2>1. \/ \E got : Put(r, [q EXCEPT !.pc = "insert", !.tries = 0, !.got = got])
        \/ NextItem(r, q) \/ Put(r, [q EXCEPT !.tries = @ + 1])
    BY <1>7 DEF Create, Fault
  <2> QED
    BY <1>2, <1>5, <1>6, <2>1
<1>8. CASE Update(r) \/ Transition(r)
  <2>1. \/ Put(r, [q EXCEPT !.pc = "touch", !.tries = 0])
        \/ NextItem(r, q) \/ Put(r, [q EXCEPT !.tries = @ + 1])
    BY <1>8 DEF Update, Transition, Fault
  <2> QED
    BY <1>3, <1>5, <1>6, <2>1
<1>9. CASE Compare(r)
  <2>1. \/ \E pc \in {"touch", "transition"} : Put(r, [q EXCEPT !.pc = pc, !.tries = 0])
        \/ NextItem(r, q) \/ Put(r, [q EXCEPT !.tries = @ + 1])
    BY <1>9 DEF Compare, Fault
  <2> QED
    BY <1>3, <1>5, <1>6, <2>1
<1>10. CASE Fetch(r)
  <2>1. \/ \E got : Put(r, [q EXCEPT !.pc = "read", !.tries = 0, !.got = got])
        \/ NextItem(r, q) \/ Put(r, [q EXCEPT !.tries = @ + 1])
    BY <1>10 DEF Fetch, Fault
  <2> QED
    BY <1>4, <1>5, <1>6, <1>10, <2>1
<1> QED
  BY <1>7, <1>8, <1>9, <1>10

\* The statements of the database.
LEMMA StatementAims ==
    ASSUME DInv, NEW r \in Requests,
           Insert(r) \/ Touch(r) \/ Write(r) \/ Drop(r) \/ Aim(r) \/ Victim(r) \/ Commit(r)
    PROVE  AimsWell(r)
<1> DEFINE q == req[r]
           e == q.here
<1>1. Shape(q) /\ PlanAims(q, link) /\ StepAims(q, link)
  BY Here
<1>2. RollBack(r) => AimsWell(r)
  BY IdleAims DEF RollBack, Put, AimsWell
<1>3. NextItem(r, q) => AimsWell(r)
  BY <1>1, NextItemAims
<1>4. ASSUME NEW w, Shape(w), w.kind = q.kind, w.plan = q.plan,
             w.writes.names = q.writes.names, NEW x, NextItem(r, Lock(w, x))
      PROVE  AimsWell(r)
  <2>1. PlanAims(w, link)
    BY <1>1, <1>4 DEF PlanAims
  <2> QED
    BY <1>4, <2>1, LockAims, NextItemAims
<1>5. CASE Insert(r)
  <2> DEFINE row == [state |-> "live", key |-> q.got.key, direction |-> "bidirectional",
                     stamp |-> q.got.at, rank |-> q.began]
             w == [q EXCEPT !.writes.rows = With(@, e, row)]
  <2>1. /\ Shape(w) /\ w.kind = q.kind /\ w.plan = q.plan
        /\ w.writes.names = q.writes.names
    BY <1>1 DEF Shape
  <2>2. RollBack(r) \/ NextItem(r, Lock(w, <<"link", e>>))
    BY <1>5 DEF Insert
  <2> HIDE DEF w
  <2> QED
    BY <1>2, <1>4, <2>1, <2>2
<1>6. CASE Touch(r)
  BY <1>1, <1>4, <1>6 DEF Touch
<1>7. CASE Write(r)
  <2> DEFINE w == Lock(q, <<"entity", e>>)
             p == [w EXCEPT !.pc = "stamp"]
  <2>1. Shape(w) /\ PlanAims(w, link)
    BY <1>1, LockAims
  <2>2. (w.kind = "pull" /\ Put(r, p)) \/ NextItem(r, w)
    BY <1>7 DEF Write
  <2> HIDE DEF w
  <2>3. p.kind = w.kind /\ p.plan = w.plan /\ p.writes = w.writes /\ p.pc = "stamp"
    BY <2>1 DEF Shape
  <2> HIDE DEF p
  <2> QED
    BY <2>1, <2>2, <2>3, ElsewhereAims, NextItemAims DEF Put
<1>8. CASE Drop(r)
  <2> DEFINE w == [q EXCEPT !.writes.gone = @ \cup {e}]
  <2>1. /\ Shape(w) /\ w.kind = q.kind /\ w.plan = q.plan
        /\ w.writes.names = q.writes.names
    BY <1>1 DEF Shape
  <2>2. NextItem(r, Lock(w, <<"link", e>>))
    BY <1>8 DEF Drop
  <2> HIDE DEF w
  <2> QED
    BY <1>4, <2>1, <2>2
<1>9. CASE Aim(r)
  <2> DEFINE p == [q EXCEPT !.pc = "compare", !.got.status = StatusOf(percent[e])]
  <2>1. p.kind = q.kind /\ p.plan = q.plan /\ p.writes = q.writes /\ p.pc = "compare"
    BY <1>1 DEF Shape
  <2>2. Put(r, p) \/ NextItem(r, q)
    BY <1>9 DEF Aim
  <2> HIDE DEF p
  <2> QED
    BY <1>1, <1>3, <2>1, <2>2, ElsewhereAims DEF Put
<1>10. CASE Victim(r)
  BY <1>2, <1>10 DEF Victim
<1>11. CASE Commit(r)
  BY <1>11, IdleAims DEF Commit, Put, AimsWell
<1> QED
  BY <1>5, <1>6, <1>7, <1>8, <1>9, <1>10, <1>11

LEMMA ReadAims ==
    ASSUME DInv, NEW r \in Requests, Read(r)
    PROVE  AimsWell(r)
<1> DEFINE q == req[r]
           e == q.here
<1>1. Shape(q) /\ PlanAims(q, link) /\ Inward(e, link)
  BY Here DEF Read, StepAims
<1>2. ASSUME NEW n, NEW m, n = q.writes.names \/ n = With(q.writes.names, e, q.got.summary),
             Put(r, [q EXCEPT !.pc = "write", !.writes.names = n, !.writes.percents = m])
      PROVE  AimsWell(r)
  <2> DEFINE p == [q EXCEPT !.pc = "write", !.writes.names = n, !.writes.percents = m]
  <2>1. /\ p.kind = q.kind /\ p.plan = q.plan /\ p.pc = "write" /\ p.writes.names = n
        /\ req' = [req EXCEPT ![r] = p]
    BY <1>1, <1>2 DEF Shape, Put
  <2> HIDE DEF p
  <2>2. DOMAIN n \subseteq DOMAIN q.writes.names \cup {e}
    BY <1>2 DEF With
  <2>3. PlanAims(p, link)
    BY <1>1, <2>1, <2>2 DEF PlanAims
  <2> QED
    BY <2>1, <2>3 DEF AimsWell, Aims, StepAims
<1>3. NextItem(r, q) \/ \E n, m :
          /\ n = q.writes.names \/ n = With(q.writes.names, e, q.got.summary)
          /\ Put(r, [q EXCEPT !.pc = "write", !.writes.names = n, !.writes.percents = m])
  BY DEF Read
<1> QED
  BY <1>1, <1>2, <1>3, NextItemAims

LEMMA StampAims ==
    ASSUME DInv, NEW r \in Requests, Stamp(r)
    PROVE  AimsWell(r)
<1> DEFINE e == req[r].here
           s == [req[r] EXCEPT !.writes.stamps = With(@, e, req[r].got.at)]
           q == Lock(s, <<"link", e>>)
           p == [q EXCEPT !.pc = "read"]
<1>1. Shape(req[r]) /\ PlanAims(req[r], link) /\ StepAims(req[r], link) /\ req[r].pc = "stamp"
  BY Here DEF Stamp
<1>2. /\ Shape(s) /\ s.kind = req[r].kind /\ s.plan = req[r].plan /\ s.here = e
      /\ s.writes.names = req[r].writes.names
  BY <1>1 DEF Shape
<1>3. IF q.kind = "updated" THEN Put(r, p) ELSE NextItem(r, q)
  BY DEF Stamp
<1> HIDE DEF s
<1>4. PlanAims(s, link)
  BY <1>1, <1>2 DEF PlanAims
<1>5. Shape(q) /\ PlanAims(q, link) /\ q.kind = s.kind /\ q.here = s.here
  BY <1>2, <1>4, LockAims, LockShape
<1> HIDE DEF q
<1>6. /\ p.kind = q.kind /\ p.plan = q.plan /\ p.writes = q.writes /\ p.pc = "read"
      /\ p.here = q.here
  BY <1>5 DEF Shape
<1> HIDE DEF p
<1>7. q.kind = "updated" => Inward(p.here, link)
  BY <1>1, <1>2, <1>5, <1>6 DEF StepAims
<1>8. q.kind = "updated" => Aims(p, link)
  BY <1>5, <1>6, <1>7 DEF Aims, PlanAims, StepAims
<1> QED
  BY <1>3, <1>5, <1>8, NextItemAims DEF Put, AimsWell

-----------------------------------------------------------------------------
\* Who changes names.
LEMMA NameSteps ==
    ASSUME Next
    PROVE  \/ name' = name
           \/ \E e \in Entities : Rename(e) /\ name' = [name EXCEPT ![e] = clock + 1]
           \/ \E r \in Requests : Commit(r) /\ name' = Overlay(name, req[r].writes.names)
<1>1. CASE \E r \in Requests : Begin(r)
  BY <1>1 DEF Begin, StartPush, StartPull, StartProgress, Start, StartAlert, ReceiveHook,
              database
<1>2. CASE \E r \in Requests : Plain(r) \/ Insert(r)
  BY <1>2 DEF Plain, Insert, Create, Update, Touch, Fetch, Read, Write, Stamp, Drop, Aim,
              Compare, Transition, Victim, Fault, Inside, Quietly, database
<1>3. CASE \E r \in Requests : Commit(r)
  BY <1>3 DEF Commit
<1>4. CASE \/ Others
           \/ \E e \in Entities : DeleteMapping(e)
           \/ \E e \in Entities, k \in Keys, d \in Directions : CreateMapping(e, k, d)
  BY <1>4 DEF Others, UserCreatesIssue, UserRetitlesIssue, UserMovesIssue,
              UserErasesIssue, Connect, SwitchSync, DeleteIntegration, Rename, Remove,
              Progress, IgnoreHook, DeleteMapping, CreateMapping, database
<1> QED
  BY <1>1, <1>2, <1>3, <1>4, StepCases

LEMMA InitDInv == Init => DInv
<1> SUFFICES ASSUME Init PROVE DInv
  OBVIOUS
<1>1. \A r \in Requests : req[r] = Idle
  BY DEF Init
<1>2. KeysDiffer(link)
  BY DEF Init, NoLink, KeysDiffer
<1>3. NamesShape
  BY DEF Init, NamesShape
<1> QED
  BY <1>1, <1>2, <1>3, IdleAims, InitInv DEF DInv

LEMMA NextDInv == DInv /\ [Next]_vars => DInv'
<1> SUFFICES ASSUME DInv, [Next]_vars PROVE DInv'
  OBVIOUS
<1>1. IInv /\ IInv'
  BY NextInv DEF DInv
<1>2. Lasts(link, link') /\ KeysDiffer(link')
  BY <1>1, LinksLast DEF DInv
<1>3. req' = req \/ \E r \in Requests : AimsWell(r)
  <2>1. CASE UNCHANGED vars
    BY <2>1 DEF vars
  <2>2. ASSUME NEW r \in Requests, Plain(r) \/ Insert(r) \/ Commit(r)
        PROVE  AimsWell(r)
    BY <2>2, CallAims, StatementAims, ReadAims, StampAims DEF Plain
  <2>3. CASE Others \/ (\E e \in Entities : DeleteMapping(e))
             \/ \E e \in Entities, k \in Keys, d \in Directions : CreateMapping(e, k, d)
    BY <2>3 DEF Others, UserCreatesIssue, UserRetitlesIssue, UserMovesIssue,
                UserErasesIssue, Connect, SwitchSync, DeleteIntegration, Rename, Remove,
                Progress, IgnoreHook, DeleteMapping, CreateMapping
  <2> QED
    BY <2>1, <2>2, <2>3, StepCases, BeginAims
<1>4. \A r \in Requests : Aims(req'[r], link)
  BY <1>3 DEF DInv, IInv, RequestShape, AimsWell
<1>5. \A r \in Requests : Aims(req'[r], link')
  BY <1>2, <1>4, AimsLast
<1>6. NamesShape'
  <2>1. CASE UNCHANGED vars
    BY <2>1 DEF vars, database, DInv, NamesShape
  <2>2. CASE Next
    BY <2>2, NameSteps DEF DInv, NamesShape, Overlay
  <2> QED
    BY <2>1, <2>2
<1> QED
  BY <1>1, <1>2, <1>5, <1>6 DEF DInv

LEMMA AimsAlways == Spec => []DInv
BY InitDInv, NextDInv, PTL DEF Spec

-----------------------------------------------------------------------------
(* What the invariant means for names and summaries.                        *)

\* A name changes by its user's hand, or by a commit that its link allows.
LEMMA NamesChange ==
    ASSUME DInv, Next, NEW e \in Entities, name'[e] # name[e]
    PROVE  Rename(e) \/ Inward(e, link)
<1>1. name = [f \in Entities |-> name[f]]
  BY DEF DInv, NamesShape
<1>2. CASE name' = name
  BY <1>2
<1>3. ASSUME NEW f \in Entities, Rename(f), name' = [name EXCEPT ![f] = clock + 1]
      PROVE  Rename(e)
  <2>1. e = f
    BY <1>1, <1>3
  <2> QED
    BY <1>3, <2>1
<1>4. ASSUME NEW r \in Requests, name' = Overlay(name, req[r].writes.names)
      PROVE  Inward(e, link)
  <2>1. e \in DOMAIN req[r].writes.names
    BY <1>1, <1>4 DEF Overlay
  <2> QED
    BY <2>1, Here DEF PlanAims
<1> QED
  BY <1>2, <1>3, <1>4, NameSteps

LEMMA EditedSummary ==
    ASSUME IssueShape, NEW j, NEW text, NEW s, EditIssue(j, text, s), NEW k \in Keys
    PROVE  issue'[k].summary = IF j = k THEN text ELSE issue[k].summary
<1>1. issue' = [issue EXCEPT ![j].summary = text, ![j].status = s, ![j].updated = clock + 1]
  BY DEF EditIssue
<1>2. CASE j = k
  BY <1>1, <1>2 DEF IssueShape
<1>3. CASE j # k
  BY <1>1, <1>3 DEF IssueShape
<1> QED
  BY <1>2, <1>3

LEMMA OpenSummaryStays ==
    ASSUME IssueShape, KeysInOrder, NEW owner, NEW text, NewIssue(owner, text),
           NEW k \in Keys, Open(k)
    PROVE  issue'[k].summary = issue[k].summary
<1>1. NextKey \notin Created
  BY NewIssueKeeps
<1>2. k # NextKey
  BY <1>1 DEF Open, Created
<1> QED
  BY <1>2 DEF NewIssue, IssueShape

\* A summary changes by its user's hand, or by a push that its link allows.
LEMMA SummariesChange ==
    ASSUME DInv, Next, NEW k \in Keys, Open(k), issue'[k].summary # issue[k].summary
    PROVE  UserRetitlesIssue(k) \/ \E e : Outward(e, k, link)
<1>1. IssueShape /\ KeysInOrder
  BY DEF DInv, IInv
<1>2. ASSUME NEW owner, NEW text, NewIssue(owner, text)
      PROVE  FALSE
  BY <1>1, <1>2, OpenSummaryStays
<1>3. ASSUME NEW r \in Requests, Begin(r) \/ Plain(r) \/ Insert(r) \/ Commit(r)
      PROVE  \E e : Outward(e, k, link)
  <2> DEFINE j == req[r].plan[req[r].here].key
  <2>1. CASE Update(r) /\ issue' # issue
    <3>1. EditIssue(j, req[r].plan[req[r].here].name, issue[j].status)
      BY <2>1 DEF Update, Fault, Inside, jira
    <3>2. j = k
      BY <1>1, <3>1, EditedSummary
    <3>3. StepAims(req[r], link) /\ req[r].pc = "update"
      BY <2>1, Here DEF Update
    <3> QED
      BY <3>2, <3>3 DEF StepAims
  <2>2. CASE Transition(r) /\ issue' # issue
    <3>1. EditIssue(j, issue[j].summary, req[r].got.status)
      BY <2>2 DEF Transition, Fault, Inside, jira
    <3> QED
      BY <1>1, <3>1, EditedSummary
  <2>3. CASE Create(r) /\ issue' # issue
    <3>1. \E owner, text : NewIssue(owner, text)
      BY <2>3 DEF Create, Fault, jira
    <3> QED
      BY <1>2, <3>1
  <2>4. CASE Begin(r) \/ Insert(r) \/ Commit(r)
    BY <2>4 DEF Begin, StartPush, StartPull, StartProgress, Start, StartAlert, ReceiveHook,
                Insert, Commit, Inside, jira
  <2>5. CASE /\ Plain(r)
             /\ ~Update(r) /\ ~Transition(r) /\ ~Create(r)
    <3>1. issue' = issue
      BY <2>5 DEF Plain, Touch, Fetch, Read, Write, Stamp, Drop, Aim, Compare, Victim,
                  Fault, Inside, jira
    <3> QED
      BY <3>1
  <2> QED
    BY <1>3, <2>1, <2>2, <2>3, <2>4, <2>5
<1>4. CASE Others
  <2>1. CASE UserCreatesIssue
    BY <1>2, <2>1 DEF UserCreatesIssue
  <2>2. ASSUME NEW j \in Keys, UserRetitlesIssue(j)
        PROVE  UserRetitlesIssue(k)
    <3>1. j = k
      BY <1>1, <2>2, EditedSummary DEF UserRetitlesIssue
    <3> QED
      BY <2>2, <3>1
  <2>3. ASSUME NEW j \in Keys, UserMovesIssue(j)
        PROVE  FALSE
    BY <1>1, <2>3, EditedSummary DEF UserMovesIssue
  <2>4. ASSUME NEW j \in Keys, UserErasesIssue(j)
        PROVE  FALSE
    BY <1>1, <2>4 DEF UserErasesIssue, IssueShape
  <2>5. CASE issue' = issue
    BY <2>5
  <2>6. \/ UserCreatesIssue
        \/ \E j \in Keys : UserRetitlesIssue(j) \/ UserMovesIssue(j) \/ UserErasesIssue(j)
        \/ issue' = issue
    BY <1>4 DEF Others, Connect, SwitchSync, DeleteIntegration, Rename, Remove, Progress,
                IgnoreHook, jira
  <2> QED
    BY <2>1, <2>2, <2>3, <2>4, <2>5, <2>6
<1>5. CASE \/ \E e \in Entities : DeleteMapping(e)
           \/ \E e \in Entities, j \in Keys, d \in Directions : CreateMapping(e, j, d)
  BY <1>5 DEF DeleteMapping, CreateMapping, jira
<1> QED
  BY <1>3, <1>4, <1>5, StepCases

LEMMA StepIsOneWay ==
    ASSUME DInv, [Next]_vars, NEW e \in Entities, Live(e)
    PROVE  /\ link[e].direction = "to_jira" /\ name'[e] # name[e] => Rename(e)
           /\ link[e].direction = "from_jira" /\ Open(link[e].key)
              /\ issue'[link[e].key].summary # issue[link[e].key].summary
              => UserRetitlesIssue(link[e].key)
<1>1. CASE UNCHANGED vars
  BY <1>1 DEF vars, database, jira
<1>2. CASE Next
  <2>1. ASSUME link[e].direction = "to_jira", name'[e] # name[e]
        PROVE  Rename(e)
    BY <1>2, <2>1, NamesChange DEF Inward, FromJira
  <2>2. ASSUME link[e].direction = "from_jira", Open(link[e].key),
               issue'[link[e].key].summary # issue[link[e].key].summary
        PROVE  UserRetitlesIssue(link[e].key)
    <3>1. link[e].state # "none" /\ link[e].key \in Keys
      BY DEF DInv, IInv, LinkShape, Live
    <3>2. ASSUME NEW f, Outward(f, link[e].key, link)
          PROVE  FALSE
      <4>1. e = f
        BY <3>1, <3>2 DEF DInv, KeysDiffer, Outward
      <4> QED
        BY <2>2, <3>2, <4>1 DEF Outward, ToJira
    <3> QED
      BY <1>2, <2>2, <3>1, <3>2, SummariesChange
  <2> QED
    BY <2>1, <2>2
<1> QED
  BY <1>1, <1>2

\* Whatever requests, webhooks and users overlap, and however long ago a
\* request read its links: only the program's users change a name that is
\* linked to Jira only, and only Jira's users a summary that is linked from
\* Jira only.
THEOREM OneWayLinksHold == Spec => OneWayLinks
<1>1. DInv /\ [Next]_vars =>
        [\A e \in Entities :
          /\ Live(e) /\ link[e].direction = "to_jira" /\ name'[e] # name[e]
             => Rename(e)
          /\ Live(e) /\ link[e].direction = "from_jira" /\ Open(link[e].key)
             /\ issue'[link[e].key].summary # issue[link[e].key].summary
             => UserRetitlesIssue(link[e].key)]_vars
  BY StepIsOneWay
<1> QED
  BY <1>1, AimsAlways, PTL DEF Spec, OneWayLinks

-----------------------------------------------------------------------------
(* One issue per entity. As long as nothing has gone wrong but that requests *)
(* overlap, there is one push at most, no link has gone, and an entity that  *)
(* has an issue is linked to it or about to be.                              *)
Peace == trouble \subseteq {"overlap"}

PlanItem(q, e, l) ==
    /\ e \in Entities /\ e \notin DOMAIN q.writes.rows
    /\ q.plan[e].key = NoKey => l[e].state = "none"

\* Of the items but the one that the request is at.
TidyRest(q, l) ==
    /\ q.kind # "push" => DOMAIN q.writes.rows = {}
    /\ q.kind = "push" => \A e \in DOMAIN q.plan \ {q.here} : PlanItem(q, e, l)

TidyPlan(q, l) ==
    /\ q.kind # "push" => DOMAIN q.writes.rows = {}
    /\ q.kind = "push" => \A e \in DOMAIN q.plan : PlanItem(q, e, l)

TidyStep(q, l) ==
    /\ q.kind # "push" => q.pc # "insert" /\ (q.pc = "create" => q.here \notin Entities)
    /\ q.kind = "push" =>
          /\ q.pc # "idle"
          /\ q.pc \in {"create", "insert"} => q.here \in DOMAIN q.plan /\ q.plan[q.here].key = NoKey
          /\ q.pc = "insert" =>
                q.got.key \in Keys /\ \A f \in Entities : l[f].key # q.got.key

Tidy(q, l) == TidyPlan(q, l) /\ TidyStep(q, l)

\* The entity is linked, or the push has its row, or is about to insert it.
Cared(e, l, q) ==
    \/ l[e].state = "live"
    \/ \E r \in Requests :
          /\ q[r].kind = "push"
          /\ e \in DOMAIN q[r].writes.rows \/ (q[r].pc = "insert" /\ q[r].here = e)

OneIssue ==
    \A j, k \in Created :
       issue[j].owner = issue[k].owner /\ issue[j].owner \in Entities => j = k

OnePush == \A r, s \in Requests : req[r].kind = "push" /\ req[s].kind = "push" => r = s

Calm ==
    /\ OnePush
    /\ \A e \in Entities : link[e].state # "gone"
    /\ \A r \in Requests : Tidy(req[r], link)
    /\ \A k \in Created : issue[k].owner \in Entities => Cared(issue[k].owner, link, req)
    /\ OneIssue

LinkKeys == \A e \in Entities : link[e].key \in Created \cup {NoKey}
HookEvents == \A h \in hooks : h.event \in {"created", "updated", "deleted"}

PInv == IInv /\ LinkKeys /\ HookEvents /\ (Peace => Calm)

-----------------------------------------------------------------------------
LEMMA IdleTidy == ASSUME NEW l PROVE Tidy(Idle, l) /\ Idle.kind = "none"
BY DEF Tidy, TidyPlan, TidyStep, Idle, NoWrites

LEMMA TroubleGrows ==
    ASSUME Next
    PROVE  trouble \subseteq trouble'
<1>1. CASE \E r \in Requests : Begin(r)
  BY <1>1 DEF Begin, StartPush, StartPull, StartProgress, Start, StartAlert, ReceiveHook,
              Beside
<1>2. CASE \E r \in Requests : Plain(r) \/ Insert(r)
  BY <1>2 DEF Plain, Insert, Create, Update, Touch, Fetch, Read, Write, Stamp, Drop, Aim,
              Compare, Transition, Victim, Fault, Inside, Quietly
<1>3. CASE \E r \in Requests : Commit(r)
  BY <1>3 DEF Commit
<1>4. CASE \/ Others
           \/ \E e \in Entities : DeleteMapping(e)
           \/ \E e \in Entities, k \in Keys, d \in Directions : CreateMapping(e, k, d)
  BY <1>4 DEF Others, UserCreatesIssue, UserRetitlesIssue, UserMovesIssue,
              UserErasesIssue, Connect, SwitchSync, DeleteIntegration, Rename, Remove,
              Progress, IgnoreHook, DeleteMapping, CreateMapping, Beside
<1> QED
  BY <1>1, <1>2, <1>3, <1>4, StepCases

\* The webhooks that Jira sends.
LEMMA HooksKept == HookEvents /\ [Next]_vars => HookEvents'
<1> SUFFICES ASSUME HookEvents, [Next]_vars PROVE HookEvents'
  OBVIOUS
<1>1. ASSUME NEW owner, NEW text, NewIssue(owner, text) PROVE HookEvents'
  <2> DEFINE h == [event |-> "created", key |-> NextKey, summary |-> text,
                   status |-> NoStatus, at |-> clock + 1]
  <2>1. hooks' = hooks \cup {h}
    BY <1>1 DEF NewIssue
  <2>2. h.event = "created"
    OBVIOUS
  <2> HIDE DEF h
  <2> QED
    BY <2>1, <2>2 DEF HookEvents
<1>2. ASSUME NEW k, NEW text, NEW s, EditIssue(k, text, s) PROVE HookEvents'
  BY <1>2 DEF EditIssue, HookEvents
<1>3. ASSUME hooks' \subseteq hooks PROVE HookEvents'
  BY <1>3 DEF HookEvents
<1>4. CASE UNCHANGED vars
  BY <1>3, <1>4 DEF vars, jira
<1>5. CASE \E r \in Requests : Begin(r)
  BY <1>3, <1>5 DEF Begin, StartPush, StartPull, StartProgress, Start, StartAlert,
                    ReceiveHook, jira
<1>6. CASE \E r \in Requests : Create(r)
  BY <1>1, <1>3, <1>6 DEF Create, Fault, jira
<1>7. CASE \E r \in Requests : Update(r) \/ Transition(r)
  BY <1>2, <1>3, <1>7 DEF Update, Transition, Fault, Inside, jira
<1>8. CASE \E r \in Requests :
             \/ Touch(r) \/ Fetch(r) \/ Read(r) \/ Write(r) \/ Stamp(r) \/ Drop(r)
             \/ Aim(r) \/ Compare(r) \/ Victim(r) \/ Insert(r) \/ Commit(r)
  BY <1>3, <1>8 DEF Touch, Fetch, Read, Write, Stamp, Drop, Aim, Compare, Victim, Insert,
                    Commit, Fault, Inside, jira
<1>9. CASE UserCreatesIssue
  BY <1>1, <1>9 DEF UserCreatesIssue
<1>10. CASE \E k \in Keys : UserRetitlesIssue(k) \/ UserMovesIssue(k)
  BY <1>2, <1>10 DEF UserRetitlesIssue, UserMovesIssue
<1>11. CASE \E k \in Keys : UserErasesIssue(k)
  BY <1>11 DEF UserErasesIssue, HookEvents
<1>12. CASE \/ Connect \/ SwitchSync \/ DeleteIntegration
            \/ \E e \in Entities : Rename(e) \/ Remove(e) \/ DeleteMapping(e)
            \/ \E e \in Activities, p \in Percents : Progress(e, p)
            \/ \E h \in hooks : IgnoreHook(h)
            \/ \E e \in Entities, k \in Keys, d \in Directions : CreateMapping(e, k, d)
  BY <1>3, <1>12 DEF Connect, SwitchSync, DeleteIntegration, Rename, Remove, DeleteMapping,
                     Progress, IgnoreHook, CreateMapping, jira
<1> QED
  BY <1>4, <1>5, <1>6, <1>7, <1>8, <1>9, <1>10, <1>11, <1>12, StepCases DEF Plain, Others

\* Links name issues that exist.
LEMMA CreatedGrows ==
    ASSUME IInv, [Next]_vars
    PROVE  Created \subseteq Created'
<1>1. IssueShape /\ KeysInOrder
  BY DEF IInv
<1>2. ASSUME NEW owner, NEW text, NewIssue(owner, text) PROVE Created \subseteq Created'
  BY <1>1, <1>2, NewIssueKeeps
<1>3. ASSUME NEW k, NEW text, NEW s, EditIssue(k, text, s) PROVE Created \subseteq Created'
  BY <1>1, <1>3, EditIssueKeeps
<1>4. issue' = issue => Created \subseteq Created'
  BY DEF Created
<1>5. CASE UNCHANGED vars
  BY <1>4, <1>5 DEF vars, jira
<1>6. CASE \E r \in Requests : Begin(r) \/ Insert(r) \/ Commit(r)
  BY <1>4, <1>6 DEF Begin, StartPush, StartPull, StartProgress, Start, StartAlert,
                    ReceiveHook, Insert, Commit, Inside, jira
<1>7. CASE \E r \in Requests : Create(r)
  BY <1>2, <1>4, <1>7 DEF Create, Fault, jira
<1>8. CASE \E r \in Requests : Update(r) \/ Transition(r)
  BY <1>3, <1>4, <1>8 DEF Update, Transition, Fault, Inside, jira
<1>9. CASE \E r \in Requests :
             \/ Touch(r) \/ Fetch(r) \/ Read(r) \/ Write(r) \/ Stamp(r) \/ Drop(r)
             \/ Aim(r) \/ Compare(r) \/ Victim(r)
  BY <1>4, <1>9 DEF Touch, Fetch, Read, Write, Stamp, Drop, Aim, Compare, Victim, Fault,
                    Inside, jira
<1>10. CASE UserCreatesIssue
  BY <1>2, <1>10 DEF UserCreatesIssue
<1>11. CASE \E k \in Keys : UserRetitlesIssue(k) \/ UserMovesIssue(k)
  BY <1>3, <1>11 DEF UserRetitlesIssue, UserMovesIssue
<1>12. CASE \E k \in Keys : UserErasesIssue(k)
  BY <1>1, <1>12, UserErasesKeeps
<1>13. CASE \/ Connect \/ SwitchSync \/ DeleteIntegration
            \/ \E e \in Entities : Rename(e) \/ Remove(e) \/ DeleteMapping(e)
            \/ \E e \in Activities, p \in Percents : Progress(e, p)
            \/ \E h \in hooks : IgnoreHook(h)
            \/ \E e \in Entities, k \in Keys, d \in Directions : CreateMapping(e, k, d)
  BY <1>4, <1>13 DEF Connect, SwitchSync, DeleteIntegration, Rename, Remove, DeleteMapping,
                     Progress, IgnoreHook, CreateMapping, jira
<1> QED
  BY <1>5, <1>6, <1>7, <1>8, <1>9, <1>10, <1>11, <1>12, <1>13, StepCases DEF Plain, Others

LEMMA LinkKeysKept == IInv /\ LinkKeys /\ [Next]_vars => LinkKeys'
<1> SUFFICES ASSUME IInv, LinkKeys, [Next]_vars PROVE LinkKeys'
  OBVIOUS
<1>1. Created \subseteq Created'
  BY CreatedGrows
<1>2. ASSUME link' = link PROVE LinkKeys'
  BY <1>1, <1>2 DEF LinkKeys
<1>3. ASSUME NEW r \in Requests, Commit(r) PROVE LinkKeys'
  <2>1. \A e \in Entities : link'[e].key = link[e].key \/ link'[e].key \in Created
    BY <1>3, CommitLinks DEF Committed, IInv, RowsPending
  <2> QED
    BY <1>1, <2>1 DEF LinkKeys
<1>4. ASSUME NEW e \in Entities, NEW k \in Keys, NEW d \in Directions, CreateMapping(e, k, d)
      PROVE  LinkKeys'
  <2>1. \A f \in Entities : link'[f].key = link[f].key \/ link'[f].key = k
    BY <1>4 DEF CreateMapping, IInv, LinkShape
  <2>2. k \in Created
    BY <1>4 DEF CreateMapping
  <2> QED
    BY <1>1, <2>1, <2>2 DEF LinkKeys
<1>5. ASSUME NEW e \in Entities, DeleteMapping(e) PROVE LinkKeys'
  <2>1. \A f \in Entities : link'[f].key = link[f].key
    BY <1>5 DEF DeleteMapping, IInv, LinkShape
  <2> QED
    BY <1>1, <2>1 DEF LinkKeys
<1>6. CASE UNCHANGED vars
  BY <1>2, <1>6 DEF vars, database
<1> QED
  BY <1>2, <1>3, <1>4, <1>5, <1>6, StepCases, BeginKeepsInv, PlainKeepsInv, OthersKeepInv,
     InsertLeavesLinks

-----------------------------------------------------------------------------
(* Steps of requests in peace.                                              *)

\* New issues have no entity of the program.
OwnersStay ==
    \A k \in Created' :
        (k \in Created /\ issue'[k].owner = issue[k].owner) \/ issue'[k].owner \notin Entities

LEMMA CalmKept ==
    ASSUME IInv, Calm, link' = link, OwnersStay,
           NEW r \in Requests, NEW p, req' = [req EXCEPT ![r] = p], Tidy(p, link),
           p.kind = "push" => \A s \in Requests : req[s].kind = "push" => s = r,
           req[r].kind = "push" =>
              /\ p.kind = "push" /\ DOMAIN req[r].writes.rows \subseteq DOMAIN p.writes.rows
              /\ req[r].pc = "insert" => req[r].here \in DOMAIN p.writes.rows
    PROVE  Calm'
<1>1. req'[r] = p /\ \A s \in Requests : s # r => req'[s] = req[s]
  BY DEF IInv, RequestShape
<1>2. OnePush'
  BY <1>1 DEF Calm, OnePush
<1>3. \A s \in Requests : Tidy(req'[s], link')
  BY <1>1 DEF Calm
<1>4. ASSUME NEW e, Cared(e, link, req)
      PROVE  Cared(e, link', req')
  <2>1. CASE link[e].state = "live"
    BY <2>1 DEF Cared
  <2>2. ASSUME NEW s \in Requests, req[s].kind = "push",
               e \in DOMAIN req[s].writes.rows \/ (req[s].pc = "insert" /\ req[s].here = e)
        PROVE  /\ req'[s].kind = "push"
               /\ e \in DOMAIN req'[s].writes.rows
                  \/ (req'[s].pc = "insert" /\ req'[s].here = e)
    BY <1>1, <2>2
  <2> QED
    BY <1>4, <2>1, <2>2 DEF Cared
<1>5. \A k \in Created' : issue'[k].owner \in Entities => Cared(issue'[k].owner, link', req')
  <2> SUFFICES ASSUME NEW k \in Created', issue'[k].owner \in Entities
               PROVE  Cared(issue'[k].owner, link', req')
    OBVIOUS
  <2>1. k \in Created /\ issue'[k].owner = issue[k].owner
    BY DEF OwnersStay
  <2>2. Cared(issue[k].owner, link, req)
    BY <2>1 DEF Calm
  <2> QED
    BY <1>4, <2>1, <2>2
<1>6. OneIssue'
  BY DEF Calm, OneIssue, OwnersStay
<1>7. \A e \in Entities : link'[e].state # "gone"
  BY DEF Calm
<1> QED
  BY <1>2, <1>3, <1>5, <1>6, <1>7 DEF Calm

\* From item to item.
Moves(r, q) ==
    \E p : /\ req' = [req EXCEPT ![r] = p] /\ Tidy(p, link)
           /\ p.kind = q.kind /\ p.writes.rows = q.writes.rows

LEMMA ProceedTidy ==
    ASSUME NEW r \in Requests, NEW q, Shape(q), TidyPlan(q, link), Proceed(r, q)
    PROVE  Moves(r, q)
<1>1. CASE Put(r, [q EXCEPT !.pc = "commit", !.here = "nobody"])
  <2> DEFINE p == [q EXCEPT !.pc = "commit", !.here = "nobody"]
  <2>1. p.kind = q.kind /\ p.plan = q.plan /\ p.writes = q.writes /\ p.pc = "commit"
    BY DEF Shape
  <2>2. req' = [req EXCEPT ![r] = p]
    BY <1>1 DEF Put
  <2> HIDE DEF p
  <2> QED
    BY <2>1, <2>2 DEF Moves, Tidy, TidyPlan, TidyStep, PlanItem
<1>2. ASSUME NEW e \in Turns(q.plan),
             Put(r, [q EXCEPT !.pc = FirstStep(q.kind, q.plan[e]), !.here = e])
      PROVE  Moves(r, q)
  <2> DEFINE p == [q EXCEPT !.pc = FirstStep(q.kind, q.plan[e]), !.here = e]
  <2>1. e \in DOMAIN q.plan /\ q.kind \in {"push", "pull", "sync"}
    BY DEF Turns, Shape
  <2>2. /\ p.kind = q.kind /\ p.plan = q.plan /\ p.writes = q.writes /\ p.here = e
        /\ p.pc = FirstStep(q.kind, q.plan[e])
    BY DEF Shape
  <2>3. req' = [req EXCEPT ![r] = p]
    BY <1>2 DEF Put
  <2> HIDE DEF p
  <2>4. /\ p.pc \in {"create", "update", "fetch", "aim"}
        /\ p.pc = "create" => p.kind = "push" /\ p.plan[e].key = NoKey
    BY <2>1, <2>2 DEF FirstStep
  <2>5. TidyPlan(p, link)
    BY <2>2 DEF TidyPlan, PlanItem
  <2>6. TidyStep(p, link)
    BY <2>1, <2>2, <2>4 DEF TidyStep
  <2> QED
    BY <2>2, <2>3, <2>5, <2>6 DEF Moves, Tidy
<1> QED
  BY <1>1, <1>2 DEF Proceed

LEMMA NextItemTidy ==
    ASSUME NEW r \in Requests, NEW q, Shape(q), TidyRest(q, link), NextItem(r, q)
    PROVE  Moves(r, q)
<1> DEFINE n == [q EXCEPT !.plan = [e \in DOMAIN @ \ {q.here} |-> @[e]],
                          !.got = Nothing, !.tries = 0]
<1>1. /\ n.kind = q.kind /\ n.writes = q.writes
      /\ n.plan = [e \in DOMAIN q.plan \ {q.here} |-> q.plan[e]]
      /\ n.got = Nothing
      /\ n \in [pc : {n.pc}, kind : {n.kind}, plan : {n.plan}, here : {n.here},
                began : {n.began}, got : {n.got}, tries : {n.tries},
                writes : {n.writes}, locks : {n.locks}]
  BY DEF Shape
<1>2. Shape(n)
  BY <1>1 DEF Shape, Nothing
<1>3. Proceed(r, n)
  BY DEF NextItem
<1> HIDE DEF n
<1>4. TidyPlan(n, link)
  BY <1>1 DEF TidyRest, TidyPlan, PlanItem
<1>5. Moves(r, n)
  BY <1>2, <1>3, <1>4, ProceedTidy
<1> QED
  BY <1>1, <1>5 DEF Moves

\* A step within an item, or past it, that inserts nothing.
LEMMA WithinItem ==
    ASSUME NEW r \in Requests, NEW q, TidyPlan(q, link), NEW p,
           p.kind = q.kind, p.plan = q.plan, p.writes.rows = q.writes.rows,
           p.pc \notin {"idle", "create", "insert"}, req' = [req EXCEPT ![r] = p]
    PROVE  Moves(r, q)
BY DEF Moves, Tidy, TidyPlan, TidyStep, PlanItem

LEMMA PastItem ==
    ASSUME NEW r \in Requests, NEW q, TidyPlan(q, link), NEW w, Shape(w),
           w.kind = q.kind, w.plan = q.plan, w.writes.rows = q.writes.rows, NextItem(r, w)
    PROVE  Moves(r, q)
<1>1. TidyRest(w, link)
  BY DEF TidyPlan, TidyRest, PlanItem
<1>2. Moves(r, w)
  BY <1>1, NextItemTidy
<1> QED
  BY <1>2 DEF Moves

LEMMA PastItemLocked ==
    ASSUME NEW r \in Requests, NEW q, TidyPlan(q, link), NEW w, Shape(w), NEW x,
           w.kind = q.kind, w.plan = q.plan, w.writes.rows = q.writes.rows,
           NextItem(r, Lock(w, x))
    PROVE  Moves(r, q)
<1> DEFINE l == Lock(w, x)
<1>1. Shape(l) /\ l.kind = w.kind /\ l.plan = w.plan /\ l.writes = w.writes
  BY LockShape
<1> HIDE DEF l
<1>2. NextItem(r, l)
  BY DEF l
<1> QED
  BY <1>1, <1>2, PastItem

LEMMA NoFault ==
    ASSUME Peace', NEW r, NEW effect, NEW GivenUp, Fault(r, effect, GivenUp)
    PROVE  FALSE
BY DEF Fault, Peace

LEMMA Tidied ==
    ASSUME IInv, Calm, NEW r \in Requests
    PROVE  /\ Shape(req[r]) /\ Tidy(req[r], link)
           /\ TidyPlan(req[r], link) /\ TidyStep(req[r], link)
BY Frame DEF Calm, Tidy

\* The steps that neither create nor insert.
Ordinary(r) ==
    \/ Update(r) \/ Touch(r) \/ Fetch(r) \/ Read(r) \/ Write(r) \/ Stamp(r) \/ Drop(r)
    \/ Aim(r) \/ Compare(r) \/ Transition(r)

LEMMA OrdinaryMoves ==
    ASSUME IInv, Calm, Peace', NEW r \in Requests, Ordinary(r)
    PROVE  Moves(r, req[r]) /\ req[r].pc # "insert"
<1> DEFINE q == req[r]
           e == q.here
<1>1. Shape(q) /\ TidyPlan(q, link)
  BY Tidied
<1>2. NextItem(r, q) => Moves(r, q)
  BY <1>1, PastItem
<1>3. \A x : NextItem(r, Lock(q, x)) => Moves(r, q)
  BY <1>1, PastItemLocked
<1>4. ASSUME NEW pc \in {"touch", "transition"}, Put(r, [q EXCEPT !.pc = pc, !.tries = 0])
      PROVE  Moves(r, q)
  <2> DEFINE p == [q EXCEPT !.pc = pc, !.tries = 0]
  <2>1. p.kind = q.kind /\ p.plan = q.plan /\ p.writes = q.writes /\ p.pc = pc
    BY <1>1 DEF Shape
  <2>2. req' = [req EXCEPT ![r] = p]
    BY <1>4 DEF Put
  <2> HIDE DEF p
  <2> QED
    BY <1>1, <2>1, <2>2, WithinItem
<1>5. CASE Update(r) \/ Transition(r)
  <2>1. Put(r, [q EXCEPT !.pc = "touch", !.tries = 0]) \/ NextItem(r, q)
    BY <1>5, NoFault DEF Update, Transition
  <2> QED
    BY <1>2, <1>4, <1>5, <2>1 DEF Update, Transition
<1>6. CASE Compare(r)
  <2>1. \/ \E pc \in {"touch", "transition"} : Put(r, [q EXCEPT !.pc = pc, !.tries = 0])
        \/ NextItem(r, q)
    BY <1>6, NoFault DEF Compare
  <2> QED
    BY <1>2, <1>4, <1>6, <2>1 DEF Compare
<1>7. CASE Fetch(r)
  <2> DEFINE seen == issue[q.plan[e].key]
             p == [q EXCEPT !.pc = "read", !.tries = 0,
                          !.got = [@ EXCEPT !.summary = seen.summary,
                                            !.status = seen.status, !.at = seen.updated]]
  <2>1. p.kind = q.kind /\ p.plan = q.plan /\ p.writes = q.writes /\ p.pc = "read"
    BY <1>1 DEF Shape
  <2>2. Put(r, p) \/ NextItem(r, q)
    BY <1>7, NoFault DEF Fetch
  <2> HIDE DEF p
  <2> QED
    BY <1>1, <1>2, <1>7, <2>1, <2>2, WithinItem DEF Put, Fetch
<1>8. CASE Read(r)
  <2>1. ASSUME NEW n, NEW m,
               Put(r, [q EXCEPT !.pc = "write", !.writes.names = n, !.writes.percents = m])
        PROVE  Moves(r, q)
    <3> DEFINE p == [q EXCEPT !.pc = "write", !.writes.names = n, !.writes.percents = m]
    <3>1. /\ p.kind = q.kind /\ p.plan = q.plan /\ p.pc = "write"
          /\ p.writes.rows = q.writes.rows /\ req' = [req EXCEPT ![r] = p]
      BY <1>1, <2>1 DEF Shape, Put
    <3> HIDE DEF p
    <3> QED
      BY <1>1, <3>1, WithinItem
  <2>2. NextItem(r, q) \/ \E n, m :
            Put(r, [q EXCEPT !.pc = "write", !.writes.names = n, !.writes.percents = m])
    BY <1>8 DEF Read
  <2> QED
    BY <1>2, <1>8, <2>1, <2>2 DEF Read
<1>9. CASE Touch(r)
  BY <1>3, <1>9 DEF Touch
<1>10. CASE Write(r)
  <2> DEFINE w == Lock(q, <<"entity", e>>)
             p == [w EXCEPT !.pc = "stamp"]
  <2>1. Shape(w) /\ w.kind = q.kind /\ w.plan = q.plan /\ w.writes = q.writes
    BY <1>1, LockShape
  <2>2. Put(r, p) \/ NextItem(r, w)
    BY <1>10 DEF Write
  <2> HIDE DEF w
  <2>3. p.kind = w.kind /\ p.plan = w.plan /\ p.writes = w.writes /\ p.pc = "stamp"
    BY <2>1 DEF Shape
  <2> HIDE DEF p
  <2> QED
    BY <1>1, <1>10, <2>1, <2>2, <2>3, WithinItem, PastItem DEF Put, Write
<1>11. CASE Stamp(r)
  <2> DEFINE s == [q EXCEPT !.writes.stamps = With(@, e, q.got.at)]
             w == Lock(s, <<"link", e>>)
             p == [w EXCEPT !.pc = "read"]
  <2>1. /\ Shape(s) /\ s.kind = q.kind /\ s.plan = q.plan
        /\ s.writes.rows = q.writes.rows
    BY <1>1 DEF Shape
  <2>2. Put(r, p) \/ NextItem(r, w)
    BY <1>11 DEF Stamp
  <2> HIDE DEF s
  <2>3. Shape(w) /\ w.kind = q.kind /\ w.plan = q.plan /\ w.writes.rows = q.writes.rows
    BY <2>1, LockShape
  <2> HIDE DEF w
  <2>4. p.kind = w.kind /\ p.plan = w.plan /\ p.writes = w.writes /\ p.pc = "read"
    BY <2>3 DEF Shape
  <2> HIDE DEF p
  <2> QED
    BY <1>1, <1>11, <2>2, <2>3, <2>4, WithinItem, PastItem DEF Put, Stamp
<1>12. CASE Drop(r)
  <2> DEFINE w == [q EXCEPT !.writes.gone = @ \cup {e}]
  <2>1. /\ Shape(w) /\ w.kind = q.kind /\ w.plan = q.plan
        /\ w.writes.rows = q.writes.rows
    BY <1>1 DEF Shape
  <2>2. NextItem(r, Lock(w, <<"link", e>>))
    BY <1>12 DEF Drop
  <2> HIDE DEF w
  <2> QED
    BY <1>1, <1>12, <2>1, <2>2, PastItemLocked DEF Drop
<1>13. CASE Aim(r)
  <2> DEFINE p == [q EXCEPT !.pc = "compare", !.got.status = StatusOf(percent[e])]
  <2>1. p.kind = q.kind /\ p.plan = q.plan /\ p.writes = q.writes /\ p.pc = "compare"
    BY <1>1 DEF Shape
  <2>2. Put(r, p) \/ NextItem(r, q)
    BY <1>13 DEF Aim
  <2> HIDE DEF p
  <2> QED
    BY <1>1, <1>2, <1>13, <2>1, <2>2, WithinItem DEF Put, Aim
<1> QED
  BY <1>5, <1>6, <1>7, <1>8, <1>9, <1>10, <1>11, <1>12, <1>13 DEF Ordinary

LEMMA EditOwners ==
    ASSUME IInv, NEW j, NEW text, NEW s, EditIssue(j, text, s)
    PROVE  OwnersStay
<1>1. issue' = [issue EXCEPT ![j].summary = text, ![j].status = s, ![j].updated = clock + 1]
  BY DEF EditIssue
<1>2. Created' = Created
  BY EditIssueKeeps DEF IInv
<1>3. ASSUME NEW k \in Keys PROVE issue'[k].owner = issue[k].owner
  <2>1. CASE j = k
    BY <1>1, <2>1 DEF IInv, IssueShape
  <2>2. CASE j # k
    BY <1>1, <2>2 DEF IInv, IssueShape
  <2> QED
    BY <2>1, <2>2
<1> QED
  BY <1>2, <1>3 DEF OwnersStay, Created

LEMMA NewOwners ==
    ASSUME IInv, NEW owner, NEW text, NewIssue(owner, text)
    PROVE  /\ NextKey \in Created' \ Created /\ NextKey \in Keys
           /\ issue'[NextKey].owner = owner
           /\ \A k \in Created' : k # NextKey => k \in Created /\ issue'[k].owner = issue[k].owner
<1>1. issue' = [issue EXCEPT ![NextKey] =
                    [state |-> "open", owner |-> owner, summary |-> text,
                     status |-> "To Do", updated |-> clock + 1]]
      /\ NextKey \in Keys
  BY DEF NewIssue
<1>2. NextKey \in Created' \ Created
  BY NewIssueKeeps DEF IInv
<1>3. issue'[NextKey].owner = owner
  BY <1>1 DEF IInv, IssueShape
<1>4. \A k \in Keys : k # NextKey => issue'[k] = issue[k]
  BY <1>1 DEF IInv, IssueShape
<1> QED
  BY <1>1, <1>2, <1>3, <1>4 DEF Created

LEMMA SameOwners == issue' = issue => OwnersStay
BY DEF OwnersStay, Created

LEMMA OrdinaryCalm ==
    ASSUME IInv, Calm, Peace', NEW r \in Requests, Ordinary(r)
    PROVE  Calm'
<1>1. link' = link
  BY DEF Ordinary, Update, Touch, Fetch, Read, Write, Stamp, Drop, Aim, Compare,
         Transition, Fault, Inside, Quietly, database
<1>2. OwnersStay
  <2>1. CASE Update(r) \/ Transition(r)
    <3>1. issue' = issue \/ \E j, text, s : EditIssue(j, text, s)
      BY <2>1 DEF Update, Transition, Fault, Inside, jira
    <3> QED
      BY <3>1, EditOwners, SameOwners
  <2>2. CASE ~Update(r) /\ ~Transition(r)
    BY <2>2, SameOwners DEF Ordinary, Touch, Fetch, Read, Write, Stamp, Drop, Aim, Compare,
                            Fault, Inside, jira
  <2> QED
    BY <2>1, <2>2
<1>3. PICK p : /\ req' = [req EXCEPT ![r] = p] /\ Tidy(p, link)
               /\ p.kind = req[r].kind /\ p.writes.rows = req[r].writes.rows
  BY OrdinaryMoves DEF Moves
<1>4. req[r].pc # "insert"
  BY OrdinaryMoves
<1>5. p.kind = "push" => \A s \in Requests : req[s].kind = "push" => s = r
  BY <1>3 DEF Calm, OnePush
<1> QED
  BY <1>1, <1>2, <1>3, <1>4, <1>5, CalmKept

-----------------------------------------------------------------------------
(* The steps that create an issue or a link.                                *)

LEMMA CreateCalm ==
    ASSUME IInv, Calm, LinkKeys, Peace', NEW r \in Requests, Create(r)
    PROVE  Calm'
<1> DEFINE q == req[r]
           e == q.here
<1>1. Shape(q) /\ TidyPlan(q, link) /\ TidyStep(q, link) /\ q.pc = "create"
  BY Tidied DEF Create
<1>2. link' = link
  BY DEF Create, Fault, Quietly, database
<1>3. CASE e \notin Entities
  <2>1. PICK text : NewIssue(e, text) /\ NextItem(r, q)
    BY <1>3, NoFault DEF Create
  <2>2. OwnersStay
    BY <1>3, <2>1, NewOwners DEF OwnersStay
  <2>3. Moves(r, q)
    BY <1>1, <2>1, PastItem
  <2>4. PICK p : /\ req' = [req EXCEPT ![r] = p] /\ Tidy(p, link)
                 /\ p.kind = q.kind /\ p.writes.rows = q.writes.rows
    BY <2>3 DEF Moves
  <2>5. p.kind = "push" => \A s \in Requests : req[s].kind = "push" => s = r
    BY <2>4 DEF Calm, OnePush
  <2> QED
    BY <1>1, <1>2, <2>2, <2>4, <2>5, CalmKept
<1>4. CASE e \in Entities
  <2> DEFINE p == [q EXCEPT !.pc = "insert", !.tries = 0,
                            !.got = [@ EXCEPT !.key = NextKey, !.at = clock + 1]]
  <2>1. /\ q.kind = "push" /\ e \in DOMAIN q.plan /\ q.plan[e].key = NoKey
        /\ link[e].state = "none" /\ e \notin DOMAIN q.writes.rows
    BY <1>1, <1>4 DEF TidyStep, TidyPlan, PlanItem
  <2>2. NewIssue(e, q.plan[e].name) /\ Put(r, p)
    BY <1>4, NoFault DEF Create
  <2>3. /\ p.kind = q.kind /\ p.plan = q.plan /\ p.writes = q.writes /\ p.pc = "insert"
        /\ p.here = e /\ p.got.key = NextKey
    BY <1>1 DEF Shape
  <2> HIDE DEF p
  <2>4. /\ NextKey \in Created' \ Created /\ NextKey \in Keys
        /\ issue'[NextKey].owner = e
        /\ \A k \in Created' : k # NextKey => k \in Created /\ issue'[k].owner = issue[k].owner
    BY <2>2, NewOwners
  <2>5. \A f \in Entities : link[f].key # NextKey
    BY <2>4 DEF LinkKeys, Keys, NoKey
  <2>6. Tidy(p, link)
    BY <1>1, <2>1, <2>3, <2>4, <2>5 DEF Tidy, TidyPlan, TidyStep, PlanItem
  <2>7. req'[r] = p /\ \A s \in Requests : s # r => req'[s] = req[s]
    BY <2>2 DEF Put, IInv, RequestShape
  <2>8. \A s \in Requests : req[s].kind = "push" <=> s = r
    BY <2>1 DEF Calm, OnePush
  <2>9. ~Cared(e, link, req)
    BY <1>1, <2>1, <2>8 DEF Cared
  <2>10. \A k \in Created : issue[k].owner # e
    BY <1>4, <2>9 DEF Calm
  <2>11. OnePush' /\ \A s \in Requests : Tidy(req'[s], link')
    BY <1>2, <2>3, <2>6, <2>7, <2>8 DEF Calm, OnePush
  <2>12. OneIssue'
    BY <2>4, <2>10 DEF Calm, OneIssue
  <2>13. Cared(e, link', req')
    BY <2>1, <2>3, <2>7 DEF Cared
  <2>14. \A f : Cared(f, link, req) => Cared(f, link', req')
    BY <1>1, <1>2, <2>3, <2>7, <2>8 DEF Cared
  <2>15. \A k \in Created' : issue'[k].owner \in Entities => Cared(issue'[k].owner, link', req')
    <3> SUFFICES ASSUME NEW k \in Created', issue'[k].owner \in Entities
                 PROVE  Cared(issue'[k].owner, link', req')
      OBVIOUS
    <3>1. CASE k = NextKey
      BY <2>4, <2>13, <3>1
    <3>2. CASE k # NextKey
      <4>1. k \in Created /\ issue'[k].owner = issue[k].owner
        BY <2>4, <3>2
      <4>2. Cared(issue[k].owner, link, req)
        BY <4>1 DEF Calm
      <4> QED
        BY <2>14, <4>1, <4>2
    <3> QED
      BY <3>1, <3>2
  <2>16. \A f \in Entities : link'[f].state # "gone"
    BY <1>2 DEF Calm
  <2> QED
    BY <2>11, <2>12, <2>15, <2>16 DEF Calm
<1> QED
  BY <1>3, <1>4

LEMMA InsertCalm ==
    ASSUME IInv, Calm, NEW r \in Requests, Insert(r)
    PROVE  Calm'
<1> DEFINE q == req[r]
           e == q.here
           mine == <<"link", e>>
           row == [state |-> "live", key |-> q.got.key, direction |-> "bidirectional",
                   stamp |-> q.got.at, rank |-> q.began]
           w == [q EXCEPT !.writes.rows = With(@, e, row)]
<1>1. Shape(q) /\ TidyPlan(q, link) /\ TidyStep(q, link) /\ q.pc = "insert"
  BY Tidied DEF Insert
<1>2. /\ q.kind = "push" /\ e \in DOMAIN q.plan /\ q.plan[e].key = NoKey
      /\ e \in Entities /\ link[e].state = "none"
      /\ \A f \in Entities : link[f].key # q.got.key
  BY <1>1 DEF TidyStep, TidyPlan, PlanItem
<1>3. LinkAllowed(e, q.got.key)
  BY <1>2 DEF LinkAllowed
<1>4. NextItem(r, Lock(w, mine)) /\ link' = link /\ issue' = issue
  BY <1>3 DEF Insert, Inside, database, jira
<1>5. /\ Shape(w) /\ w.kind = q.kind /\ w.plan = q.plan /\ w.here = e
      /\ w.writes.rows = With(q.writes.rows, e, row)
  BY <1>1 DEF Shape
<1> HIDE DEF row, w
<1>6. DOMAIN w.writes.rows = DOMAIN q.writes.rows \cup {e}
  BY <1>5 DEF With
<1> DEFINE l == Lock(w, mine)
<1>7. Shape(l) /\ l.kind = q.kind /\ l.plan = q.plan /\ l.writes = w.writes /\ l.here = e
  BY <1>5, LockShape
<1>8. NextItem(r, l)
  BY <1>4
<1> HIDE DEF l
<1>9. TidyRest(l, link)
  BY <1>1, <1>2, <1>6, <1>7 DEF TidyPlan, TidyRest, PlanItem
<1>10. PICK p : /\ req' = [req EXCEPT ![r] = p] /\ Tidy(p, link)
                /\ p.kind = l.kind /\ p.writes.rows = l.writes.rows
  BY <1>7, <1>8, <1>9, NextItemTidy DEF Moves
<1>11. OwnersStay
  BY <1>4, SameOwners
<1>12. p.kind = "push" => \A s \in Requests : req[s].kind = "push" => s = r
  BY <1>2 DEF Calm, OnePush
<1>13. /\ p.kind = "push" /\ DOMAIN q.writes.rows \subseteq DOMAIN p.writes.rows
       /\ e \in DOMAIN p.writes.rows
  BY <1>2, <1>6, <1>7, <1>10
<1> QED
  BY <1>4, <1>10, <1>11, <1>12, <1>13, CalmKept

-----------------------------------------------------------------------------
(* Requests begin and end.                                                  *)

LEMMA StartCalm ==
    ASSUME IInv, Calm, Peace', NEW r \in Requests, NEW kind \in {"push", "pull", "sync"},
           NEW plan, Start(r, kind, plan),
           kind = "push" => \A e \in DOMAIN plan :
              e \in Entities /\ (plan[e].key = NoKey => link[e].state = "none")
    PROVE  Calm'
<1> DEFINE q == [Idle EXCEPT !.kind = kind, !.plan = plan,
                              !.began = IF kind = "push" THEN clock ELSE 0]
<1>1. Shape(q) /\ q.kind = kind /\ q.plan = plan /\ q.writes = Idle.writes
  BY IdleShape DEF Shape, Idle
<1>2. Proceed(r, q) /\ link' = link /\ issue' = issue /\ req[r].pc = "idle"
  BY DEF Start, database, jira
<1> HIDE DEF q
<1>3. DOMAIN q.writes.rows = {}
  BY <1>1 DEF Idle, NoWrites
<1>4. TidyPlan(q, link)
  BY <1>1, <1>3 DEF TidyPlan, PlanItem
<1>5. PICK p : /\ req' = [req EXCEPT ![r] = p] /\ Tidy(p, link)
               /\ p.kind = q.kind /\ p.writes.rows = q.writes.rows
  BY <1>1, <1>2, <1>4, ProceedTidy DEF Moves
<1>6. OwnersStay
  BY <1>2, SameOwners
<1>7. \A s \in Requests : req[s].kind = "push" => req[s].pc # "idle"
  BY Tidied DEF TidyStep
<1>8. kind = "push" => Pushing = {}
  BY DEF Start, Beside, Peace
<1>9. p.kind = "push" => \A s \in Requests : req[s].kind = "push" => s = r
  BY <1>1, <1>5, <1>7, <1>8 DEF Pushing, Active
<1> QED
  BY <1>2, <1>5, <1>6, <1>7, <1>9, CalmKept

\* A request that is no push goes on as no push.
LEMMA NoPushCalm ==
    ASSUME IInv, Calm, link' = link, OwnersStay,
           NEW r \in Requests, NEW p, req' = [req EXCEPT ![r] = p],
           req[r].kind # "push", p.kind # "push", DOMAIN p.writes.rows = {},
           p.pc # "insert", p.pc = "create" => p.here \notin Entities
    PROVE  Calm'
<1>1. Tidy(p, link)
  BY DEF Tidy, TidyPlan, TidyStep
<1> QED
  BY <1>1, CalmKept

LEMMA BeginCalm ==
    ASSUME IInv, Calm, HookEvents, Peace', NEW r \in Requests, Begin(r)
    PROVE  Calm'
<1>1. CASE StartPush(r)
  <2>1. PICK all \in {Activities, Elements} : \E chosen \in SUBSET Page(all) :
            LET pushed == {e \in chosen : Live(e) => link[e].direction \in ToJira}
            IN  Start(r, "push", [e \in pushed |-> Item(e, Code[e])])
    BY <1>1 DEF StartPush
  <2>2. PICK chosen \in SUBSET Page(all) :
            Start(r, "push", [e \in {e \in chosen : Live(e) => link[e].direction \in ToJira} |->
                                 Item(e, Code[e])])
    BY <2>1
  <2> DEFINE plan == [e \in {e \in chosen : Live(e) => link[e].direction \in ToJira} |->
                         Item(e, Code[e])]
  <2>3. ASSUME NEW e \in DOMAIN plan
        PROVE  e \in Entities /\ (plan[e].key = NoKey => link[e].state = "none")
    <3>1. e \in Entities
      BY DEF Page, Entities
    <3>2. plan[e].key = IF Live(e) THEN link[e].key ELSE NoKey
      BY DEF Item
    <3>3. link[e].state # "none" => link[e].state = "live" /\ link[e].key \in Keys
      BY <3>1 DEF IInv, LinkShape, Calm
    <3> QED
      BY <3>1, <3>2, <3>3, MaxIssuesAssumption DEF Live, Keys, NoKey
  <2> HIDE DEF plan
  <2>4. Start(r, "push", plan)
    BY <2>2 DEF plan
  <2> QED
    BY <2>3, <2>4, StartCalm
<1>2. CASE StartPull(r)
  BY <1>2, StartCalm DEF StartPull
<1>3. CASE StartProgress(r)
  BY <1>3, StartCalm DEF StartProgress
<1>4. req[r].pc = "idle" => req[r].kind # "push"
  BY Tidied DEF TidyStep
<1>5. CASE StartAlert(r)
  <2> DEFINE p == [Idle EXCEPT !.kind = "alert", !.pc = "create", !.here = "variance"]
  <2>1. /\ req' = [req EXCEPT ![r] = p] /\ p.kind = "alert" /\ p.pc = "create"
        /\ p.here = "variance" /\ DOMAIN p.writes.rows = {}
    BY <1>5 DEF StartAlert, Put, Idle, NoWrites
  <2>2. link' = link /\ issue' = issue /\ req[r].pc = "idle"
    BY <1>5 DEF StartAlert, database, jira
  <2> HIDE DEF p
  <2>3. "variance" \notin Entities
    BY EntitiesAssumption
  <2> QED
    BY <1>4, <2>1, <2>2, <2>3, SameOwners, NoPushCalm
<1>6. ASSUME NEW h \in hooks, ReceiveHook(r, h)
      PROVE  Calm'
  <2>1. PICK e \in Target(h) :
          Put(r, [Idle EXCEPT !.kind = h.event, !.here = e,
                    !.pc = IF h.event = "deleted" THEN "drop" ELSE "stamp",
                    !.got = [@ EXCEPT !.summary = h.summary, !.status = h.status,
                                      !.at = clock + 1]])
    BY <1>6 DEF ReceiveHook
  <2> DEFINE p == [Idle EXCEPT !.kind = h.event, !.here = e,
                    !.pc = IF h.event = "deleted" THEN "drop" ELSE "stamp",
                    !.got = [@ EXCEPT !.summary = h.summary, !.status = h.status,
                                      !.at = clock + 1]]
  <2>2. /\ req' = [req EXCEPT ![r] = p] /\ p.kind = h.event /\ p.pc \in {"drop", "stamp"}
        /\ DOMAIN p.writes.rows = {}
    BY <2>1 DEF Put, Idle, NoWrites
  <2>3. link' = link /\ issue' = issue /\ req[r].pc = "idle"
    BY <1>6 DEF ReceiveHook, database
  <2> HIDE DEF p
  <2>4. p.kind # "push"
    BY <2>2 DEF HookEvents
  <2> QED
    BY <1>4, <2>2, <2>3, <2>4, SameOwners, NoPushCalm
<1> QED
  BY <1>1, <1>2, <1>3, <1>5, <1>6 DEF Begin

LEMMA CommitCalm ==
    ASSUME IInv, Calm, Peace', NEW r \in Requests, Commit(r)
    PROVE  Calm'
<1> DEFINE w == req[r].writes
<1>1. w.gone = {}
  BY DEF Commit, Peace
<1>2. \A e \in Entities : Committed(e, w)
  BY CommitLinks
<1>3. /\ \A e \in DOMAIN w.rows : e \in Entities /\ link'[e].state = "live"
      /\ \A e \in Entities : e \notin DOMAIN w.rows => link'[e].state = link[e].state
  <2>1. \A e \in DOMAIN w.rows : e \in Entities /\ w.rows[e].state = "live"
    BY DEF IInv, RowsPending, NewRow
  <2> HIDE DEF w
  <2> QED
    BY <1>1, <1>2, <2>1 DEF Committed
<1>4. req' = [req EXCEPT ![r] = Idle] /\ issue' = issue /\ req[r].pc = "commit"
  BY DEF Commit, Put, jira
<1>5. req'[r] = Idle /\ \A s \in Requests : s # r => req'[s] = req[s]
  BY <1>4 DEF IInv, RequestShape
<1>6. Idle.kind = "none"
  BY IdleTidy
<1>7. OnePush'
  BY <1>5, <1>6 DEF Calm, OnePush
<1>8. \A e \in Entities : link'[e].state # "gone"
  BY <1>3 DEF Calm
<1>9. ASSUME NEW s \in Requests
      PROVE  Tidy(req'[s], link')
  <2>1. CASE s = r
    BY <1>5, <2>1, IdleTidy
  <2>2. CASE s # r /\ req[s].kind # "push"
    BY <1>5, <2>2 DEF Calm, Tidy, TidyPlan, TidyStep
  <2>3. CASE s # r /\ req[s].kind = "push"
    <3>1. req[r].kind # "push"
      BY <2>3 DEF Calm, OnePush
    <3>2. DOMAIN w.rows = {}
      BY <3>1, Tidied DEF TidyPlan
    <3>3. \A e \in Entities : link'[e].state = link[e].state /\ link'[e].key = link[e].key
      BY <1>2, <1>3, <3>2 DEF Committed
    <3>4. Tidy(req[s], link)
      BY DEF Calm
    <3> QED
      BY <1>5, <2>3, <3>3, <3>4 DEF Tidy, TidyPlan, TidyStep, PlanItem
  <2> QED
    BY <2>1, <2>2, <2>3
<1>10. ASSUME NEW e \in Entities, Cared(e, link, req)
       PROVE  Cared(e, link', req')
  <2>1. CASE link[e].state = "live"
    BY <1>3, <2>1 DEF Cared
  <2>2. ASSUME NEW s \in Requests, req[s].kind = "push",
               e \in DOMAIN req[s].writes.rows \/ (req[s].pc = "insert" /\ req[s].here = e)
        PROVE  Cared(e, link', req')
    <3>1. CASE s = r
      BY <1>3, <1>4, <2>2, <3>1 DEF Cared
    <3>2. CASE s # r
      BY <1>5, <2>2, <3>2 DEF Cared
    <3> QED
      BY <3>1, <3>2
  <2> QED
    BY <1>10, <2>1, <2>2 DEF Cared
<1>11. Created' = Created
  BY <1>4 DEF Created
<1>12. \A k \in Created' : issue'[k].owner \in Entities => Cared(issue'[k].owner, link', req')
  BY <1>4, <1>10, <1>11 DEF Calm
<1>13. OneIssue'
  BY <1>4, <1>11 DEF Calm, OneIssue
<1> QED
  BY <1>7, <1>8, <1>9, <1>12, <1>13 DEF Calm

-----------------------------------------------------------------------------
(* Whoever else acts.                                                       *)

\* Nothing but the issues changes, and no issue for an entity is new.
LEMMA AsideCalm ==
    ASSUME Calm, link' = link, req' = req, OwnersStay
    PROVE  Calm'
<1>1. OneIssue'
  BY DEF Calm, OneIssue, OwnersStay
<1>2. \A k \in Created' : issue'[k].owner \in Entities => Cared(issue'[k].owner, link', req')
  BY DEF Calm, OwnersStay, Cared
<1>3. OnePush' /\ (\A e \in Entities : link'[e].state # "gone")
      /\ (\A r \in Requests : Tidy(req'[r], link'))
  BY DEF Calm, OnePush
<1> QED
  BY <1>1, <1>2, <1>3 DEF Calm

LEMMA OthersCalm ==
    ASSUME IInv, Calm, Others
    PROVE  Calm'
<1>1. UNCHANGED <<req, link>>
  BY DEF Others, UserCreatesIssue, UserRetitlesIssue, UserMovesIssue, UserErasesIssue,
         Connect, SwitchSync, DeleteIntegration, Rename, Remove, Progress, IgnoreHook,
         database, jira
<1>2. OwnersStay
  <2>1. CASE UserCreatesIssue
    <3>1. "nobody" \notin Entities
      BY EntitiesAssumption
    <3>2. NewIssue("nobody", clock + 1)
      BY <2>1 DEF UserCreatesIssue
    <3> QED
      BY <3>1, <3>2, NewOwners DEF OwnersStay
  <2>2. CASE \E k \in Keys : UserRetitlesIssue(k) \/ UserMovesIssue(k)
    BY <2>2, EditOwners DEF UserRetitlesIssue, UserMovesIssue
  <2>3. ASSUME NEW j \in Keys, UserErasesIssue(j) PROVE OwnersStay
    <3>1. issue' = [issue EXCEPT ![j].state = "deleted"]
      BY <2>3 DEF UserErasesIssue
    <3>2. \A k \in Keys : issue'[k].owner = issue[k].owner
      BY <3>1 DEF IInv, IssueShape
    <3>3. Created' = Created
      BY <2>3, UserErasesKeeps DEF IInv
    <3> QED
      BY <3>2, <3>3 DEF OwnersStay, Created
  <2>4. CASE issue' = issue
    BY <2>4, SameOwners
  <2>5. \/ UserCreatesIssue
        \/ \E k \in Keys : UserRetitlesIssue(k) \/ UserMovesIssue(k)
        \/ \E k \in Keys : UserErasesIssue(k)
        \/ issue' = issue
    BY DEF Others, Connect, SwitchSync, DeleteIntegration, Rename, Remove, Progress,
           IgnoreHook, jira
  <2> QED
    BY <2>1, <2>2, <2>3, <2>4, <2>5
<1> QED
  BY <1>1, <1>2, AsideCalm

\* In peace no push runs beside a link that is made by hand.
LEMMA CreateMappingCalm ==
    ASSUME IInv, Calm, Peace', NEW e \in Entities, NEW k \in Keys, NEW d \in Directions,
           CreateMapping(e, k, d)
    PROVE  Calm'
<1>1. req' = req /\ issue' = issue
  BY DEF CreateMapping, jira
<1>2. \A r \in Requests : req[r].kind = "push" => req[r].pc # "idle"
  BY Tidied DEF TidyStep
<1>3. \A r \in Requests : req[r].kind # "push"
  BY <1>2 DEF CreateMapping, Beside, Peace, Pushing, Active
<1>4. \A f \in Entities : link'[f] = link[f] \/ link'[f].state = "live"
  BY DEF CreateMapping, IInv, LinkShape
<1>5. \A f \in Entities : Cared(f, link, req) => Cared(f, link', req')
  BY <1>3, <1>4 DEF Cared
<1>6. \A r \in Requests : Tidy(req'[r], link')
  BY <1>1, <1>3 DEF Calm, Tidy, TidyPlan, TidyStep
<1>7. Created' = Created
  BY <1>1 DEF Created
<1>8. \A j \in Created' : issue'[j].owner \in Entities => Cared(issue'[j].owner, link', req')
  BY <1>1, <1>5, <1>7 DEF Calm
<1>9. OneIssue' /\ OnePush'
  BY <1>1, <1>7 DEF Calm, OneIssue, OnePush
<1>10. \A f \in Entities : link'[f].state # "gone"
  BY <1>4 DEF Calm
<1> QED
  BY <1>6, <1>8, <1>9, <1>10 DEF Calm

LEMMA NextCalm ==
    ASSUME PInv, Peace', [Next]_vars
    PROVE  Calm'
<1>1. CASE UNCHANGED vars
  <2>1. UNCHANGED <<trouble, link, req, issue>>
    BY <1>1 DEF vars, database, jira
  <2>2. Peace
    BY <2>1 DEF Peace
  <2> QED
    BY <2>1, <2>2, SameOwners, AsideCalm DEF PInv
<1>2. CASE Next
  <2>1. IInv /\ Calm /\ LinkKeys /\ HookEvents
    BY <1>2, TroubleGrows DEF PInv, Peace
  <2>2. ASSUME NEW r \in Requests, Begin(r) PROVE Calm'
    BY <2>1, <2>2, BeginCalm
  <2>3. ASSUME NEW r \in Requests, Plain(r) PROVE Calm'
    <3>1. ~Victim(r)
      BY DEF Victim, Peace
    <3>2. CASE Create(r)
      BY <2>1, <3>2, CreateCalm
    <3>3. CASE Ordinary(r)
      BY <2>1, <3>3, OrdinaryCalm
    <3> QED
      BY <2>3, <3>1, <3>2, <3>3 DEF Plain, Ordinary
  <2>4. ASSUME NEW r \in Requests, Insert(r) \/ Commit(r) PROVE Calm'
    BY <2>1, <2>4, InsertCalm, CommitCalm
  <2>5. CASE Others
    BY <2>1, <2>5, OthersCalm
  <2>6. ASSUME NEW e \in Entities PROVE ~DeleteMapping(e)
    BY DEF DeleteMapping, Peace
  <2>7. ASSUME NEW e \in Entities, NEW k \in Keys, NEW d \in Directions,
               CreateMapping(e, k, d)
        PROVE  Calm'
    BY <2>1, <2>7, CreateMappingCalm
  <2> QED
    BY <1>2, <2>2, <2>3, <2>4, <2>5, <2>6, <2>7, StepCases
<1> QED
  BY <1>1, <1>2

LEMMA InitPInv == Init => PInv
<1> SUFFICES ASSUME Init PROVE PInv
  OBVIOUS
<1>1. /\ \A e \in Entities : link[e].state = "none" /\ link[e].key = NoKey
      /\ \A r \in Requests : req[r] = Idle
      /\ hooks = {} /\ Created = {}
  BY DEF Init, NoLink, NoIssue, Created
<1>2. LinkKeys /\ HookEvents
  BY <1>1 DEF LinkKeys, HookEvents
<1>3. Calm
  BY <1>1, IdleTidy DEF Calm, OnePush, OneIssue
<1> QED
  BY <1>2, <1>3, InitInv DEF PInv

LEMMA NextPInv == PInv /\ [Next]_vars => PInv'
BY NextInv, LinkKeysKept, HooksKept, NextCalm DEF PInv

(* An entity gets a second issue only after a call failed, a link was taken *)
(* away, a push ran beside another or beside a new link, or the database    *)
(* rolled a request back: never from the alternation of pushes, pulls,      *)
(* webhooks and users alone.                                                *)
THEOREM DuplicatesNeedTrouble == Spec => []DuplicateNeedsTrouble
<1>1. PInv => DuplicateNeedsTrouble
  BY DEF PInv, Peace, Calm, OneIssue, DuplicateNeedsTrouble
<1> QED
  BY <1>1, InitPInv, NextPInv, PTL DEF Spec

-----------------------------------------------------------------------------
(***************************************************************************)
(* Plans and erased issues. A pull or a progress run knows the issue that  *)
(* its item is linked to, for as long as it takes, and a request that      *)
(* drops a link was told of an issue that is gone for good.                *)
(***************************************************************************)
Linked(e, l) == e \in Entities /\ l[e].state # "none"

PlanKeys(q, l) ==
    q.kind \in {"pull", "sync"} =>
        \A e \in DOMAIN q.plan :
            Linked(e, l) /\ q.plan[e].key = l[e].key

Erased(e, l, i) == Linked(e, l) /\ i[l[e].key].state = "deleted"

\* What a webhook has told the request.
Told(q, l, i) ==
    /\ q.pc = "stamp" /\ q.kind # "pull" => Linked(q.here, l)
    /\ q.pc = "drop" => Erased(q.here, l, i)
    /\ \A e \in q.writes.gone : Erased(e, l, i)

HooksTell ==
    \A h \in hooks : h.event = "deleted" => h.key \in Keys /\ issue[h.key].state = "deleted"

SInv ==
    /\ DInv /\ HooksTell
    /\ \A r \in Requests : PlanKeys(req[r], link) /\ Told(req[r], link, issue)

LEMMA TurnKeepsPlan ==
    ASSUME NEW p, NEW q, Turn(p, q)
    PROVE  \/ p = Idle
           \/ /\ p.kind = q.kind /\ p.began = q.began
              /\ \A e \in DOMAIN p.plan : e \in DOMAIN q.plan /\ p.plan[e] = q.plan[e]
<1> DEFINE Kept == /\ p.kind = q.kind /\ p.began = q.began
                   /\ \A e \in DOMAIN p.plan : e \in DOMAIN q.plan /\ p.plan[e] = q.plan[e]
<1>1. ASSUME NEW pc, NEW tries, NEW got, NEW writes, NEW locks,
             Onto(p, q, pc, tries, got, writes, locks)
      PROVE  Kept
  BY <1>1 DEF Onto
<1>2. ASSUME NEW writes, NEW locks, Past(p, q, writes, locks)
      PROVE  Kept
  BY <1>2 DEF Past, AtFirst
<1> HIDE DEF Kept
<1>3. Kept \/ p = Idle
  BY <1>1, <1>2 DEF Turn, Retried, CreatedOne, Passed, Inserted, Called, Touched, Fetched,
                    WasRead, Written, Stamped, Dropped, Aimed
<1> QED
  BY <1>3 DEF Kept

\* The links that a turn is to take away.
LEMMA TurnGone ==
    ASSUME NEW p, NEW q, Shape(q), Turn(p, q)
    PROVE  /\ p.pc # "drop" /\ (p.pc = "stamp" => p.kind = "pull")
           /\ p.writes.gone = q.writes.gone \cup (IF q.pc = "drop" THEN {q.here} ELSE {})
              \/ p.writes.gone = {}
<1>1. ASSUME NEW writes, NEW locks, Past(p, q, writes, locks)
      PROVE  p.pc \notin {"drop", "stamp"} /\ p.writes = writes
  BY <1>1 DEF Past, AtFirst, FirstStep
<1>2. CASE Dropped(p, q)
  <2>1. [q.writes EXCEPT !.gone = @ \cup {q.here}].gone = q.writes.gone \cup {q.here}
    BY DEF Shape
  <2> QED
    BY <1>1, <1>2, <2>1 DEF Dropped
<1>3. CASE Passed(p, q) \/ Touched(p, q)
  BY <1>1, <1>3 DEF Passed, Touched
<1>4. CASE Inserted(p, q)
  BY <1>1, <1>4 DEF Inserted, Shape
<1>5. CASE Retried(p, q) \/ Called(p, q) \/ Fetched(p, q) \/ Aimed(p, q)
  BY <1>5 DEF Retried, Called, Fetched, Aimed, Onto
<1>6. CASE CreatedOne(p, q)
  BY <1>6 DEF CreatedOne, Onto
<1>7. CASE WasRead(p, q)
  <2>1. \A n, m : [q.writes EXCEPT !.names = n, !.percents = m].gone = q.writes.gone
    BY DEF Shape
  <2> QED
    BY <1>7, <2>1 DEF WasRead, Onto
<1>8. CASE Written(p, q)
  BY <1>1, <1>8 DEF Written, Onto
<1>9. CASE Stamped(p, q)
  <2>1. \A n : [q.writes EXCEPT !.stamps = n].gone = q.writes.gone
    BY DEF Shape
  <2> QED
    BY <1>1, <1>9, <2>1 DEF Stamped, Onto
<1>10. CASE p = Idle
  BY <1>10 DEF Idle, NoWrites
<1> QED
  BY <1>2, <1>3, <1>4, <1>5, <1>6, <1>7, <1>8, <1>9, <1>10 DEF Turn

LEMMA DeletedStays ==
    ASSUME IInv, [Next]_vars, NEW k \in Keys, issue[k].state = "deleted"
    PROVE  issue'[k].state = "deleted"
<1>1. IssueShape
  BY DEF IInv
<1>2. ASSUME NEW owner, NEW text, NewIssue(owner, text) PROVE issue'[k].state = "deleted"
  BY <1>2, NewForm
<1>3. ASSUME NEW j, NEW text, NEW s, EditIssue(j, text, s) PROVE issue'[k].state = "deleted"
  BY <1>1, <1>3, EditForm
<1>4. ASSUME NEW j \in Keys, UserRetitlesIssue(j) \/ UserMovesIssue(j)
      PROVE  issue'[k].state = "deleted"
  BY <1>3, <1>4 DEF UserRetitlesIssue, UserMovesIssue
<1>5. ASSUME NEW j \in Keys, UserErasesIssue(j) PROVE issue'[k].state = "deleted"
  BY <1>5, EraseForm
<1> QED
  BY <1>2, <1>3, <1>4, <1>5, TrackerForm DEF TrackerStep, TrackerLeft

LEMMA HooksTellKept == IInv /\ HooksTell /\ [Next]_vars => HooksTell'
<1> SUFFICES ASSUME IInv, HooksTell, [Next]_vars, NEW h \in hooks', h.event = "deleted"
             PROVE  h.key \in Keys /\ issue'[h.key].state = "deleted"
  BY DEF HooksTell
<1>1. CASE h \in hooks
  BY <1>1, DeletedStays DEF HooksTell
<1>2. ASSUME NEW owner, NEW text, NewIssue(owner, text) PROVE h \in hooks
  <2> DEFINE n == [event |-> "created", key |-> NextKey, summary |-> text,
                   status |-> NoStatus, at |-> clock + 1]
  <2>1. n.event = "created" /\ hooks' = hooks \cup {n}
    BY <1>2 DEF NewIssue
  <2> HIDE DEF n
  <2> QED
    BY <2>1
<1>3. ASSUME NEW j, NEW text, NEW s, EditIssue(j, text, s) PROVE h \in hooks
  BY <1>3 DEF EditIssue
<1>4. ASSUME NEW j \in Keys, UserRetitlesIssue(j) \/ UserMovesIssue(j) PROVE h \in hooks
  BY <1>3, <1>4 DEF UserRetitlesIssue, UserMovesIssue
<1>5. ASSUME NEW j \in Keys, UserErasesIssue(j), h \notin hooks
      PROVE  h.key \in Keys /\ issue'[h.key].state = "deleted"
  <2>1. h.key = j
    BY <1>5 DEF UserErasesIssue
  <2> QED
    BY <1>5, <2>1, EraseForm
<1> QED
  BY <1>1, <1>2, <1>3, <1>4, <1>5, TrackerForm DEF TrackerStep, TrackerLeft

LEMMA BegunKeys ==
    ASSUME SInv, NEW p, Begun(p)
    PROVE  PlanKeys(p, link) /\ Told(p, link, issue)
<1>1. ASSUME NEW plan, Planned(p, plan)
      PROVE  p.plan = plan /\ p.pc \notin {"drop", "stamp"} /\ p.writes.gone = {}
  BY <1>1 DEF Planned, AtFirst, FirstStep, NoWrites
<1>2. CASE BegunPush(p)
  BY <1>1, <1>2 DEF BegunPush, PlanKeys, Told
<1>3. CASE BegunPull(p)
  <2>1. PICK es \in SUBSET Mapped : Planned(p, [e \in es |-> Item(e, link[e].rank)])
    BY <1>3 DEF BegunPull
  <2>2. \A e \in es : Linked(e, link) /\ Item(e, link[e].rank).key = link[e].key
    BY DEF Mapped, Entities, Live, Item, Linked
  <2> QED
    BY <1>1, <2>1, <2>2 DEF PlanKeys, Told
<1>4. CASE BegunAlert(p)
  <2>1. p.pc = "create" /\ p.kind = "alert" /\ p.writes.gone = {}
    BY <1>4 DEF BegunAlert, Idle, NoWrites
  <2> QED
    BY <2>1 DEF PlanKeys, Told
<1>5. CASE BegunHook(p)
  <2>1. PICK h \in hooks, e \in Entities :
            /\ link[e].state = "live" /\ link[e].key = h.key
            /\ p = HookRequest(h, e)
    BY <1>5 DEF BegunHook, Target, Live
  <2>2. /\ p.plan = <<>> /\ p.writes = NoWrites /\ p.here = e
        /\ p.pc = "drop" => h.event = "deleted"
    BY <2>1, HookFields
  <2>3. Linked(e, link) /\ (h.event = "deleted" => Erased(e, link, issue))
    BY <2>1 DEF SInv, HooksTell, Erased, Linked
  <2>4. DOMAIN p.plan = {} /\ p.writes.gone = {}
    BY <2>2 DEF NoWrites
  <2> QED
    BY <2>2, <2>3, <2>4 DEF PlanKeys, Told
<1> QED
  BY <1>2, <1>3, <1>4, <1>5 DEF Begun

LEMMA TurnKeys ==
    ASSUME SInv, NEW r \in Requests, NEW p, Turn(p, req[r])
    PROVE  PlanKeys(p, link) /\ Told(p, link, issue)
<1> DEFINE q == req[r]
<1>1. Shape(q) /\ PlanKeys(q, link) /\ Told(q, link, issue)
  BY Here DEF SInv
<1>2. CASE p = Idle
  <2>1. p.kind = "none" /\ p.pc = "idle" /\ p.writes.gone = {}
    BY <1>2 DEF Idle, NoWrites
  <2> QED
    BY <2>1 DEF PlanKeys, Told
<1>3. CASE p # Idle
  <2>1. PlanKeys(p, link)
    BY <1>1, <1>3, TurnKeepsPlan DEF PlanKeys
  <2>2. Told(p, link, issue)
    BY <1>1, TurnGone DEF Told
  <2> QED
    BY <2>1, <2>2
<1> QED
  BY <1>2, <1>3

LEMMA InitSInv == Init => SInv
<1> SUFFICES ASSUME Init PROVE SInv
  OBVIOUS
<1>1. DInv
  BY InitDInv
<1>2. HooksTell
  BY DEF Init, HooksTell
<1>3. Idle.kind = "none" /\ Idle.pc = "idle" /\ Idle.writes.gone = {}
  BY DEF Idle, NoWrites
<1>4. \A r \in Requests : req[r] = Idle
  BY DEF Init
<1> QED
  BY <1>1, <1>2, <1>3, <1>4 DEF SInv, PlanKeys, Told

LEMMA NextSInv == SInv /\ [Next]_vars => SInv'
<1> SUFFICES ASSUME SInv, [Next]_vars PROVE SInv'
  OBVIOUS
<1>1. DInv /\ DInv' /\ IInv /\ IInv'
  BY NextDInv DEF SInv, DInv
<1>2. Lasts(link, link')
  BY <1>1, LinksLast DEF DInv
<1>3. HooksTell'
  BY <1>1, HooksTellKept DEF SInv
<1>4. \A r \in Requests : PlanKeys(req'[r], link) /\ Told(req'[r], link, issue)
  <2>1. CASE req' = req
    BY <2>1 DEF SInv
  <2>2. ASSUME NEW r \in Requests, NEW p, req' = [req EXCEPT ![r] = p],
               Begun(p) \/ Turn(p, req[r])
        PROVE  \A s \in Requests : PlanKeys(req'[s], link) /\ Told(req'[s], link, issue)
    <3>1. PlanKeys(p, link) /\ Told(p, link, issue)
      BY <2>2, BegunKeys, TurnKeys
    <3>2. \A s \in Requests : req'[s] = p \/ req'[s] = req[s]
      BY <2>2, <1>1 DEF IInv, RequestShape
    <3> QED
      BY <3>1, <3>2 DEF SInv
  <2> QED
    BY <1>1, <2>1, <2>2, RequestsForm
<1>5. \A e : Linked(e, link) => Linked(e, link') /\ link'[e].key = link[e].key
  BY <1>2 DEF Linked, Lasts
<1>6. \A r \in Requests : Told(req'[r], link', issue')
  <2>1. \A e : Erased(e, link, issue) => Erased(e, link', issue')
    <3>1. \A e : Linked(e, link) => link[e].key \in Keys
      BY <1>1 DEF IInv, LinkShape, Linked
    <3> QED
      BY <1>1, <1>5, <3>1, DeletedStays DEF Erased
  <2>2. \A e : Linked(e, link) => Linked(e, link')
    BY <1>5
  <2> QED
    BY <1>4, <2>1, <2>2 DEF Told
<1>7. \A r \in Requests : PlanKeys(req'[r], link')
  BY <1>2, <1>4, <1>5 DEF PlanKeys, Linked, Lasts
<1> QED
  BY <1>1, <1>3, <1>6, <1>7 DEF SInv

LEMMA KeysAlways == Spec => []SInv
BY InitSInv, NextSInv, PTL DEF Spec

-----------------------------------------------------------------------------
(***************************************************************************)
(* The types of the state, by the time: now is the clock, and no text or   *)
(* time that a row or a request knows is from the future. A request is at  *)
(* a step that its kind has, about an item of its plan or an entity.       *)
(***************************************************************************)
Course(q) ==
    \/ q = Idle
    \/ q.pc = "commit" /\ q.here = "nobody"
    \/ q.pc = "create" /\ q.here = "variance" /\ q.kind = "alert"
    \/ /\ q.here \in DOMAIN q.plan
       /\ \/ q.kind = "push" /\ q.pc \in {"create", "insert", "update", "touch"}
          \/ q.kind = "pull" /\ q.pc \in {"fetch", "read", "write", "stamp"}
          \/ q.kind = "sync" /\ q.pc \in {"aim", "compare", "transition", "touch"}
    \/ /\ q.here \in Entities
       /\ \/ q.kind = "created" /\ q.pc = "stamp"
          \/ q.kind = "updated" /\ q.pc \in {"stamp", "read", "write"}
          \/ q.kind = "deleted" /\ q.pc = "drop"

RowFits(row, now) == row \in Row /\ row.stamp =< now

PlanFits(plan, now) ==
    /\ IsPartial(plan, Entities)
    /\ \A e \in DOMAIN plan :
          plan[e] \in ItemType /\ plan[e].name =< now /\ plan[e].stamp =< now

GotFits(got, now) ==
    /\ got.key \in Keys \cup {NoKey} /\ got.status \in Statuses \cup {NoStatus}
    /\ got.summary \in 0 .. now /\ got.at \in 0 .. now

WritesFit(w, now) ==
    /\ IsPartial(w.rows, Entities)
    /\ \A e \in DOMAIN w.rows : RowFits(w.rows[e], now)
    /\ \A e \in DOMAIN w.stamps : w.stamps[e] \in 0 .. now
    /\ \A e \in DOMAIN w.names : w.names[e] \in 0 .. now
    /\ \A e \in DOMAIN w.percents : w.percents[e] \in Percents

Fits(q, now) ==
    /\ PlanFits(q.plan, now) /\ GotFits(q.got, now) /\ WritesFit(q.writes, now)
    /\ q.pc \in {"compare", "transition"} => q.got.status \in Statuses
    /\ q.began \in 0 .. now
    /\ q.tries \in 0 .. (MaxRetries - 1)
    /\ q.locks \subseteq {"link", "entity"} \X Entities

\* Only links that are there get a stamp.
Marked(q, l) == \A e \in DOMAIN q.writes.stamps : Linked(e, l)

IssueFits(i, now) ==
    /\ i.state \in {"none", "open", "deleted"} /\ i.status \in Statuses
    /\ i.summary \in 0 .. now /\ i.updated \in 0 .. now

HookFits(h, now) ==
    /\ h.event \in {"created", "updated", "deleted"} /\ h.key \in Created
    /\ h.status \in Statuses \cup {NoStatus}
    /\ h.summary \in 0 .. now /\ h.at \in 0 .. now

TrackerFits ==
    /\ clock \in Nat
    /\ \A k \in Keys : IssueFits(issue[k], clock)
    /\ \A h \in hooks : HookFits(h, clock)

TablesFit ==
    /\ integration \in {"absent", "on", "off", "deleted"}
    /\ \A e \in Entities : link[e] = NoLink \/ RowFits(link[e], clock)
    /\ name \in [Entities -> 0 .. clock]
    /\ percent \in [Activities -> Percents]
    /\ alive \subseteq Entities

TInv ==
    /\ SInv /\ TrackerFits /\ TablesFit
    /\ \A r \in Requests : Course(req[r]) /\ Fits(req[r], clock) /\ Marked(req[r], link)
    /\ budget \in [Events -> Nat]
    /\ trouble \subseteq {"fault", "unlink", "overlap", "pushes", "victim"}

-----------------------------------------------------------------------------
LEMMA ClockTicks == [Next]_vars => clock' \in {clock, clock + 1}
BY TrackerForm DEF TrackerStep, TrackerLeft, NewIssue, EditIssue, UserRetitlesIssue,
                   UserMovesIssue, UserErasesIssue

\* What fits now fits later.
LEMMA FitsLonger ==
    ASSUME NEW a \in Nat, NEW b \in Nat, a =< b
    PROVE  /\ \A q : Fits(q, a) => Fits(q, b)
           /\ \A row : RowFits(row, a) => RowFits(row, b)
           /\ \A i : IssueFits(i, a) => IssueFits(i, b)
           /\ \A h : HookFits(h, a) => HookFits(h, b)
           /\ 0 .. a \subseteq 0 .. b
<1>1. 0 .. a \subseteq 0 .. b /\ \A n \in Nat : n =< a => n =< b
  OBVIOUS
<1>2. \A row : RowFits(row, a) => RowFits(row, b)
  BY <1>1 DEF RowFits, Row
<1>3. \A w : WritesFit(w, a) => WritesFit(w, b)
  BY <1>1, <1>2 DEF WritesFit
<1>4. \A plan : PlanFits(plan, a) => PlanFits(plan, b)
  BY <1>1 DEF PlanFits, ItemType
<1>5. \A got : GotFits(got, a) => GotFits(got, b)
  BY <1>1 DEF GotFits
<1>6. \A q : Fits(q, a) => Fits(q, b)
  BY <1>1, <1>3, <1>4, <1>5 DEF Fits
<1>7. \A i : IssueFits(i, a) => IssueFits(i, b)
  BY <1>1 DEF IssueFits
<1>8. \A h : HookFits(h, a) => HookFits(h, b)
  BY <1>1 DEF HookFits
<1> QED
  BY <1>1, <1>2, <1>6, <1>7, <1>8

-----------------------------------------------------------------------------
(* The requests stay on their course.                                       *)
LEMMA FirstCourse ==
    ASSUME NEW p, NEW plan, AtFirst(p, plan)
    PROVE  Course(p)
BY DEF AtFirst, FirstStep, Course

LEMMA BegunCourse ==
    ASSUME TrackerFits, NEW p, Begun(p)
    PROVE  Course(p)
<1>1. CASE BegunPush(p) \/ BegunPull(p)
  BY <1>1, FirstCourse DEF BegunPush, BegunPull, Planned
<1>2. CASE BegunAlert(p)
  <2>1. p.pc = "create" /\ p.kind = "alert" /\ p.here = "variance"
    BY <1>2 DEF BegunAlert, Idle
  <2> QED
    BY <2>1 DEF Course
<1>3. CASE BegunHook(p)
  <2>1. PICK h \in hooks, e \in Entities : p = HookRequest(h, e)
    BY <1>3 DEF BegunHook, Target
  <2>2. /\ p.kind = h.event /\ p.here = e
        /\ p.pc = IF h.event = "deleted" THEN "drop" ELSE "stamp"
    BY <2>1, HookFields
  <2>3. h.event \in {"created", "updated", "deleted"}
    BY DEF TrackerFits, HookFits
  <2> QED
    BY <2>2, <2>3 DEF Course
<1> QED
  BY <1>1, <1>2, <1>3 DEF Begun

LEMMA TurnCourse ==
    ASSUME NEW p, NEW q, Course(q), Turn(p, q)
    PROVE  Course(p)
<1>0. q # Idle \/ p = Idle
  <2>1. Idle.pc = "idle"
    BY DEF Idle
  <2> QED
    BY <2>1 DEF Turn, Retried, CreatedOne, Passed, Inserted, Called, Touched, Fetched,
                WasRead, Written, Stamped, Dropped, Aimed
<1>1. ASSUME NEW writes, NEW locks, Past(p, q, writes, locks) PROVE Course(p)
  BY <1>1, FirstCourse DEF Past
<1> SUFFICES ASSUME q # Idle PROVE Course(p)
  BY <1>0 DEF Course
<1>2. CASE Passed(p, q) \/ Inserted(p, q) \/ Touched(p, q) \/ Dropped(p, q)
  BY <1>1, <1>2 DEF Passed, Inserted, Touched, Dropped
<1>3. CASE Retried(p, q)
  BY <1>3 DEF Retried, Onto, Course
<1>4. CASE CreatedOne(p, q)
  BY <1>4, EntitiesAssumption DEF CreatedOne, Onto, Course
<1>5. CASE Called(p, q)
  BY <1>5 DEF Called, Onto, Course
<1>6. CASE Fetched(p, q) \/ Aimed(p, q) \/ WasRead(p, q)
  BY <1>6 DEF Fetched, Aimed, WasRead, Onto, Course
<1>7. CASE Written(p, q) \/ Stamped(p, q)
  <2>1. CASE \E writes, locks : Past(p, q, writes, locks)
    BY <1>1, <2>1
  <2>2. CASE \E tries, got, writes, locks :
                 \/ q.pc = "write" /\ q.kind = "pull" /\ Onto(p, q, "stamp", tries, got, writes, locks)
                 \/ q.pc = "stamp" /\ q.kind = "updated" /\ Onto(p, q, "read", tries, got, writes, locks)
    BY <2>2 DEF Onto, Course
  <2> QED
    BY <1>7, <2>1, <2>2 DEF Written, Stamped
<1>8. CASE p = Idle
  BY <1>8 DEF Course
<1> QED
  BY <1>2, <1>3, <1>4, <1>5, <1>6, <1>7, <1>8 DEF Turn

-----------------------------------------------------------------------------
(* What a request has in hand fits.                                         *)
LEMMA OntoFits ==
    ASSUME NEW now \in Nat, NEW p, NEW q, NEW pc, NEW tries, NEW got, NEW writes, NEW locks,
           Onto(p, q, pc, tries, got, writes, locks), Fits(q, now),
           tries \in 0 .. (MaxRetries - 1), GotFits(got, now), WritesFit(writes, now),
           locks \subseteq {"link", "entity"} \X Entities,
           pc \in {"compare", "transition"} => got.status \in Statuses
    PROVE  Fits(p, now)
BY DEF Onto, Fits

LEMMA NothingFits ==
    ASSUME NEW now \in Nat
    PROVE  /\ GotFits(Nothing, now) /\ WritesFit(NoWrites, now) /\ Fits(Idle, now)
           /\ 0 \in 0 .. (MaxRetries - 1)
<1>1. 0 \in 0 .. (MaxRetries - 1) /\ 0 \in 0 .. now
  BY MaxRetriesAssumption
<1>2. GotFits(Nothing, now)
  BY <1>1 DEF GotFits, Nothing
<1>3. WritesFit(NoWrites, now)
  BY DEF WritesFit, NoWrites, IsPartial
<1>4. PlanFits(<<>>, now)
  BY DEF PlanFits, IsPartial
<1>5. /\ Idle.plan = <<>> /\ Idle.got = Nothing /\ Idle.writes = NoWrites /\ Idle.pc = "idle"
      /\ Idle.began = 0 /\ Idle.tries = 0 /\ Idle.locks = {}
  BY DEF Idle
<1> QED
  BY <1>1, <1>2, <1>3, <1>4, <1>5 DEF Fits

LEMMA FirstFits ==
    ASSUME NEW now \in Nat, NEW p, NEW plan, AtFirst(p, plan), PlanFits(plan, now),
           WritesFit(p.writes, now), p.began \in 0 .. now,
           p.locks \subseteq {"link", "entity"} \X Entities
    PROVE  Fits(p, now)
<1>1. p.pc \notin {"compare", "transition"}
  BY DEF AtFirst, FirstStep
<1> QED
  BY <1>1, NothingFits DEF AtFirst, Fits

LEMMA PastFits ==
    ASSUME NEW now \in Nat, NEW p, NEW q, NEW writes, NEW locks,
           Past(p, q, writes, locks), Fits(q, now), WritesFit(writes, now),
           locks \subseteq {"link", "entity"} \X Entities
    PROVE  Fits(p, now)
<1> DEFINE plan == [e \in DOMAIN q.plan \ {q.here} |-> q.plan[e]]
<1>1. PlanFits(plan, now)
  BY DEF Fits, PlanFits, IsPartial
<1>2. AtFirst(p, plan) /\ p.writes = writes /\ p.began = q.began /\ p.locks = locks
  BY DEF Past
<1> QED
  BY <1>1, <1>2, FirstFits DEF Fits

LEMMA ItemFits ==
    ASSUME TInv, NEW e \in Entities, NEW rank \in Nat
    PROVE  /\ Item(e, rank) \in ItemType
           /\ Item(e, rank).name =< clock /\ Item(e, rank).stamp =< clock
<1>1. name[e] \in 0 .. clock /\ clock \in Nat
  BY DEF TInv, TablesFit, TrackerFits
<1>2. link[e].stamp \in 0 .. clock /\ (Live(e) => link[e].key \in Keys)
  <2>1. CASE link[e] = NoLink
    BY <1>1, <2>1 DEF NoLink, NoStamp, Live
  <2>2. CASE RowFits(link[e], clock)
    BY <1>1, <2>2 DEF RowFits, Row
  <2> QED
    BY <2>1, <2>2 DEF TInv, TablesFit
<1> QED
  BY <1>1, <1>2 DEF Item, ItemType

LEMMA BegunFits ==
    ASSUME TInv, [Next]_vars, NEW p, Begun(p)
    PROVE  Fits(p, clock')
<1>1. clock \in Nat /\ clock' \in Nat /\ clock =< clock' /\ 0 \in 0 .. clock /\ clock \in 0 .. clock
  BY ClockTicks DEF TInv, TrackerFits
<1>2. ASSUME NEW plan, PlanFits(plan, clock), Planned(p, plan) PROVE Fits(p, clock')
  <2>1. Fits(p, clock)
    BY <1>1, <1>2, NothingFits, FirstFits DEF Planned
  <2> QED
    BY <1>1, <2>1, FitsLonger
<1>4. CASE BegunPush(p)
  <2>1. PICK es \in SUBSET Entities : Planned(p, [e \in es |-> Item(e, Code[e])])
    BY <1>4 DEF BegunPush
  <2>2. \A e \in es : Code[e] \in Nat
    BY CodeAssumption DEF Entities
  <2>3. PlanFits([e \in es |-> Item(e, Code[e])], clock)
    BY <2>2, ItemFits DEF PlanFits, IsPartial
  <2> QED
    BY <1>2, <2>1, <2>3
<1>5. CASE BegunPull(p)
  <2>1. PICK es \in SUBSET Mapped : Planned(p, [e \in es |-> Item(e, link[e].rank)])
    BY <1>5 DEF BegunPull
  <2>2. es \in SUBSET Entities /\ \A e \in es : link[e].rank \in Nat
    BY DEF Mapped, Live, Entities, TInv, TablesFit, NoLink, RowFits, Row
  <2>3. PlanFits([e \in es |-> Item(e, link[e].rank)], clock)
    BY <2>2, ItemFits DEF PlanFits, IsPartial
  <2> QED
    BY <1>2, <2>1, <2>3
<1>6. CASE BegunAlert(p)
  <2>1. /\ p.plan = <<>> /\ p.got = Nothing /\ p.writes = NoWrites /\ p.pc = "create"
        /\ p.began = 0 /\ p.tries = 0 /\ p.locks = {}
    BY <1>6 DEF BegunAlert, Idle
  <2>2. PlanFits(<<>>, clock')
    BY DEF PlanFits, IsPartial
  <2> QED
    BY <1>1, <2>1, <2>2, NothingFits DEF Fits
<1>7. CASE BegunHook(p)
  <2>1. PICK h \in hooks, e \in Entities : p = HookRequest(h, e) /\ clock' = clock + 1
    BY <1>7 DEF BegunHook, Target
  <2>2. /\ p.plan = <<>> /\ p.began = 0 /\ p.tries = 0 /\ p.pc \in {"drop", "stamp"}
        /\ p.writes = NoWrites /\ p.locks = {}
        /\ p.got.key = NoKey /\ p.got.summary = h.summary /\ p.got.status = h.status
        /\ p.got.at = clock + 1
    BY <2>1, HookFields
  <2>3. PlanFits(<<>>, clock')
    BY DEF PlanFits, IsPartial
  <2>4. HookFits(h, clock')
    BY <1>1, FitsLonger DEF TInv, TrackerFits
  <2>5. GotFits(p.got, clock')
    BY <1>1, <2>1, <2>2, <2>4 DEF HookFits, GotFits
  <2> QED
    BY <1>1, <2>2, <2>3, <2>5, NothingFits DEF Fits
<1> QED
  BY <1>4, <1>5, <1>6, <1>7 DEF Begun

\* What a step puts into the writes.
LEMMA WritesGrow ==
    ASSUME NEW now \in Nat, NEW q, Shape(q), WritesFit(q.writes, now), NEW e, NEW v
    PROVE  /\ e \in Entities /\ RowFits(v, now) =>
                 WritesFit([q.writes EXCEPT !.rows = With(@, e, v)], now)
           /\ v \in 0 .. now =>
                 WritesFit([q.writes EXCEPT !.stamps = With(@, e, v)], now)
           /\ WritesFit([q.writes EXCEPT !.gone = @ \cup {e}], now)
<1> DEFINE w == q.writes
<1>1. /\ \A f : LET n == [w EXCEPT !.rows = f]
                IN  n.rows = f /\ n.stamps = w.stamps /\ n.names = w.names
                    /\ n.percents = w.percents
      /\ \A f : LET n == [w EXCEPT !.stamps = f]
                IN  n.rows = w.rows /\ n.stamps = f /\ n.names = w.names
                    /\ n.percents = w.percents
      /\ \A f : LET n == [w EXCEPT !.gone = f]
                IN  n.rows = w.rows /\ n.stamps = w.stamps /\ n.names = w.names
                    /\ n.percents = w.percents
  BY DEF Shape
<1>2. e \in Entities /\ RowFits(v, now) =>
          WritesFit([w EXCEPT !.rows = With(@, e, v)], now)
  BY <1>1 DEF WritesFit, With, IsPartial
<1>3. v \in 0 .. now =>
          WritesFit([w EXCEPT !.stamps = With(@, e, v)], now)
  BY <1>1 DEF WritesFit, With
<1>4. WritesFit([w EXCEPT !.gone = @ \cup {e}], now)
  BY <1>1 DEF WritesFit
<1> QED
  BY <1>2, <1>3, <1>4

LEMMA ReadFits ==
    ASSUME NEW now \in Nat, NEW q, Shape(q), WritesFit(q.writes, now),
           NEW names, \A e \in DOMAIN names : names[e] \in 0 .. now,
           NEW percents, \A e \in DOMAIN percents : percents[e] \in Percents
    PROVE  WritesFit([q.writes EXCEPT !.names = names, !.percents = percents], now)
<1> DEFINE w == q.writes
           n == [w EXCEPT !.names = names, !.percents = percents]
<1>1. /\ n.rows = w.rows /\ n.stamps = w.stamps /\ n.names = names
      /\ n.percents = percents
  BY DEF Shape
<1> HIDE DEF n
<1> QED
  BY <1>1 DEF WritesFit, n

LEMMA NewPercentFits ==
    ASSUME TInv, NEW q, q.here \in Activities, q.got.status \in Statuses \cup {NoStatus}
    PROVE  NewPercent(q) \in Percents
<1>1. percent[q.here] \in Percents
  BY DEF TInv, TablesFit
<1>2. q.got.status # NoStatus => PercentOf(q.got.status) \in Percents
  BY DEF PercentOf, Statuses, Percents
<1> QED
  BY <1>1, <1>2 DEF NewPercent, HookPercent, PullPercent, Percents

\* An item of the plan, and the issue it is about.
LEMMA ItemKnown ==
    ASSUME TInv, NEW r \in Requests, req[r].here \in DOMAIN req[r].plan,
           req[r].kind \in {"pull", "sync"} \/ req[r].pc = "update"
    PROVE  /\ req[r].here \in Entities /\ Linked(req[r].here, link)
           /\ Item1(req[r]).key = link[req[r].here].key /\ Item1(req[r]).key \in Keys
<1>1. DInv /\ PlanKeys(req[r], link) /\ StepAims(req[r], link)
  BY Here DEF TInv, SInv
<1>2. Linked(req[r].here, link) /\ Item1(req[r]).key = link[req[r].here].key
  BY <1>1 DEF PlanKeys, StepAims, Outward, Linked, Item1
<1> QED
  BY <1>1, <1>2 DEF DInv, IInv, LinkShape, Linked

\* Where a request locks, it is about an entity.
LEMMA HereKnown ==
    ASSUME TInv, NEW r \in Requests,
           req[r].pc \notin {"idle", "commit"}, req[r].kind # "alert"
    PROVE  req[r].here \in Entities
<1>1. Course(req[r]) /\ IsPartial(req[r].plan, Entities)
  BY DEF TInv, Fits, PlanFits
<1>2. req[r] # Idle
  BY DEF Idle
<1> QED
  BY <1>1, <1>2 DEF Course, IsPartial

LEMMA StampKnown ==
    ASSUME TInv, NEW r \in Requests, req[r].pc = "stamp"
    PROVE  Linked(req[r].here, link)
<1>1. CASE req[r].kind = "pull"
  <2>1. req[r].here \in DOMAIN req[r].plan
    <3>1. Course(req[r]) /\ req[r] # Idle
      BY DEF TInv, Idle
    <3> QED
      BY <1>1, <3>1 DEF Course
  <2> QED
    BY <1>1, <2>1, ItemKnown
<1>2. CASE req[r].kind # "pull"
  BY <1>2 DEF TInv, SInv, Told
<1> QED
  BY <1>1, <1>2

\* now is the clock, after a creation its next tick at the earliest.
LEMMA TurnFits ==
    ASSUME TInv, NEW r \in Requests, NEW p, Turn(p, req[r]),
           NEW now \in Nat, clock =< now, CreatedOne(p, req[r]) => clock + 1 =< now
    PROVE  Fits(p, now)
<1> DEFINE q == req[r]
<1>1. clock \in Nat /\ now \in Nat /\ clock =< now /\ 0 .. clock \subseteq 0 .. now
  BY DEF TInv, TrackerFits
<1>2. Shape(q) /\ Fits(q, now) /\ Course(q) /\ Purpose(q)
  BY <1>1, FitsLonger, Here DEF TInv, SInv
<1>3. /\ GotFits(q.got, now) /\ WritesFit(q.writes, now) /\ PlanFits(q.plan, now)
      /\ q.tries \in 0 .. (MaxRetries - 1) /\ q.began \in 0 .. now
      /\ q.locks \subseteq {"link", "entity"} \X Entities
  BY <1>2 DEF Fits
<1>4. q.here \in Entities =>
          /\ q.locks \cup {Mine(q)} \subseteq {"link", "entity"} \X Entities
          /\ q.locks \cup {Own(q)} \subseteq {"link", "entity"} \X Entities
  BY <1>3 DEF Mine, Own
<1>5. q.pc \in {"insert", "touch", "write", "stamp", "drop"} => q.here \in Entities
  <2>1. q.pc \in {"insert", "touch", "write", "stamp", "drop"} => q.kind # "alert"
    BY <1>2 DEF Course, Idle, Shape
  <2> QED
    BY <2>1, HereKnown
<1>6. CASE Retried(p, q)
  <2>1. q.tries + 1 \in 0 .. (MaxRetries - 1)
    BY <1>3, <1>6, MaxRetriesAssumption DEF Retried
  <2>2. q.pc \in {"compare", "transition"} => q.got.status \in Statuses
    BY <1>2 DEF Fits
  <2> QED
    BY <1>1, <1>2, <1>3, <1>6, <2>1, <2>2, OntoFits DEF Retried
<1>7. CASE CreatedOne(p, q)
  <2> DEFINE got == [q.got EXCEPT !.key = NextKey, !.at = clock + 1]
  <2>1. NextKey \in Keys /\ clock + 1 =< now
    BY <1>7 DEF CreatedOne, NewIssue
  <2>2. got.key = NextKey /\ got.at = clock + 1 /\ got.status = q.got.status /\ got.summary = q.got.summary
    BY <1>2 DEF Shape
  <2>3. clock + 1 \in 0 .. now
    BY <1>1, <2>1
  <2>4. GotFits(got, now)
    BY <1>3, <2>1, <2>2, <2>3 DEF GotFits
  <2>5. Onto(p, q, "insert", 0, got, q.writes, q.locks)
    BY <1>7 DEF CreatedOne
  <2> QED
    BY <1>1, <1>2, <1>3, <2>4, <2>5, NothingFits, OntoFits
<1>8. CASE Passed(p, q)
  BY <1>1, <1>2, <1>3, <1>8, PastFits DEF Passed
<1>9. CASE Inserted(p, q)
  <2>1. q.pc = "insert" /\ q.got.key \in Keys /\ q.here \in Entities
    BY <1>5, <1>9 DEF Inserted, TInv, SInv, DInv, IInv, KeysAwaited, Created
  <2>2. RowFits(NewLink(q), now)
    BY <1>1, <1>3, <2>1 DEF NewLink, RowFits, Row, GotFits, Directions, ToJira, FromJira
  <2>3. WritesFit([q.writes EXCEPT !.rows = With(@, q.here, NewLink(q))], now)
    BY <1>1, <1>2, <1>3, <2>1, <2>2, WritesGrow
  <2> QED
    BY <1>1, <1>2, <1>4, <1>9, <2>1, <2>3, PastFits DEF Inserted
<1>10. CASE Called(p, q)
  <2>1. p.pc \in {"compare", "transition"} => q.got.status \in Statuses
    BY <1>2, <1>10 DEF Called, Fits
  <2>2. Onto(p, q, p.pc, 0, q.got, q.writes, q.locks)
    BY <1>10 DEF Called
  <2> QED
    BY <1>1, <1>2, <1>3, <2>1, <2>2, NothingFits, OntoFits
<1>11. CASE Touched(p, q)
  BY <1>1, <1>2, <1>3, <1>4, <1>5, <1>11, PastFits DEF Touched
<1>12. CASE Fetched(p, q)
  <2> DEFINE seen == issue[q.plan[q.here].key]
             got == [q.got EXCEPT !.summary = seen.summary, !.status = seen.status,
                                  !.at = seen.updated]
  <2>1. q.plan[q.here].key \in Keys
    <3>1. q.kind = "pull" /\ q.here \in DOMAIN q.plan
      BY <1>2, <1>12 DEF Fetched, Course, Idle
    <3> QED
      BY <3>1, ItemKnown DEF Item1
  <2>2. IssueFits(seen, now)
    BY <1>1, <2>1, FitsLonger DEF TInv, TrackerFits
  <2>3. /\ got.key = q.got.key /\ got.at = seen.updated /\ got.status = seen.status
        /\ got.summary = seen.summary
    BY <1>2 DEF Shape
  <2>4. GotFits(got, now)
    BY <1>3, <2>2, <2>3 DEF GotFits, IssueFits
  <2>5. Onto(p, q, "read", 0, got, q.writes, q.locks)
    BY <1>12 DEF Fetched
  <2> HIDE DEF got, seen
  <2> QED
    BY <1>1, <1>2, <1>3, <2>4, <2>5, NothingFits, OntoFits
<1>13. CASE WasRead(p, q)
  <2> DEFINE names == IF q.got.summary # name[q.here]
                      THEN With(q.writes.names, q.here, q.got.summary) ELSE q.writes.names
             percents == IF q.here \in Activities /\ NewPercent(q) # percent[q.here]
                         THEN With(q.writes.percents, q.here, NewPercent(q))
                         ELSE q.writes.percents
             w == [q.writes EXCEPT !.names = names, !.percents = percents]
  <2>1. \A e \in DOMAIN names : names[e] \in 0 .. now
    BY <1>3 DEF With, GotFits, WritesFit
  <2>2. \A e \in DOMAIN percents : percents[e] \in Percents
    BY <1>3, NewPercentFits DEF With, GotFits, WritesFit
  <2>3. Onto(p, q, "write", q.tries, q.got, w, q.locks)
    BY <1>13 DEF WasRead
  <2> HIDE DEF names, percents
  <2>4. WritesFit(w, now)
    BY <1>1, <1>2, <1>3, <2>1, <2>2, ReadFits
  <2> HIDE DEF w
  <2> QED
    BY <1>1, <1>2, <1>3, <2>3, <2>4, OntoFits
<1>14. CASE Written(p, q)
  <2>1. q.locks \cup {Own(q)} \subseteq {"link", "entity"} \X Entities
    BY <1>4, <1>5, <1>14 DEF Written
  <2>2. \/ Onto(p, q, "stamp", q.tries, q.got, q.writes, q.locks \cup {Own(q)})
        \/ Past(p, q, q.writes, q.locks \cup {Own(q)})
    BY <1>14 DEF Written
  <2> QED
    BY <1>1, <1>2, <1>3, <2>1, <2>2, OntoFits, PastFits
<1>15. CASE Stamped(p, q)
  <2> DEFINE w == [q.writes EXCEPT !.stamps = With(@, q.here, q.got.at)]
  <2>1. q.locks \cup {Mine(q)} \subseteq {"link", "entity"} \X Entities
    BY <1>4, <1>5, <1>15 DEF Stamped
  <2>2. WritesFit(w, now)
    BY <1>1, <1>2, <1>3, WritesGrow DEF GotFits
  <2>3. \/ Onto(p, q, "read", q.tries, q.got, w, q.locks \cup {Mine(q)})
        \/ Past(p, q, w, q.locks \cup {Mine(q)})
    BY <1>15 DEF Stamped
  <2> HIDE DEF w
  <2> QED
    BY <1>1, <1>2, <1>3, <2>1, <2>2, <2>3, OntoFits, PastFits
<1>16. CASE Dropped(p, q)
  <2> DEFINE w == [q.writes EXCEPT !.gone = @ \cup {q.here}]
  <2>1. q.locks \cup {Mine(q)} \subseteq {"link", "entity"} \X Entities
    BY <1>4, <1>5, <1>16 DEF Dropped
  <2>2. WritesFit(w, now)
    BY <1>1, <1>2, <1>3, WritesGrow
  <2>3. Past(p, q, w, q.locks \cup {Mine(q)})
    BY <1>16 DEF Dropped
  <2> HIDE DEF w
  <2> QED
    BY <1>1, <1>2, <2>1, <2>2, <2>3, PastFits
<1>17. CASE Aimed(p, q)
  <2> DEFINE got == [q.got EXCEPT !.status = StatusOf(percent[q.here])]
  <2>1. /\ got.key = q.got.key /\ got.at = q.got.at /\ got.summary = q.got.summary
        /\ got.status = StatusOf(percent[q.here])
    BY <1>2 DEF Shape
  <2>2. got.status \in Statuses
    BY <2>1 DEF StatusOf, Statuses
  <2>3. GotFits(got, now)
    BY <1>3, <2>1, <2>2 DEF GotFits
  <2>4. Onto(p, q, "compare", q.tries, got, q.writes, q.locks)
    BY <1>17 DEF Aimed
  <2> HIDE DEF got
  <2> QED
    BY <1>1, <1>2, <1>3, <2>2, <2>3, <2>4, OntoFits
<1>18. CASE p = Idle
  BY <1>1, <1>18, NothingFits
<1> QED
  BY <1>6, <1>7, <1>8, <1>9, <1>10, <1>11, <1>12, <1>13, <1>14, <1>15, <1>16, <1>17, <1>18 DEF Turn

\* The stamps that a turn is to write.
LEMMA TurnStamps ==
    ASSUME NEW p, NEW q, Shape(q), Turn(p, q)
    PROVE  \/ p.writes.stamps = q.writes.stamps
           \/ p = Idle
           \/ q.pc = "stamp" /\ p.writes.stamps = With(q.writes.stamps, q.here, q.got.at)
<1>1. ASSUME NEW writes, NEW locks, Past(p, q, writes, locks)
      PROVE  p.writes = writes
  BY <1>1 DEF Past
<1>2. CASE Dropped(p, q)
  <2>1. [q.writes EXCEPT !.gone = @ \cup {q.here}].stamps = q.writes.stamps
    BY DEF Shape
  <2> QED
    BY <1>1, <1>2, <2>1 DEF Dropped
<1>3. CASE Inserted(p, q)
  <2>1. \A f : [q.writes EXCEPT !.rows = f].stamps = q.writes.stamps
    BY DEF Shape
  <2> QED
    BY <1>1, <1>3, <2>1 DEF Inserted
<1>4. CASE WasRead(p, q)
  <2>1. \A n, m : [q.writes EXCEPT !.names = n, !.percents = m].stamps = q.writes.stamps
    BY DEF Shape
  <2> QED
    BY <1>4, <2>1 DEF WasRead, Onto
<1>5. CASE Stamped(p, q)
  <2>1. \A f : [q.writes EXCEPT !.stamps = f].stamps = f
    BY DEF Shape
  <2> QED
    BY <1>1, <1>5, <2>1 DEF Stamped, Onto
<1>6. CASE Passed(p, q) \/ Touched(p, q) \/ Written(p, q)
  BY <1>1, <1>6 DEF Passed, Touched, Written, Onto
<1>7. CASE Retried(p, q) \/ CreatedOne(p, q) \/ Called(p, q) \/ Fetched(p, q) \/ Aimed(p, q)
  BY <1>7 DEF Retried, CreatedOne, Called, Fetched, Aimed, Onto
<1> QED
  BY <1>2, <1>3, <1>4, <1>5, <1>6, <1>7 DEF Turn

LEMMA TurnMarked ==
    ASSUME TInv, NEW r \in Requests, NEW p, Turn(p, req[r])
    PROVE  Marked(p, link)
<1>1. Shape(req[r]) /\ Marked(req[r], link)
  BY Here DEF TInv, SInv
<1>2. CASE p = Idle
  BY <1>2 DEF Idle, NoWrites, Marked
<1>3. CASE req[r].pc = "stamp" /\ p.writes.stamps = With(req[r].writes.stamps, req[r].here, req[r].got.at)
  BY <1>1, <1>3, StampKnown DEF Marked, With
<1> QED
  BY <1>1, <1>2, <1>3, TurnStamps DEF Marked

LEMMA BegunMarked ==
    ASSUME TInv, NEW p, Begun(p)
    PROVE  Marked(p, link)
<1>1. CASE BegunPush(p) \/ BegunPull(p)
  <2>1. p.writes = NoWrites
    BY <1>1 DEF BegunPush, BegunPull, Planned
  <2> QED
    BY <2>1 DEF Marked, NoWrites
<1>2. CASE BegunAlert(p)
  BY <1>2 DEF BegunAlert, Idle, Marked, NoWrites
<1>3. CASE BegunHook(p)
  <2>1. p.writes = NoWrites
    BY <1>3, HookFields DEF BegunHook
  <2> QED
    BY <2>1 DEF Marked, NoWrites
<1> QED
  BY <1>1, <1>2, <1>3 DEF Begun

-----------------------------------------------------------------------------
(* What the tracker keeps fits.                                             *)
LEMMA EditFits ==
    ASSUME TInv, [Next]_vars, NEW k \in Keys, NEW text \in 0 .. (clock + 1), NEW s \in Statuses,
           EditIssue(k, text, s)
    PROVE  TrackerFits'
<1>1. /\ clock \in Nat /\ clock' = clock + 1 /\ clock' \in Nat /\ clock + 1 \in 0 .. clock'
      /\ text \in 0 .. clock' /\ clock =< clock'
  BY DEF TInv, TrackerFits, EditIssue
<1>2. IInv /\ Created \subseteq Created'
  BY CreatedGrows DEF TInv, SInv, DInv
<1>3. ASSUME NEW j \in Keys PROVE IssueFits(issue'[j], clock')
  <2>1. IssueFits(issue[j], clock')
    BY <1>1, FitsLonger DEF TInv, TrackerFits
  <2>2. issue'[j].state = issue[j].state
    BY <1>2, EditForm DEF IInv
  <2>3. CASE j = k
    <3>1. issue'[j].summary = text /\ issue'[j].status = s /\ issue'[j].updated = clock + 1
      BY <1>2, <2>3, EditForm DEF IInv
    <3> QED
      BY <1>1, <2>1, <2>2, <3>1 DEF IssueFits
  <2>4. CASE j # k
    <3>1. issue'[j] = issue[j]
      BY <1>2, <2>4, EditForm DEF IInv
    <3> QED
      BY <2>1, <3>1
  <2> QED
    BY <2>3, <2>4
<1>4. ASSUME NEW h \in hooks' PROVE HookFits(h, clock)' 
  <2> DEFINE status == IF s = issue[k].status THEN NoStatus ELSE s
             n == [event |-> "updated", key |-> k, summary |-> text,
                   status |-> status, at |-> clock + 1]
  <2>1. hooks' = hooks \cup {n} /\ k \in Created
    BY DEF EditIssue, Open, Created
  <2>2. CASE h = n
    <3>1. status \in Statuses \cup {NoStatus}
      OBVIOUS
    <3> HIDE DEF status
    <3> QED
      BY <1>1, <1>2, <2>1, <2>2, <3>1 DEF HookFits
  <2> HIDE DEF n
  <2>3. CASE h \in hooks
    <3>1. HookFits(h, clock')
      BY <1>1, <2>3, FitsLonger DEF TInv, TrackerFits
    <3> QED
      BY <1>2, <3>1 DEF HookFits
  <2> QED
    BY <2>1, <2>2, <2>3
<1> QED
  BY <1>1, <1>3, <1>4 DEF TrackerFits

LEMMA NewFits ==
    ASSUME TInv, [Next]_vars, NEW owner, NEW text \in 0 .. (clock + 1), NewIssue(owner, text)
    PROVE  TrackerFits'
<1>1. /\ clock \in Nat /\ clock' = clock + 1 /\ clock' \in Nat /\ clock + 1 \in 0 .. clock'
      /\ text \in 0 .. clock' /\ clock =< clock'
  <2>1. clock \in Nat
    BY DEF TInv, TrackerFits
  <2>2. clock' = clock + 1
    BY DEF NewIssue
  <2> QED
    BY <2>1, <2>2
<1>2. IInv /\ Created \subseteq Created'
  BY CreatedGrows DEF TInv, SInv, DInv
<1> DEFINE key == NextKey
<1>3. /\ key \in Keys
      /\ issue'[key].state = "open" /\ issue'[key].summary = text
      /\ issue'[key].status = "To Do" /\ issue'[key].updated = clock + 1
      /\ \A k \in Keys : k # key => issue'[k] = issue[k]
  <2> DEFINE i == [state |-> "open", owner |-> owner, summary |-> text,
                   status |-> "To Do", updated |-> clock + 1]
  <2>1. i.state = "open" /\ i.summary = text /\ i.status = "To Do" /\ i.updated = clock + 1
    OBVIOUS
  <2>2. key \in Keys /\ issue'[key] = i /\ \A k \in Keys : k # key => issue'[k] = issue[k]
    BY <1>2, NewForm
  <2> HIDE DEF i, key
  <2> QED
    BY <2>1, <2>2
<1> HIDE DEF key
<1>4. ASSUME NEW j \in Keys PROVE IssueFits(issue'[j], clock')
  <2>1. CASE j = key
    BY <1>1, <1>3, <2>1 DEF IssueFits, Statuses
  <2>2. CASE j # key
    BY <1>1, <1>3, <2>2, FitsLonger DEF TInv, TrackerFits
  <2> QED
    BY <2>1, <2>2
<1>5. ASSUME NEW h \in hooks' PROVE HookFits(h, clock)'
  <2> DEFINE n == [event |-> "created", key |-> NextKey, summary |-> text,
                   status |-> NoStatus, at |-> clock + 1]
  <2>1. hooks' = hooks \cup {n}
    BY DEF NewIssue
  <2>2. CASE h = n
    <3>1. key \in Created'
      BY <1>3 DEF Created
    <3>2. /\ h.event = "created" /\ h.key = key /\ h.summary = text
          /\ h.status = NoStatus /\ h.at = clock + 1
      BY <2>2 DEF key
    <3> QED
      BY <1>1, <3>1, <3>2 DEF HookFits
  <2> HIDE DEF n
  <2>3. CASE h \in hooks
    <3>1. HookFits(h, clock')
      BY <1>1, <2>3, FitsLonger DEF TInv, TrackerFits
    <3> QED
      BY <1>2, <3>1 DEF HookFits
  <2> QED
    BY <2>1, <2>2, <2>3
<1> QED
  BY <1>1, <1>4, <1>5 DEF TrackerFits

LEMMA EraseFits ==
    ASSUME TInv, [Next]_vars, NEW k \in Keys, UserErasesIssue(k)
    PROVE  TrackerFits'
<1>1. /\ clock \in Nat /\ clock' = clock + 1 /\ clock' \in Nat /\ clock + 1 \in 0 .. clock'
      /\ clock =< clock'
  BY DEF TInv, TrackerFits, UserErasesIssue
<1>2. IInv /\ Created \subseteq Created'
  BY CreatedGrows DEF TInv, SInv, DInv
<1>3. \A j \in Keys : IssueFits(issue[j], clock')
  BY <1>1, FitsLonger DEF TInv, TrackerFits
<1>4. ASSUME NEW j \in Keys PROVE IssueFits(issue'[j], clock')
  <2>1. issue'[j] = issue[j] \/ issue'[j].state = "deleted"
    BY <1>2, EraseForm
  <2>2. /\ issue'[j].summary = issue[j].summary /\ issue'[j].status = issue[j].status
        /\ issue'[j].updated = issue[j].updated
    BY <1>2, EraseForm
  <2> QED
    BY <1>3, <2>1, <2>2 DEF IssueFits
<1>5. ASSUME NEW h \in hooks' PROVE HookFits(h, clock)'
  <2> DEFINE n == [event |-> "deleted", key |-> k, summary |-> issue[k].summary,
                   status |-> NoStatus, at |-> clock + 1]
  <2>1. hooks' = hooks \cup {n} /\ k \in Created
    BY DEF UserErasesIssue, Open, Created
  <2>2. CASE h = n
    <3>1. /\ h.event = "deleted" /\ h.key = k /\ h.summary = issue[k].summary
          /\ h.status = NoStatus /\ h.at = clock + 1
      BY <2>2
    <3>2. h.summary \in 0 .. clock'
      BY <1>3, <3>1 DEF IssueFits
    <3> QED
      BY <1>1, <1>2, <2>1, <3>1, <3>2 DEF HookFits
  <2> HIDE DEF n
  <2>3. CASE h \in hooks
    <3>1. HookFits(h, clock')
      BY <1>1, <2>3, FitsLonger DEF TInv, TrackerFits
    <3> QED
      BY <1>2, <3>1 DEF HookFits
  <2> QED
    BY <2>1, <2>2, <2>3
<1> QED
  BY <1>1, <1>4, <1>5 DEF TrackerFits

LEMMA PlannedName ==
    ASSUME TInv, NEW r \in Requests, req[r].here \in DOMAIN req[r].plan
    PROVE  Item1(req[r]).name \in 0 .. clock
BY DEF TInv, Fits, PlanFits, ItemType, Item1, TrackerFits

LEMMA TrackerKept == TInv /\ [Next]_vars => TrackerFits'
<1> SUFFICES ASSUME TInv, [Next]_vars PROVE TrackerFits'
  OBVIOUS
<1>1. /\ clock \in Nat /\ 0 .. clock \subseteq 0 .. (clock + 1) /\ clock + 1 \in 0 .. (clock + 1)
      /\ \A k \in Keys : IssueFits(issue[k], clock)
      /\ \A r \in Requests : Course(req[r]) /\ Fits(req[r], clock)
  BY DEF TInv, TrackerFits
<1>2. CASE TrackerLeft
  <2>1. clock' \in Nat /\ clock =< clock'
    BY <1>1, <1>2 DEF TrackerLeft
  <2>2. Created' = Created
    BY <1>2 DEF TrackerLeft, Created
  <2>3. \A k \in Keys : IssueFits(issue'[k], clock')
    BY <1>1, <1>2, <2>1, FitsLonger DEF TrackerLeft
  <2>4. \A h \in hooks' : HookFits(h, clock')
    BY <1>1, <1>2, <2>1, FitsLonger DEF TrackerLeft, TInv, TrackerFits
  <2> QED
    BY <2>1, <2>2, <2>3, <2>4 DEF TrackerFits, HookFits
<1>3. CASE \E owner : NewIssue(owner, clock + 1)
  BY <1>1, <1>3, NewFits
<1>4. ASSUME NEW r \in Requests, req[r].pc = "create", req[r].here \in Entities,
             NewIssue(req[r].here, Item1(req[r]).name)
      PROVE  TrackerFits'
  <2>1. req[r].here \in DOMAIN req[r].plan
    BY <1>1, <1>4, EntitiesAssumption DEF Course, Idle
  <2> QED
    BY <1>1, <1>4, <2>1, PlannedName, NewFits
<1>5. ASSUME NEW r \in Requests, req[r].pc = "update",
             EditIssue(Item1(req[r]).key, Item1(req[r]).name, issue[Item1(req[r]).key].status)
      PROVE  TrackerFits'
  <2>1. req[r].here \in DOMAIN req[r].plan
    BY <1>1, <1>5 DEF Course, Idle
  <2>2. Item1(req[r]).key \in Keys
    BY <1>5, <2>1, ItemKnown
  <2>3. issue[Item1(req[r]).key].status \in Statuses
    BY <1>1, <2>2 DEF IssueFits
  <2> QED
    BY <1>1, <1>5, <2>1, <2>2, <2>3, PlannedName, EditFits
<1>6. ASSUME NEW r \in Requests, req[r].pc = "transition",
             EditIssue(Item1(req[r]).key, issue[Item1(req[r]).key].summary, req[r].got.status)
      PROVE  TrackerFits'
  <2>1. req[r].here \in DOMAIN req[r].plan /\ req[r].kind = "sync"
    BY <1>1, <1>6 DEF Course, Idle
  <2>2. Item1(req[r]).key \in Keys
    BY <1>6, <2>1, ItemKnown
  <2>3. issue[Item1(req[r]).key].summary \in 0 .. clock
    BY <1>1, <2>2 DEF IssueFits
  <2>4. req[r].got.status \in Statuses
    BY <1>1, <1>6 DEF Fits
  <2> QED
    BY <1>1, <1>6, <2>2, <2>3, <2>4, EditFits
<1>7. ASSUME NEW k \in Keys, UserRetitlesIssue(k) PROVE TrackerFits'
  <2>1. issue[k].status \in Statuses
    BY <1>1 DEF IssueFits
  <2> QED
    BY <1>1, <1>7, <2>1, EditFits DEF UserRetitlesIssue
<1>8. ASSUME NEW k \in Keys, UserMovesIssue(k) PROVE TrackerFits'
  <2>1. issue[k].summary \in 0 .. clock
    BY <1>1 DEF IssueFits
  <2> QED
    BY <1>1, <1>8, <2>1, EditFits DEF UserMovesIssue
<1>9. ASSUME NEW k \in Keys, UserErasesIssue(k) PROVE TrackerFits'
  BY <1>9, EraseFits
<1> QED
  BY <1>2, <1>3, <1>4, <1>5, <1>6, <1>7, <1>8, <1>9, TrackerForm DEF TrackerStep

-----------------------------------------------------------------------------
(* What the tables hold fits.                                               *)
LEMMA LinkSteps ==
    ASSUME IInv, [Next]_vars
    PROVE  \/ link' = link
           \/ \E r \in Requests : Commit(r)
           \/ \E e \in Entities : DeleteMapping(e)
           \/ \E e \in Entities, k \in Keys, d \in Directions : CreateMapping(e, k, d)
<1>1. CASE UNCHANGED vars
  BY <1>1 DEF vars, database
<1>2. CASE Next
  <2>1. ASSUME NEW r \in Requests, Begin(r) \/ Plain(r) PROVE link' = link
    BY <2>1, BeginKeepsInv, PlainKeepsInv
  <2>2. ASSUME NEW r \in Requests, Insert(r) PROVE link' = link
    BY <2>2 DEF Insert, Inside, database
  <2>3. CASE Others
    BY <2>3, OthersKeepInv
  <2> QED
    BY <1>2, <2>1, <2>2, <2>3, StepCases
<1> QED
  BY <1>1, <1>2

\* The fields of a row once the writes of a request are committed.
LEMMA CommitRow ==
    ASSUME IInv, NEW r \in Requests, Commit(r), NEW e \in Entities,
           e \notin DOMAIN req[r].writes.rows
    PROVE  /\ link'[e].state = IF e \in req[r].writes.gone THEN "gone" ELSE link[e].state
           /\ link'[e].key = link[e].key /\ link'[e].direction = link[e].direction
           /\ link'[e].rank = link[e].rank
           /\ link'[e].stamp = IF e \in DOMAIN req[r].writes.stamps
                               THEN req[r].writes.stamps[e] ELSE link[e].stamp
           /\ link'[e] \in [state : {link'[e].state}, key : {link'[e].key},
                            direction : {link'[e].direction},
                            stamp : {link'[e].stamp}, rank : {link'[e].rank}]
           /\ e \notin req[r].writes.gone /\ e \notin DOMAIN req[r].writes.stamps
              => link'[e] = link[e]
<1> DEFINE w == req[r].writes
           s == IF e \in w.gone THEN "gone" ELSE link[e].state
           t == IF e \in DOMAIN w.stamps THEN w.stamps[e] ELSE link[e].stamp
<1>1. link'[e] = [link[e] EXCEPT !.state = s, !.stamp = t]
  BY DEF Commit, LinkAfter
<1>2. link[e] \in [state : {link[e].state}, key : {link[e].key},
                   direction : {link[e].direction}, stamp : {link[e].stamp},
                   rank : {link[e].rank}]
  BY DEF IInv, LinkShape
<1>3. e \notin w.gone /\ e \notin DOMAIN w.stamps
      => s = link[e].state /\ t = link[e].stamp
  OBVIOUS
<1> HIDE DEF s, t
<1>4. /\ link'[e].state = s /\ link'[e].stamp = t /\ link'[e].key = link[e].key
      /\ link'[e].direction = link[e].direction /\ link'[e].rank = link[e].rank
      /\ link'[e] \in [state : {link'[e].state}, key : {link'[e].key},
                       direction : {link'[e].direction},
                       stamp : {link'[e].stamp}, rank : {link'[e].rank}]
      /\ s = link[e].state /\ t = link[e].stamp => link'[e] = link[e]
  BY <1>1, <1>2
<1> QED
  BY <1>3, <1>4 DEF s, t

LEMMA LinksFit ==
    ASSUME TInv, [Next]_vars, NEW e \in Entities
    PROVE  link'[e] = NoLink \/ RowFits(link'[e], clock')
<1>1. /\ IInv /\ clock \in Nat /\ clock' \in Nat /\ clock =< clock'
  BY ClockTicks DEF TInv, TrackerFits, SInv, DInv
<1>2. link[e] = NoLink \/ RowFits(link[e], clock')
  BY <1>1, FitsLonger DEF TInv, TablesFit
<1>3. CASE link' = link
  BY <1>2, <1>3
<1>4. ASSUME NEW r \in Requests, Commit(r)
      PROVE  link'[e] = NoLink \/ RowFits(link'[e], clock')
  <2> DEFINE w == req[r].writes
  <2>1. WritesFit(w, clock')
    BY <1>1, FitsLonger DEF TInv, Fits
  <2>2. /\ \A f \in w.gone : Linked(f, link)
        /\ \A f \in DOMAIN w.stamps : Linked(f, link)
    BY DEF TInv, SInv, Told, Erased, Marked
  <2>3. CASE e \in DOMAIN w.rows
    BY <1>1, <1>4, <2>1, <2>3, CommitLinks DEF Committed, WritesFit
  <2>4. CASE e \notin DOMAIN w.rows
    <3>1. CASE e \in w.gone \/ e \in DOMAIN w.stamps
      <4>1. link[e].state # "none"
        BY <2>2, <3>1 DEF Linked
      <4>2. RowFits(link[e], clock')
        BY <1>2, <4>1 DEF NoLink
      <4>3. /\ link[e].state \in {"live", "gone"} /\ link[e].key \in Keys
            /\ link[e].direction \in Directions /\ link[e].rank \in Nat
            /\ link[e].stamp \in Nat /\ link[e].stamp =< clock'
        BY <4>2 DEF RowFits, Row
      <4>4. link'[e].stamp \in Nat /\ link'[e].stamp =< clock'
        BY <1>1, <1>4, <2>1, <2>4, <4>3, CommitRow DEF WritesFit
      <4>5. /\ link'[e].state \in {"live", "gone"} /\ link'[e].key \in Keys
            /\ link'[e].direction \in Directions /\ link'[e].rank \in Nat
            /\ link'[e] \in [state : {link'[e].state}, key : {link'[e].key},
                             direction : {link'[e].direction},
                             stamp : {link'[e].stamp}, rank : {link'[e].rank}]
        BY <1>1, <1>4, <2>4, <4>3, CommitRow
      <4> QED
        BY <4>4, <4>5 DEF RowFits, Row
    <3>2. CASE e \notin w.gone /\ e \notin DOMAIN w.stamps
      BY <1>1, <1>2, <1>4, <2>4, <3>2, CommitRow
    <3> QED
      BY <3>1, <3>2
  <2> QED
    BY <2>3, <2>4
<1>5. ASSUME NEW f \in Entities, DeleteMapping(f)
      PROVE  link'[e] = NoLink \/ RowFits(link'[e], clock')
  <2>1. link' = [link EXCEPT ![f].state = "gone"] /\ link[f].state = "live"
    BY <1>5 DEF DeleteMapping, Live
  <2>2. CASE e = f
    <3>1. RowFits(link[e], clock')
      BY <1>2, <2>1, <2>2 DEF NoLink
    <3>2. link'[e] = [link[e] EXCEPT !.state = "gone"]
      BY <1>1, <2>1, <2>2 DEF IInv, LinkShape
    <3>3. link'[e].stamp = link[e].stamp
      BY <3>1, <3>2 DEF RowFits, Row
    <3> QED
      BY <3>1, <3>2, <3>3 DEF RowFits, Row
  <2>3. CASE e # f
    BY <1>2, <2>1, <2>3
  <2> QED
    BY <2>2, <2>3
<1>6. ASSUME NEW f \in Entities, NEW k \in Keys, NEW d \in Directions, CreateMapping(f, k, d)
      PROVE  link'[e] = NoLink \/ RowFits(link'[e], clock')
  <2> DEFINE row == [state |-> "live", key |-> k, direction |-> d,
                     stamp |-> NoStamp, rank |-> clock]
  <2>1. link' = [link EXCEPT ![f] = row]
    BY <1>6 DEF CreateMapping
  <2>2. row \in Row /\ row.stamp =< clock'
    BY <1>1 DEF Row, NoStamp
  <2> HIDE DEF row
  <2>3. RowFits(row, clock')
    BY <2>2 DEF RowFits
  <2> QED
    BY <1>1, <1>2, <2>1, <2>3 DEF IInv, LinkShape
<1> QED
  BY <1>1, <1>3, <1>4, <1>5, <1>6, LinkSteps

LEMMA NamesFit ==
    ASSUME TInv, [Next]_vars
    PROVE  name' \in [Entities -> 0 .. clock']
<1>1. /\ clock \in Nat /\ clock' \in Nat /\ 0 .. clock \subseteq 0 .. clock'
      /\ name \in [Entities -> 0 .. clock']
  BY ClockTicks DEF TInv, TrackerFits, TablesFit
<1>2. CASE name' = name
  BY <1>1, <1>2
<1>3. ASSUME NEW e \in Entities, Rename(e), name' = [name EXCEPT ![e] = clock + 1]
      PROVE  name' \in [Entities -> 0 .. clock']
  <2>1. clock' = clock + 1
    BY <1>3 DEF Rename
  <2>2. clock + 1 \in 0 .. clock'
    BY <1>1, <2>1
  <2> QED
    BY <1>1, <1>3, <2>2
<1>4. ASSUME NEW r \in Requests, name' = Overlay(name, req[r].writes.names)
      PROVE  name' \in [Entities -> 0 .. clock']
  <2>1. \A e \in DOMAIN req[r].writes.names : req[r].writes.names[e] \in 0 .. clock'
    BY <1>1 DEF TInv, Fits, WritesFit
  <2> QED
    BY <1>1, <1>4, <2>1 DEF Overlay
<1> QED
  BY <1>2, <1>3, <1>4, NameSteps DEF vars, database

\* Progress changes by its user's hand, or by a commit.
LEMMA PercentSteps ==
    ASSUME [Next]_vars
    PROVE  \/ percent' = percent
           \/ \E e \in Activities, p \in Percents :
                 Progress(e, p) /\ percent' = [percent EXCEPT ![e] = p]
           \/ \E r \in Requests :
                 Commit(r) /\ percent' = Overlay(percent, req[r].writes.percents)
<1>1. CASE \E r \in Requests : Begin(r)
  BY <1>1 DEF Begin, StartPush, StartPull, StartProgress, Start, StartAlert, ReceiveHook,
              database
<1>2. CASE \E r \in Requests : RequestStep(r) /\ ~Commit(r)
  BY <1>2 DEF RequestStep, Create, Insert, Update, Touch, Fetch, Read, Write, Stamp, Drop,
              Aim, Compare, Transition, Victim, Fault, Inside, Quietly, database
<1>3. CASE \E r \in Requests : Commit(r)
  BY <1>3 DEF Commit
<1>4. CASE \E e \in Activities, p \in Percents : Progress(e, p)
  BY <1>4 DEF Progress
<1>5. CASE UNCHANGED vars
  BY <1>5 DEF vars, database
<1>6. CASE \E h \in hooks : IgnoreHook(h)
  BY <1>6 DEF IgnoreHook, database
<1>7. CASE Users /\ ~\E e \in Activities, p \in Percents : Progress(e, p)
  BY <1>7 DEF Users, UserCreatesIssue, UserRetitlesIssue, UserMovesIssue, UserErasesIssue,
              Connect, SwitchSync, DeleteIntegration, Rename, Remove, DeleteMapping,
              CreateMapping, database
<1> QED
  BY <1>1, <1>2, <1>3, <1>4, <1>5, <1>6, <1>7 DEF Next

LEMMA PercentsFit ==
    ASSUME TInv, [Next]_vars
    PROVE  percent' \in [Activities -> Percents]
<1>1. percent \in [Activities -> Percents]
  BY DEF TInv, TablesFit
<1>2. ASSUME NEW r \in Requests, percent' = Overlay(percent, req[r].writes.percents)
      PROVE  percent' \in [Activities -> Percents]
  <2>1. \A e \in DOMAIN req[r].writes.percents : req[r].writes.percents[e] \in Percents
    BY DEF TInv, Fits, WritesFit
  <2> QED
    BY <1>1, <1>2, <2>1 DEF Overlay
<1> QED
  BY <1>1, <1>2, PercentSteps

\* The rest of the tables, the budgets and the history.
LEMMA RestFits ==
    ASSUME TInv, [Next]_vars
    PROVE  /\ integration' \in {"absent", "on", "off", "deleted"} /\ alive' \subseteq Entities
           /\ budget' \in [Events -> Nat]
           /\ trouble' \subseteq {"fault", "unlink", "overlap", "pushes", "victim"}
<1> DEFINE Troubles == {"fault", "unlink", "overlap", "pushes", "victim"}
           Spent == budget' = budget \/ \E what : Spend(what)
           Kept == UNCHANGED <<integration, alive>>
           Tabled == /\ integration' \in {"absent", "on", "off", "deleted"}
                     /\ alive' \subseteq Entities
<1>1. CASE UNCHANGED vars
  BY <1>1 DEF vars, database, TInv, TablesFit
<1>2. ASSUME Next PROVE Spent /\ Tabled /\ trouble' \subseteq Troubles
  <2>0. /\ integration \in {"absent", "on", "off", "deleted"} /\ alive \subseteq Entities
        /\ trouble \subseteq Troubles
    BY DEF TInv, TablesFit
  <2>1. ASSUME NEW r \in Requests, Begin(r) PROVE Spent /\ Kept /\ trouble' \subseteq Troubles
    BY <2>0, <2>1 DEF Begin, StartPush, StartPull, StartProgress, Start, StartAlert,
                      ReceiveHook, Beside, database
  <2>2. ASSUME NEW r \in Requests, RequestStep(r)
        PROVE  Spent /\ Kept /\ trouble' \subseteq Troubles
    <3>1. CASE Create(r) \/ Update(r) \/ Transition(r) \/ Fetch(r) \/ Compare(r)
      BY <2>0, <3>1 DEF Create, Update, Transition, Fetch, Compare, Fault, Inside, Quietly,
                        database
    <3>2. CASE \/ Insert(r) \/ Touch(r) \/ Read(r) \/ Write(r) \/ Stamp(r) \/ Drop(r)
               \/ Aim(r) \/ Victim(r) \/ Commit(r)
      BY <2>0, <3>2 DEF Insert, Touch, Read, Write, Stamp, Drop, Aim, Victim, Commit, Inside,
                        database
    <3> QED
      BY <2>2, <3>1, <3>2 DEF RequestStep
  <2>3. CASE \E h \in hooks : IgnoreHook(h)
    BY <2>0, <2>3 DEF IgnoreHook, database
  <2>4. CASE Users
    <3>1. CASE \/ UserCreatesIssue
               \/ \E k \in Keys :
                     UserRetitlesIssue(k) \/ UserMovesIssue(k) \/ UserErasesIssue(k)
      BY <2>0, <3>1 DEF UserCreatesIssue, UserRetitlesIssue, UserMovesIssue,
                        UserErasesIssue, database
    <3>2. CASE Connect \/ SwitchSync \/ DeleteIntegration
      BY <2>0, <3>2 DEF Connect, SwitchSync, DeleteIntegration
    <3>3. CASE \/ \E e \in Entities : Rename(e) \/ Remove(e) \/ DeleteMapping(e)
               \/ \E e \in Activities, p \in Percents : Progress(e, p)
      BY <2>0, <3>3 DEF Rename, Remove, DeleteMapping, Progress
    <3>4. CASE \E e \in Entities, k \in Keys, d \in Directions : CreateMapping(e, k, d)
      BY <2>0, <3>4 DEF CreateMapping, Beside
    <3> QED
      BY <2>4, <3>1, <3>2, <3>3, <3>4 DEF Users
  <2> QED
    BY <1>2, <2>0, <2>1, <2>2, <2>3, <2>4 DEF Next
<1>3. budget \in [Events -> Nat]
  BY DEF TInv
<1>4. Spent => budget' \in [Events -> Nat]
  BY <1>3 DEF Spend
<1> QED
  BY <1>1, <1>2, <1>3, <1>4 DEF vars

LEMMA InitTInv == Init => TInv
<1> SUFFICES ASSUME Init PROVE TInv
  OBVIOUS
<1>1. SInv
  BY InitSInv
<1>2. clock = 1 /\ hooks = {} /\ (\A r \in Requests : req[r] = Idle) /\ 0 \in 0 .. 1 /\ 1 \in 0 .. 1
  BY DEF Init
<1>3. TrackerFits
  <2>1. IssueFits(NoIssue, 1)
    BY <1>2 DEF IssueFits, NoIssue, Statuses
  <2> QED
    BY <1>2, <2>1 DEF Init, TrackerFits
<1>4. TablesFit
  BY <1>2 DEF Init, TablesFit, Percents
<1>5. \A r \in Requests : Course(req[r]) /\ Fits(req[r], clock) /\ Marked(req[r], link)
  <2>1. Marked(Idle, link)
    BY DEF Marked, Idle, NoWrites
  <2> QED
    BY <1>2, <2>1, NothingFits DEF Course
<1>6. budget \in [Events -> Nat] /\ trouble = {}
  BY BudgetsAssumption DEF Init
<1> QED
  BY <1>1, <1>3, <1>4, <1>5, <1>6 DEF TInv

LEMMA NextTInv == TInv /\ [Next]_vars => TInv'
<1> SUFFICES ASSUME TInv, [Next]_vars PROVE TInv'
  OBVIOUS
<1>1. SInv /\ SInv' /\ IInv /\ IInv' /\ Lasts(link, link')
  BY NextSInv, LinksLast DEF TInv, SInv, DInv
<1>2. TrackerFits'
  BY TrackerKept
<1>3. TablesFit'
  <2>1. \A e \in Entities : link'[e] = NoLink \/ RowFits(link'[e], clock')
    BY LinksFit
  <2> QED
    BY <2>1, NamesFit, PercentsFit, RestFits DEF TablesFit
<1>4. \A r \in Requests : Course(req'[r]) /\ Fits(req'[r], clock') /\ Marked(req'[r], link)
  <2>1. \A s \in Requests : Course(req[s]) /\ Fits(req[s], clock') /\ Marked(req[s], link)
    BY ClockTicks, FitsLonger DEF TInv, TrackerFits
  <2>2. CASE req' = req
    BY <2>1, <2>2
  <2>3. ASSUME NEW r \in Requests, NEW p, req' = [req EXCEPT ![r] = p],
               Begun(p) \/ Turn(p, req[r])
        PROVE  \A s \in Requests :
                   Course(req'[s]) /\ Fits(req'[s], clock') /\ Marked(req'[s], link)
    <3>1. Course(p) /\ Fits(p, clock') /\ Marked(p, link)
      <4>1. CASE Begun(p)
        BY <4>1, BegunCourse, BegunFits, BegunMarked DEF TInv
      <4>2. CASE Turn(p, req[r])
        <5>1. clock' \in Nat /\ clock =< clock' /\ (clock' = clock + 1 => clock + 1 =< clock')
          BY ClockTicks DEF TInv, TrackerFits
        <5>2. CreatedOne(p, req[r]) => clock' = clock + 1
          BY DEF CreatedOne, NewIssue
        <5> QED
          BY <2>1, <4>2, <5>1, <5>2, TurnCourse, TurnFits, TurnMarked
      <4> QED
        BY <2>3, <4>1, <4>2
    <3>2. \A s \in Requests : req'[s] = p \/ req'[s] = req[s]
      BY <2>3, <1>1 DEF IInv, RequestShape
    <3> QED
      BY <2>1, <3>1, <3>2
  <2> QED
    BY <1>1, <2>2, <2>3, RequestsForm
<1>5. \A r \in Requests : Marked(req'[r], link')
  BY <1>1, <1>4 DEF Marked, Linked, Lasts
<1> QED
  BY <1>1, <1>2, <1>3, <1>4, <1>5, RestFits DEF TInv

LEMMA TypesAlways == Spec => []TInv
BY InitTInv, NextTInv, PTL DEF Spec

LEMMA PartsTyped ==
    ASSUME TInv, NEW r \in Requests
    PROVE  RequestOK(req[r])
<1> DEFINE q == req[r]
<1>1. Shape(q) /\ Course(q) /\ Fits(q, clock)
  BY Here DEF TInv, SInv
<1>2. /\ IsPartial(q.plan, Entities) /\ (\A e \in DOMAIN q.plan : q.plan[e] \in ItemType)
      /\ q.got.key \in Keys \cup {NoKey} /\ q.tries \in 0 .. (MaxRetries - 1)
      /\ IsPartial(q.writes.rows, Entities)
      /\ (\A e \in DOMAIN q.writes.rows : q.writes.rows[e] \in Row)
      /\ q.locks \subseteq {"link", "entity"} \X Entities
  BY <1>1 DEF Fits, PlanFits, GotFits, WritesFit, RowFits
<1>3. q = [pc |-> q.pc, kind |-> q.kind, plan |-> q.plan, here |-> q.here,
           began |-> q.began, got |-> q.got, tries |-> q.tries, writes |-> q.writes,
           locks |-> q.locks]
  BY <1>1 DEF Shape
<1>4. /\ q.pc \in {"idle", "create", "insert", "update", "touch", "fetch", "read",
                   "write", "stamp", "drop", "aim", "compare", "transition", "commit"}
      /\ q.here \in Entities \cup {"nobody", "variance"}
  <2>1. Idle.pc = "idle" /\ Idle.here = "nobody"
    BY DEF Idle
  <2> QED
    BY <1>1, <1>2, <2>1 DEF Course, IsPartial
<1> HIDE DEF q
<1> QED
  BY <1>2, <1>3, <1>4 DEF RequestOK, q

\* The state of the exchange keeps its types: the rows those of the mapping
\* table, the requests a step that their kind has, and no time is ever later
\* than the clock, whoever calls what, however often calls fail.
THEOREM TypesHold == Spec => []TypeOK
<1>1. TInv => TypeOK
  <2> SUFFICES ASSUME TInv PROVE TypeOK
    OBVIOUS
  <2>1. clock \in Nat /\ 0 .. clock \subseteq Nat
    BY DEF TInv, TrackerFits
  <2>2. DOMAIN link = Entities
    BY DEF TInv, SInv, DInv, IInv, LinkShape
  <2>3. /\ integration \in {"absent", "on", "off", "deleted"}
        /\ (\A e \in Entities : link[e] = NoLink \/ link[e] \in Row)
        /\ name \in [Entities -> Nat] /\ percent \in [Activities -> Percents]
        /\ alive \subseteq Entities
    BY <2>1 DEF TInv, TablesFit, RowFits
  <2>4. /\ \A k \in Keys : issue[k].status \in Statuses /\ issue[k].updated =< clock
        /\ \A h \in hooks : h.key \in Created /\ h.at =< clock
    BY <2>1 DEF TInv, TrackerFits, IssueFits, HookFits
  <2>5. trouble \subseteq {"fault", "unlink", "overlap", "pushes", "victim"}
    BY DEF TInv
  <2> QED
    BY <2>2, <2>3, <2>4, <2>5, PartsTyped DEF TypeOK
<1> QED
  BY <1>1, TypesAlways, PTL

-----------------------------------------------------------------------------
(***************************************************************************)
(* The synchronisation comes to rest. Once an activity and its issue       *)
(* agree, s is the status that both have, and nothing that a request does  *)
(* by itself brings another one.                                           *)
(***************************************************************************)
Restful(q, e, s) ==
    /\ q.here = e => q.got.status \in {NoStatus, s}
    /\ e \in DOMAIN q.writes.percents => StatusOf(q.writes.percents[e]) = s

LEMMA SettledLink ==
    ASSUME TInv, NEW e \in Activities, Settled(e)
    PROVE  /\ e \in Entities /\ link[e].key \in Keys /\ Linked(e, link)
           /\ issue[link[e].key].state = "open"
           /\ issue[link[e].key].status = StatusOf(percent[e])
           /\ percent[e] \in Percents
           /\ \A r \in Requests : Restful(req[r], e, issue[link[e].key].status)
BY DEF Settled, Live, Open, Quiet, Restful, Entities, Linked, TInv, SInv, DInv, IInv,
       LinkShape, TablesFit

\* The user's hand leaves a trace in the budgets.
LEMMA NotByHand ==
    ASSUME TInv, \A what \in ByHand : budget'[what] = budget[what]
    PROVE  /\ \A e, p : ~Progress(e, p)
           /\ \A k : ~UserMovesIssue(k) /\ ~UserErasesIssue(k)
           /\ \A e : ~DeleteMapping(e)
<1>1. ASSUME NEW what \in ByHand, Spend(what) PROVE FALSE
  <2>1. what \in Events /\ budget \in [Events -> Nat]
    BY DEF ByHand, Events, TInv
  <2>2. budget'[what] = budget[what] - 1 /\ budget[what] \in Nat
    BY <1>1, <2>1 DEF Spend
  <2> QED
    BY <2>2
<1> QED
  BY <1>1 DEF ByHand, Progress, UserMovesIssue, UserErasesIssue, DeleteMapping

\* A request that transitions an issue, or fetches it, is about its entity.
LEMMA ItemOf ==
    ASSUME TInv, NEW e \in Entities, Linked(e, link), NEW r \in Requests,
           req[r].pc \in {"fetch", "transition"}, Item1(req[r]).key = link[e].key
    PROVE  req[r].here = e
<1>1. req[r].here \in DOMAIN req[r].plan /\ req[r].kind \in {"pull", "sync"}
  BY DEF TInv, Course, Idle
<1>2. Linked(req[r].here, link) /\ Item1(req[r]).key = link[req[r].here].key
  BY <1>1, ItemKnown
<1> QED
  BY <1>2 DEF TInv, SInv, DInv, KeysDiffer, Linked

LEMMA IssueStaysSettled ==
    ASSUME TInv, [Next]_vars, NEW e \in Activities, Settled(e),
           \A what \in ByHand : budget'[what] = budget[what]
    PROVE  LET k == link[e].key
           IN  /\ issue'[k].state = "open" /\ issue'[k].status = issue[k].status
               /\ \A h \in hooks' : h.key = k => h.status \in {NoStatus, issue[k].status}
<1> DEFINE k == link[e].key
           s == issue[k].status
           Rests == /\ issue'[k].state = "open" /\ issue'[k].status = s
                    /\ \A h \in hooks' : h.key = k => h.status \in {NoStatus, s}
<1>1. /\ IInv /\ IssueShape /\ e \in Entities /\ Linked(e, link) /\ k \in Keys
      /\ issue[k].state = "open"
      /\ \A h \in hooks : h.key = k => h.status \in {NoStatus, s}
      /\ \A r \in Requests : Restful(req[r], e, s)
  BY SettledLink DEF TInv, SInv, DInv, IInv, Settled, Quiet
<1> SUFFICES Rests
  OBVIOUS
<1> HIDE DEF k
<1>2. CASE TrackerLeft
  BY <1>1, <1>2 DEF TrackerLeft
<1>3. ASSUME NEW owner, NEW text, NewIssue(owner, text) PROVE Rests
  <2> DEFINE n == [event |-> "created", key |-> NextKey, summary |-> text,
                   status |-> NoStatus, at |-> clock + 1]
  <2>1. hooks' = hooks \cup {n} /\ n.status = NoStatus
    BY <1>3 DEF NewIssue
  <2> HIDE DEF n
  <2>2. issue'[k] = issue[k]
    BY <1>1, <1>3, NewForm
  <2> QED
    BY <1>1, <2>1, <2>2
<1>4. ASSUME NEW j, NEW text, NEW t, EditIssue(j, text, t), j = k => t = s PROVE Rests
  <2> DEFINE n == [event |-> "updated", key |-> j, summary |-> text,
                   status |-> IF t = issue[j].status THEN NoStatus ELSE t,
                   at |-> clock + 1]
  <2>1. hooks' = hooks \cup {n} /\ n.key = j /\ (j = k => n.status = NoStatus)
    BY <1>4 DEF EditIssue
  <2> HIDE DEF n
  <2>2. issue'[k].state = issue[k].state /\ issue'[k].status = s
    BY <1>1, <1>4, EditForm
  <2> QED
    BY <1>1, <2>1, <2>2
<1>5. ASSUME NEW r \in Requests, req[r].pc = "transition",
             EditIssue(Item1(req[r]).key, issue[Item1(req[r]).key].summary, req[r].got.status)
      PROVE  Rests
  <2>1. Item1(req[r]).key = k => req[r].got.status = s
    <3>1. req[r].got.status \in Statuses
      BY <1>5 DEF TInv, Fits
    <3>2. NoStatus \notin Statuses
      BY DEF NoStatus, Statuses
    <3> QED
      BY <1>1, <1>5, <3>1, <3>2, ItemOf DEF Restful, k
  <2> QED
    BY <1>4, <1>5, <2>1
<1>6. ASSUME NEW j \in Keys, UserRetitlesIssue(j) PROVE Rests
  BY <1>4, <1>6 DEF UserRetitlesIssue
<1> QED
  BY <1>2, <1>3, <1>4, <1>5, <1>6, NotByHand, TrackerForm DEF TrackerStep

LEMMA LinkStaysSettled ==
    ASSUME TInv, [Next]_vars, NEW e \in Activities, Settled(e),
           \A what \in ByHand : budget'[what] = budget[what]
    PROVE  link'[e].state = "live" /\ link'[e].key = link[e].key
<1>1. IInv /\ e \in Entities /\ Linked(e, link) /\ link[e].state = "live"
      /\ issue[link[e].key].state = "open"
  BY SettledLink DEF TInv, SInv, DInv, Settled, Live
<1>2. ASSUME NEW r \in Requests, Commit(r)
      PROVE  link'[e].state = "live" /\ link'[e].key = link[e].key
  <2>1. e \notin req[r].writes.gone
    BY <1>1 DEF TInv, SInv, Told, Erased
  <2>2. e \notin DOMAIN req[r].writes.rows
    BY <1>1 DEF IInv, RowsPending
  <2> QED
    BY <1>1, <1>2, <2>1, <2>2, CommitRow
<1>3. ASSUME NEW f \in Entities, NEW k \in Keys, NEW d \in Directions, CreateMapping(f, k, d)
      PROVE  link'[e] = link[e]
  BY <1>1, <1>3 DEF CreateMapping, LinkAllowed
<1> QED
  BY <1>1, <1>2, <1>3, NotByHand, LinkSteps

LEMMA PercentStaysSettled ==
    ASSUME TInv, [Next]_vars, NEW e \in Activities, Settled(e),
           \A what \in ByHand : budget'[what] = budget[what]
    PROVE  StatusOf(percent'[e]) = issue[link[e].key].status
<1>1. /\ StatusOf(percent[e]) = issue[link[e].key].status
      /\ \A r \in Requests : Restful(req[r], e, issue[link[e].key].status)
  BY SettledLink
<1>2. DOMAIN percent = Activities
  BY DEF TInv, TablesFit
<1> QED
  BY <1>1, <1>2, NotByHand, PercentSteps DEF Overlay, Restful

LEMMA BegunRestful ==
    ASSUME TInv, NEW e \in Activities, Settled(e), NEW p, Begun(p)
    PROVE  Restful(p, e, issue[link[e].key].status)
<1>1. CASE BegunPush(p) \/ BegunPull(p)
  <2>1. p.got = Nothing /\ p.writes = NoWrites
    BY <1>1 DEF BegunPush, BegunPull, Planned, AtFirst
  <2> QED
    BY <2>1 DEF Restful, Nothing, NoWrites
<1>2. CASE BegunAlert(p)
  <2>1. p.got = Nothing /\ p.writes = NoWrites
    BY <1>2 DEF BegunAlert, Idle
  <2> QED
    BY <2>1 DEF Restful, Nothing, NoWrites
<1>3. CASE BegunHook(p)
  <2>1. PICK h \in hooks, f \in Entities :
            link[f].key = h.key /\ p = HookRequest(h, f)
    BY <1>3 DEF BegunHook, Target
  <2>2. p.here = f /\ p.got.status = h.status /\ p.writes = NoWrites
    BY <2>1, HookFields
  <2>3. f = e => h.status \in {NoStatus, issue[link[e].key].status}
    BY <2>1 DEF Settled, Quiet
  <2> QED
    BY <2>2, <2>3 DEF Restful, NoWrites
<1> QED
  BY <1>1, <1>2, <1>3 DEF Begun

LEMMA StatusTable ==
    /\ \A p \in {100} : StatusOf(p) = "Done"
    /\ \A p \in {0} : StatusOf(p) = "To Do"
    /\ \A p \in {30, 50, 75} : StatusOf(p) = "In Progress"
BY DEF StatusOf

\* What a request reads into an activity that agrees with its issue.
LEMMA ReadAgrees ==
    ASSUME TInv, NEW q, q.here \in Activities,
           q.got.status \in {NoStatus, StatusOf(percent[q.here])}
    PROVE  StatusOf(NewPercent(q)) = StatusOf(percent[q.here])
<1>1. percent[q.here] \in Percents
  BY DEF TInv, TablesFit
<1>2. CASE q.got.status = NoStatus
  BY <1>2 DEF NewPercent, HookPercent, PullPercent, NoStatus
<1>3. CASE q.got.status # NoStatus
  <2>1. q.got.status = StatusOf(percent[q.here])
    BY <1>3
  <2>2. CASE percent[q.here] \in {100}
    <3>1. q.got.status = "Done"
      BY <2>1, <2>2, StatusTable
    <3> QED
      BY <2>2, <3>1 DEF NewPercent, HookPercent, PullPercent, PercentOf, NoStatus
  <2>3. CASE percent[q.here] \in {0}
    <3>1. q.got.status = "To Do"
      BY <2>1, <2>3, StatusTable
    <3> QED
      BY <2>3, <3>1 DEF NewPercent, HookPercent, PullPercent, PercentOf, NoStatus
  <2>4. CASE percent[q.here] \in {30, 50, 75}
    <3>1. q.got.status = "In Progress"
      BY <2>1, <2>4, StatusTable
    <3>2. NewPercent(q) \in {percent[q.here], 50}
      BY <2>4, <3>1 DEF NewPercent, HookPercent, PullPercent, PercentOf, NoStatus
    <3> QED
      BY <2>4, <3>2, StatusTable
  <2> QED
    BY <1>1, <2>2, <2>3, <2>4 DEF Percents
<1> QED
  BY <1>2, <1>3

LEMMA TurnRestful ==
    ASSUME TInv, NEW e \in Activities, Settled(e), NEW r \in Requests, NEW p, Turn(p, req[r])
    PROVE  Restful(p, e, issue[link[e].key].status)
<1> DEFINE q == req[r]
           s == issue[link[e].key].status
<1>1. /\ Shape(q) /\ Restful(q, e, s) /\ Course(q) /\ Fits(q, clock)
      /\ e \in Entities /\ Linked(e, link) /\ s = StatusOf(percent[e])
  BY Here, SettledLink DEF TInv, SInv
<1> SUFFICES Restful(p, e, s)
  OBVIOUS
<1> HIDE DEF s
<1>2. ASSUME NEW writes, NEW locks, Past(p, q, writes, locks),
             writes.percents = q.writes.percents
      PROVE  Restful(p, e, s)
  <2>1. p.got = Nothing /\ p.writes = writes
    BY <1>2 DEF Past, AtFirst
  <2> QED
    BY <1>1, <1>2, <2>1 DEF Restful, Nothing
<1>3. ASSUME NEW pc, NEW tries, NEW got, NEW writes, NEW locks,
             Onto(p, q, pc, tries, got, writes, locks),
             writes.percents = q.writes.percents,
             q.here = e => got.status \in {NoStatus, s}
      PROVE  Restful(p, e, s)
  BY <1>1, <1>3 DEF Onto, Restful
<1>4. q.here = e => q.got.status \in {NoStatus, s}
  BY <1>1 DEF Restful
<1>5. CASE Passed(p, q) \/ Touched(p, q)
  BY <1>2, <1>5 DEF Passed, Touched
<1>6. CASE Inserted(p, q)
  <2>1. \A f : [q.writes EXCEPT !.rows = f].percents = q.writes.percents
    BY <1>1 DEF Shape
  <2> QED
    BY <1>2, <1>6, <2>1 DEF Inserted
<1>7. CASE Dropped(p, q)
  <2>1. [q.writes EXCEPT !.gone = @ \cup {q.here}].percents = q.writes.percents
    BY <1>1 DEF Shape
  <2> QED
    BY <1>2, <1>7, <2>1 DEF Dropped
<1>8. CASE Stamped(p, q)
  <2> DEFINE w == [q.writes EXCEPT !.stamps = With(@, q.here, q.got.at)]
  <2>1. w.percents = q.writes.percents
    BY <1>1 DEF Shape
  <2>2. \/ Onto(p, q, "read", q.tries, q.got, w, q.locks \cup {Mine(q)})
        \/ Past(p, q, w, q.locks \cup {Mine(q)})
    BY <1>8 DEF Stamped
  <2> HIDE DEF w
  <2> QED
    BY <1>2, <1>3, <1>4, <2>1, <2>2
<1>9. CASE Retried(p, q) \/ Called(p, q) \/ Written(p, q)
  BY <1>2, <1>3, <1>4, <1>9 DEF Retried, Called, Written
<1>10. CASE CreatedOne(p, q)
  <2> DEFINE got == [q.got EXCEPT !.key = NextKey, !.at = clock + 1]
  <2>1. got.status = q.got.status
    BY <1>1 DEF Shape
  <2>2. Onto(p, q, "insert", 0, got, q.writes, q.locks)
    BY <1>10 DEF CreatedOne
  <2> HIDE DEF got
  <2> QED
    BY <1>3, <1>4, <2>1, <2>2
<1>11. CASE Fetched(p, q)
  <2> DEFINE seen == issue[q.plan[q.here].key]
             got == [q.got EXCEPT !.summary = seen.summary, !.status = seen.status,
                                  !.at = seen.updated]
  <2>1. got.status = seen.status
    BY <1>1 DEF Shape
  <2>2. q.here = e => seen.status = s
    <3>1. q.kind = "pull" /\ q.here \in DOMAIN q.plan
      BY <1>1, <1>11 DEF Fetched, Course, Idle
    <3> QED
      BY <3>1, ItemKnown DEF Item1, s
  <2>3. Onto(p, q, "read", 0, got, q.writes, q.locks)
    BY <1>11 DEF Fetched
  <2> HIDE DEF got, seen
  <2> QED
    BY <1>3, <2>1, <2>2, <2>3
<1>12. CASE Aimed(p, q)
  <2> DEFINE got == [q.got EXCEPT !.status = StatusOf(percent[q.here])]
  <2>1. got.status = StatusOf(percent[q.here])
    BY <1>1 DEF Shape
  <2>2. Onto(p, q, "compare", q.tries, got, q.writes, q.locks)
    BY <1>12 DEF Aimed
  <2> HIDE DEF got
  <2> QED
    BY <1>1, <1>3, <2>1, <2>2
<1>13. CASE WasRead(p, q)
  <2> DEFINE names == IF q.got.summary # name[q.here]
                      THEN With(q.writes.names, q.here, q.got.summary) ELSE q.writes.names
             percents == IF q.here \in Activities /\ NewPercent(q) # percent[q.here]
                         THEN With(q.writes.percents, q.here, NewPercent(q))
                         ELSE q.writes.percents
             w == [q.writes EXCEPT !.names = names, !.percents = percents]
  <2>1. Onto(p, q, "write", q.tries, q.got, w, q.locks)
    BY <1>13 DEF WasRead
  <2>2. e \in DOMAIN percents => StatusOf(percents[e]) = s
    <3>1. CASE q.here = e /\ NewPercent(q) # percent[q.here]
      <4>1. StatusOf(NewPercent(q)) = s
        BY <1>1, <1>4, <3>1, ReadAgrees
      <4>2. percents = With(q.writes.percents, q.here, NewPercent(q))
        BY <3>1
      <4>3. percents[e] = NewPercent(q)
        BY <3>1, <4>2 DEF With
      <4> QED
        BY <4>1, <4>3
    <3>2. CASE ~(q.here = e /\ NewPercent(q) # percent[q.here])
      <4>1. e \in DOMAIN percents =>
                e \in DOMAIN q.writes.percents /\ percents[e] = q.writes.percents[e]
        BY <3>2 DEF With
      <4> QED
        BY <1>1, <4>1 DEF Restful
    <3> QED
      BY <3>1, <3>2
  <2> HIDE DEF names, percents
  <2>3. w.percents = percents
    BY <1>1 DEF Shape
  <2> HIDE DEF w
  <2> QED
    BY <1>4, <2>1, <2>2, <2>3 DEF Onto, Restful
<1>14. CASE p = Idle
  BY <1>14 DEF Idle, Nothing, NoWrites, Restful
<1> QED
  BY <1>5, <1>6, <1>7, <1>8, <1>9, <1>10, <1>11, <1>12, <1>13, <1>14 DEF Turn

LEMMA StepStaysSettled ==
    ASSUME TInv, [Next]_vars, NEW e \in Activities, Settled(e),
           \A what \in ByHand : budget'[what] = budget[what]
    PROVE  Settled(e)'
<1> DEFINE k == link[e].key
           s == issue[k].status
<1>1. link'[e].state = "live" /\ link'[e].key = k
  BY LinkStaysSettled
<1>2. /\ issue'[k].state = "open" /\ issue'[k].status = s
      /\ \A h \in hooks' : h.key = k => h.status \in {NoStatus, s}
  BY IssueStaysSettled
<1>3. StatusOf(percent'[e]) = s
  BY PercentStaysSettled
<1>4. \A r \in Requests : Restful(req'[r], e, s)
  <2>1. IInv /\ \A r \in Requests : Restful(req[r], e, s)
    BY SettledLink DEF TInv, SInv, DInv
  <2>2. ASSUME NEW r \in Requests, NEW p, req' = [req EXCEPT ![r] = p],
               Begun(p) \/ Turn(p, req[r])
        PROVE  \A t \in Requests : Restful(req'[t], e, s)
    <3>1. Restful(p, e, s)
      BY <2>2, BegunRestful, TurnRestful
    <3>2. \A t \in Requests : req'[t] = p \/ req'[t] = req[t]
      BY <2>1, <2>2 DEF IInv, RequestShape
    <3> QED
      BY <2>1, <3>1, <3>2
  <2> QED
    BY <2>1, <2>2, RequestsForm
<1> HIDE DEF s
<1>5. /\ \A h \in hooks' : h.key = link'[e].key =>
             h.status \in {NoStatus, issue'[h.key].status}
      /\ \A r \in Requests :
             /\ req'[r].here = e => req'[r].got.status \in {NoStatus, issue'[link'[e].key].status}
             /\ e \in DOMAIN req'[r].writes.percents =>
                   StatusOf(req'[r].writes.percents[e]) = issue'[link'[e].key].status
  BY <1>1, <1>2, <1>4 DEF Restful
<1> QED
  BY <1>1, <1>2, <1>3, <1>5 DEF Settled, Live, Open, Quiet

\* Once an activity and its issue agree and nothing under way says otherwise,
\* no push, pull, progress run or webhook, whatever they meet, makes them
\* disagree again: only a user does, by hand, on either side.
THEOREM SettlingLasts == Spec => SettledStaysSettled
<1>1. TInv /\ [Next]_vars =>
        [(\A what \in ByHand : budget'[what] = budget[what]) =>
            \A e \in Activities : Settled(e) => Settled(e)']_vars
  BY StepStaysSettled
<1> QED
  BY <1>1, TypesAlways, PTL DEF Spec, SettledStaysSettled

-----------------------------------------------------------------------------
(***************************************************************************)
(* The watermark of the pull. As long as requests do not overlap, a stamp  *)
(* that is the time of an issue's last change stands for a name at least   *)
(* as new as the issue's summary, in the rows and in what the one request  *)
(* at work is to write. i are the issues, l the links, n the names.        *)
(***************************************************************************)
Newer(i, k, at, text) == i[k].updated = at => text >= i[k].summary

NameAfter(n, e, w) == IF e \in DOMAIN w.names THEN w.names[e] ELSE n[e]

MarksWrites(q, i, l, n) ==
    /\ \A e \in DOMAIN q.writes.rows :
          Newer(i, q.writes.rows[e].key, q.writes.rows[e].stamp, n[e])
    /\ \A e \in DOMAIN q.writes.stamps :
          Newer(i, l[e].key, q.writes.stamps[e], NameAfter(n, e, q.writes))
    /\ \A e \in DOMAIN q.writes.names :
          e \in DOMAIN q.writes.stamps \/ (q.pc \in {"write", "stamp"} /\ q.here = e)
    /\ q.kind = "push" => DOMAIN q.writes.names = {} /\ DOMAIN q.writes.stamps = {}
    /\ q.kind # "push" => DOMAIN q.writes.rows = {}
    /\ \A e \in DOMAIN q.plan :
          /\ e \notin DOMAIN q.writes.stamps
          /\ e = q.here \/ e \notin DOMAIN q.writes.names
          /\ q.kind = "push" => q.plan[e].name =< n[e]

\* A webhook's stamp is the time it arrived at, which no change bears.
Unborn(i, at) == \A k \in Keys : i[k].updated # at

MarksStep(q, i, l, n) ==
    /\ q.pc = "insert" => q.got.key \in Keys /\ Newer(i, q.got.key, q.got.at, n[q.here])
    /\ q.kind = "pull" =>
          /\ q.pc = "read" =>
                /\ q.here \notin DOMAIN q.writes.names
                /\ i[l[q.here].key].updated = q.got.at
                   => i[l[q.here].key].summary = q.got.summary
          /\ q.pc \in {"write", "stamp"} =>
                Newer(i, l[q.here].key, q.got.at, NameAfter(n, q.here, q.writes))
    /\ q.kind \in {"created", "updated"} =>
          /\ q.pc \in {"stamp", "read", "write"} => Unborn(i, q.got.at)
          /\ \A e \in DOMAIN q.writes.stamps : Unborn(i, q.writes.stamps[e])
    /\ q.kind = "updated" /\ q.pc \in {"read", "write"} => q.here \in DOMAIN q.writes.stamps

Marks(q, i, l, n) == MarksWrites(q, i, l, n) /\ MarksStep(q, i, l, n)

Honest(i, l, n) ==
    \A e \in Entities : l[e].state # "none" => Newer(i, l[e].key, l[e].stamp, n[e])

Alone(q) == \A r, s \in Requests : q[r].pc # "idle" /\ q[s].pc # "idle" => r = s

WInv ==
    /\ TInv
    /\ \A k \in Created : issue[k].updated > 0
    /\ "overlap" \notin trouble =>
          /\ Alone(req) /\ Honest(issue, link, name)
          /\ \A r \in Requests : Marks(req[r], issue, link, name)

-----------------------------------------------------------------------------
(* What a step does to the things that marks speak of.                      *)

\* An issue stays as it is, or bears a time that nobody has seen.
IssuesAge == \A k \in Keys :
    \/ issue'[k].updated = clock + 1 /\ issue'[k].state # "none"
    \/ /\ issue'[k].updated = issue[k].updated /\ issue'[k].summary = issue[k].summary
       /\ issue'[k].state # "none" <=> issue[k].state # "none"

LEMMA IssuesDo == IInv /\ [Next]_vars => IssuesAge
<1> SUFFICES ASSUME IInv, [Next]_vars, NEW k \in Keys
             PROVE  \/ issue'[k].updated = clock + 1 /\ issue'[k].state # "none"
                    \/ /\ issue'[k].updated = issue[k].updated
                       /\ issue'[k].summary = issue[k].summary
                       /\ issue'[k].state # "none" <=> issue[k].state # "none"
  BY DEF IssuesAge
<1> DEFINE Ages == \/ issue'[k].updated = clock + 1 /\ issue'[k].state # "none"
                   \/ /\ issue'[k].updated = issue[k].updated
                      /\ issue'[k].summary = issue[k].summary
                      /\ issue'[k].state # "none" <=> issue[k].state # "none"
<1>1. IssueShape
  BY DEF IInv
<1>2. ASSUME issue'[k] = issue[k] PROVE Ages
  BY <1>2
<1>3. ASSUME NEW owner, NEW text, NewIssue(owner, text) PROVE Ages
  <2> DEFINE i == [state |-> "open", owner |-> owner, summary |-> text,
                   status |-> "To Do", updated |-> clock + 1]
  <2>1. i.state = "open" /\ i.updated = clock + 1
    OBVIOUS
  <2>2. issue'[NextKey] = i /\ (k # NextKey => issue'[k] = issue[k])
    BY <1>3, NewForm
  <2> HIDE DEF i
  <2> QED
    BY <1>2, <2>1, <2>2
<1>4. ASSUME NEW j, NEW text, NEW s, EditIssue(j, text, s) PROVE Ages
  <2>1. issue'[k] = issue[k] \/ (issue'[k].updated = clock + 1 /\ j = k)
    BY <1>1, <1>4, EditForm
  <2>2. j = k => issue'[k].state = "open"
    BY <1>1, <1>4, EditForm DEF EditIssue, Open
  <2> QED
    BY <1>2, <2>1, <2>2
<1>5. ASSUME NEW j \in Keys, UserErasesIssue(j) PROVE Ages
  BY <1>2, <1>5, EraseForm
<1> HIDE DEF Ages
<1>6. Ages
  BY <1>2, <1>3, <1>4, <1>5, TrackerForm
     DEF TrackerStep, TrackerLeft, UserRetitlesIssue, UserMovesIssue
<1> QED
  BY <1>6 DEF Ages

\* Only a commit gives an older name.
NamesAge == \A e \in Entities : name[e] =< name'[e]

LEMMA NamesDo ==
    ASSUME TInv, [Next]_vars
    PROVE  NamesAge \/ \E r \in Requests : Commit(r)
<1>1. clock \in Nat /\ name \in [Entities -> 0 .. clock]
  BY DEF TInv, TrackerFits, TablesFit
<1>2. \A e \in Entities : name[e] \in 0 .. clock
  BY <1>1
<1>3. CASE name' = name
  BY <1>1, <1>2, <1>3 DEF NamesAge
<1>4. ASSUME NEW e \in Entities, name' = [name EXCEPT ![e] = clock + 1]
      PROVE  NamesAge
  <2>1. \A f \in Entities : name'[f] = name[f] \/ name'[f] = clock + 1
    BY <1>1, <1>4
  <2> QED
    BY <1>1, <1>2, <2>1 DEF NamesAge
<1> QED
  BY <1>3, <1>4, NameSteps DEF vars, database

\* A stamp that is right stays right while names get newer.
LEMMA NewerLasts ==
    ASSUME IssuesAge, NEW k \in Keys, NEW at \in 0 .. clock, clock \in Nat,
           NEW text \in Nat, NEW later \in Nat, text =< later,
           issue[k].summary \in Nat, Newer(issue, k, at, text)
    PROVE  Newer(issue', k, at, later)
<1>1. issue'[k].updated = at => issue'[k].summary = issue[k].summary /\ issue[k].updated = at
  BY DEF IssuesAge
<1> QED
  BY <1>1 DEF Newer

\* What a request is to mark stays right, while nobody else commits.
LEMMA MarksLast ==
    ASSUME TInv, [Next]_vars, NamesAge, NEW q, Fits(q, clock), Marked(q, link), Course(q),
           PlanKeys(q, link), Marks(q, issue, link, name)
    PROVE  Marks(q, issue', link', name')
<1>1. /\ IInv /\ IssuesAge /\ Lasts(link, link') /\ clock \in Nat
      /\ \A k \in Keys : issue[k].summary \in Nat
  <2>1. DInv /\ IInv /\ IInv' /\ KeysDiffer(link) /\ clock \in Nat
    BY NextInv DEF TInv, SInv, DInv, TrackerFits
  <2>2. \A k \in Keys : issue[k].summary \in Nat
    BY <2>1 DEF TInv, TrackerFits, IssueFits
  <2> QED
    BY <2>1, <2>2, IssuesDo, LinksLast
<1>2. /\ \A e \in Entities : name[e] \in Nat /\ name'[e] \in Nat /\ name[e] =< name'[e]
  <2>1. clock' \in Nat /\ name' \in [Entities -> 0 .. clock'] /\ name \in [Entities -> 0 .. clock]
    BY <1>1, NamesFit, ClockTicks DEF TInv, TablesFit
  <2> QED
    BY <1>1, <2>1 DEF NamesAge
<1>3. \A e : Linked(e, link) => /\ e \in Entities /\ link[e].key \in Keys
                                /\ link'[e].key = link[e].key
  BY <1>1 DEF Linked, Lasts, IInv, LinkShape
<1>4. /\ q.got.at \in 0 .. clock /\ WritesFit(q.writes, clock) /\ PlanFits(q.plan, clock)
  BY DEF Fits, GotFits
<1>5. \A e \in Entities : /\ NameAfter(name, e, q.writes) \in Nat
                          /\ NameAfter(name', e, q.writes) \in Nat
                          /\ NameAfter(name, e, q.writes) =< NameAfter(name', e, q.writes)
  BY <1>1, <1>2, <1>4 DEF NameAfter, WritesFit
<1>6. MarksWrites(q, issue, link, name) /\ MarksStep(q, issue, link, name)
  BY DEF Marks
<1>7. MarksWrites(q, issue', link', name')
  <2>1. ASSUME NEW e \in DOMAIN q.writes.rows
        PROVE  Newer(issue', q.writes.rows[e].key, q.writes.rows[e].stamp, name'[e])
    <3>1. /\ e \in Entities /\ q.writes.rows[e].key \in Keys
          /\ q.writes.rows[e].stamp \in 0 .. clock
      BY <1>1, <1>4 DEF WritesFit, IsPartial, RowFits, Row
    <3> QED
      BY <1>1, <1>2, <1>6, <3>1, NewerLasts DEF MarksWrites
  <2>2. ASSUME NEW e \in DOMAIN q.writes.stamps
        PROVE  Newer(issue', link'[e].key, q.writes.stamps[e], NameAfter(name', e, q.writes))
    <3>1. e \in Entities /\ link[e].key \in Keys /\ link'[e].key = link[e].key
          /\ q.writes.stamps[e] \in 0 .. clock
      BY <1>3, <1>4 DEF Marked, WritesFit
    <3> QED
      BY <1>1, <1>5, <1>6, <3>1, NewerLasts DEF MarksWrites
  <2>3. ASSUME NEW e \in DOMAIN q.plan, q.kind = "push"
        PROVE  q.plan[e].name =< name'[e]
    <3>1. e \in Entities /\ q.plan[e].name \in Nat /\ q.plan[e].name =< name[e]
      BY <1>4, <1>6, <2>3 DEF PlanFits, IsPartial, ItemType, MarksWrites
    <3> QED
      BY <1>2, <3>1
  <2> QED
    BY <1>6, <2>1, <2>2, <2>3 DEF MarksWrites
<1>8. MarksStep(q, issue', link', name')
  <2>1. ASSUME q.pc = "insert"
        PROVE  q.got.key \in Keys /\ Newer(issue', q.got.key, q.got.at, name'[q.here])
    <3>1. q.here \in Entities
      BY <1>4, <2>1 DEF Course, Idle, PlanFits, IsPartial
    <3> QED
      BY <1>1, <1>2, <1>4, <1>6, <2>1, <3>1, NewerLasts DEF MarksStep
  <2>2. ASSUME q.kind = "pull", q.pc \in {"read", "write", "stamp"}
        PROVE  Linked(q.here, link)
    BY <2>2 DEF Course, Idle, PlanKeys
  <2>3. ASSUME q.kind = "pull", q.pc = "read", issue'[link'[q.here].key].updated = q.got.at
        PROVE  issue'[link'[q.here].key].summary = q.got.summary
    <3>1. link[q.here].key \in Keys /\ link'[q.here].key = link[q.here].key
      BY <1>3, <2>2, <2>3
    <3>2. /\ issue'[link[q.here].key].summary = issue[link[q.here].key].summary
          /\ issue[link[q.here].key].updated = q.got.at
      BY <1>1, <1>4, <2>3, <3>1 DEF IssuesAge
    <3> QED
      BY <1>6, <2>3, <3>1, <3>2 DEF MarksStep
  <2>4. ASSUME q.kind = "pull", q.pc \in {"write", "stamp"}
        PROVE  Newer(issue', link'[q.here].key, q.got.at, NameAfter(name', q.here, q.writes))
    <3>1. q.here \in Entities /\ link[q.here].key \in Keys /\ link'[q.here].key = link[q.here].key
      BY <1>3, <2>2, <2>4
    <3> QED
      BY <1>1, <1>4, <1>5, <1>6, <2>4, <3>1, NewerLasts DEF MarksStep
  <2>5. \A at \in 0 .. clock : Unborn(issue, at) => Unborn(issue', at)
    BY <1>1 DEF IssuesAge, Unborn
  <2>6. \A e \in DOMAIN q.writes.stamps : q.writes.stamps[e] \in 0 .. clock
    BY <1>4 DEF WritesFit
  <2> QED
    BY <1>4, <1>6, <2>1, <2>3, <2>4, <2>5, <2>6 DEF MarksStep
<1> QED
  BY <1>7, <1>8 DEF Marks

-----------------------------------------------------------------------------
(* A turn leaves the request with right marks.                              *)
LEMMA FreshMarks ==
    ASSUME NEW q, NEW i, NEW l, NEW n, q.writes = NoWrites,
           q.pc \notin {"insert", "read", "write"},
           q.kind = "pull" => q.pc # "stamp",
           q.kind \in {"created", "updated"} /\ q.pc = "stamp" => Unborn(i, q.got.at),
           q.kind = "push" => \A e \in DOMAIN q.plan : q.plan[e].name =< n[e]
    PROVE  Marks(q, i, l, n)
BY DEF Marks, MarksWrites, MarksStep, NoWrites

LEMMA BegunMarks ==
    ASSUME TInv, NEW p, Begun(p)
    PROVE  Marks(p, issue, link, name)
<1>1. CASE BegunPush(p)
  <2>1. PICK es \in SUBSET Entities : Planned(p, [e \in es |-> Item(e, Code[e])])
    BY <1>1 DEF BegunPush
  <2>2. \A e \in es : Item(e, Code[e]).name = name[e] /\ name[e] =< name[e]
    BY DEF Item, TInv, TablesFit, TrackerFits
  <2>3. /\ p.writes = NoWrites /\ p.pc \notin {"insert", "read", "write", "stamp"}
        /\ \A e \in DOMAIN p.plan : p.plan[e].name =< name[e]
    BY <2>1, <2>2 DEF Planned, AtFirst, FirstStep
  <2> QED
    BY <2>3, FreshMarks
<1>2. CASE BegunPull(p)
  <2>1. /\ p.writes = NoWrites /\ p.pc \notin {"insert", "read", "write", "stamp"}
        /\ p.kind \in {"pull", "sync"}
    BY <1>2 DEF BegunPull, Planned, AtFirst, FirstStep
  <2> QED
    BY <2>1, FreshMarks
<1>3. CASE BegunAlert(p)
  <2>1. p.writes = NoWrites /\ p.pc = "create" /\ p.kind = "alert"
    BY <1>3 DEF BegunAlert, Idle
  <2> QED
    BY <2>1, FreshMarks
<1>4. CASE BegunHook(p)
  <2>1. PICK h \in hooks, e \in Entities : p = HookRequest(h, e)
    BY <1>4 DEF BegunHook, Target
  <2>2. /\ p.writes = NoWrites /\ p.pc \in {"drop", "stamp"} /\ p.kind = h.event
        /\ p.got.at = clock + 1
    BY <2>1, HookFields
  <2>3. h.event \in {"created", "updated", "deleted"}
    BY DEF TInv, TrackerFits, HookFits
  <2>4. Unborn(issue, clock + 1)
    <3>1. \A k \in Keys : issue[k].updated \in 0 .. clock /\ clock \in Nat
      BY DEF TInv, TrackerFits, IssueFits
    <3> QED
      BY <3>1 DEF Unborn
  <2> QED
    BY <2>2, <2>3, <2>4, FreshMarks
<1> QED
  BY <1>1, <1>2, <1>3, <1>4 DEF Begun

\* At the first step of its next item a request has only its writes to answer for.
LEMMA PastMarks ==
    ASSUME NEW p, NEW q, NEW writes, NEW locks, NEW i, NEW l, NEW n,
           Past(p, q, writes, locks),
           \A e \in DOMAIN writes.rows :
               Newer(i, writes.rows[e].key, writes.rows[e].stamp, n[e]),
           \A e \in DOMAIN writes.stamps :
               Newer(i, l[e].key, writes.stamps[e], NameAfter(n, e, writes)),
           \A e \in DOMAIN writes.names : e \in DOMAIN writes.stamps,
           q.kind = "push" => DOMAIN writes.names = {} /\ DOMAIN writes.stamps = {},
           q.kind # "push" => DOMAIN writes.rows = {},
           \A e \in DOMAIN q.plan \ {q.here} :
              /\ e \notin DOMAIN writes.stamps /\ e \notin DOMAIN writes.names
              /\ q.kind = "push" => q.plan[e].name =< n[e],
           q.kind \in {"created", "updated"} =>
              \A e \in DOMAIN writes.stamps : Unborn(i, writes.stamps[e])
    PROVE  Marks(p, i, l, n)
<1> DEFINE plan == [e \in DOMAIN q.plan \ {q.here} |-> q.plan[e]]
<1>1. /\ p.kind = q.kind /\ p.writes = writes /\ p.plan = plan
      /\ p.pc \notin {"insert", "read", "write", "stamp"}
  BY DEF Past, AtFirst, FirstStep
<1>2. MarksWrites(p, i, l, n)
  BY <1>1 DEF MarksWrites
<1>3. MarksStep(p, i, l, n)
  BY <1>1 DEF MarksStep
<1> QED
  BY <1>2, <1>3 DEF Marks

LEMMA PlainPastMarks ==
    ASSUME NEW p, NEW q, NEW locks, NEW i, NEW l, NEW n, Past(p, q, q.writes, locks),
           Marks(q, i, l, n),
           \A e \in DOMAIN q.writes.names : e \in DOMAIN q.writes.stamps
    PROVE  Marks(p, i, l, n)
<1>1. MarksWrites(q, i, l, n) /\ MarksStep(q, i, l, n)
  BY DEF Marks
<1> QED
  BY <1>1, PastMarks DEF MarksWrites, MarksStep

LEMMA TurnMarks ==
    ASSUME TInv, NEW r \in Requests, NEW p, Turn(p, req[r]), ~CreatedOne(p, req[r]),
           Marks(req[r], issue, link, name)
    PROVE  Marks(p, issue, link, name)
<1> DEFINE q == req[r]
           w == q.writes
           e == q.here
<1> SUFFICES Marks(p, issue, link, name)
  OBVIOUS
<1>1. Shape(q) /\ Course(q) /\ Fits(q, clock) /\ PlanKeys(q, link) /\ Marked(q, link)
  BY Here DEF TInv, SInv
<1>2. MarksWrites(q, issue, link, name) /\ MarksStep(q, issue, link, name)
  BY DEF Marks
<1>3. q.pc \notin {"write", "stamp"} => \A f \in DOMAIN w.names : f \in DOMAIN w.stamps
  BY <1>2 DEF MarksWrites
<1>4. CASE Passed(p, q) \/ Touched(p, q)
  <2>1. q.pc \notin {"write", "stamp"} /\ \E locks : Past(p, q, w, locks)
    BY <1>4 DEF Passed, Touched
  <2> QED
    BY <1>3, <2>1, PlainPastMarks
<1>5. CASE Retried(p, q) \/ Called(p, q) \/ Aimed(p, q)
  <2>1. /\ p.writes = w /\ p.plan = q.plan /\ p.kind = q.kind /\ p.here = e
        /\ p.pc \notin {"insert", "read", "write", "stamp"}
        /\ q.pc \notin {"write", "stamp"}
    BY <1>5 DEF Retried, Called, Aimed, Onto
  <2>2. MarksWrites(p, issue, link, name)
    BY <1>2, <2>1 DEF MarksWrites
  <2>3. MarksStep(p, issue, link, name)
    BY <1>2, <2>1 DEF MarksStep
  <2> QED
    BY <2>2, <2>3 DEF Marks
<1>6. CASE Inserted(p, q)
  <2> DEFINE v == [w EXCEPT !.rows = With(@, e, NewLink(q))]
  <2>1. q.kind = "push" /\ q.pc = "insert"
    BY <1>1, <1>6 DEF Inserted, Course, Idle
  <2>2. /\ v.rows = With(w.rows, e, NewLink(q)) /\ v.stamps = w.stamps /\ v.names = w.names
    BY <1>1 DEF Shape
  <2>3. Past(p, q, v, q.locks \cup {Mine(q)})
    BY <1>6 DEF Inserted
  <2>4. Newer(issue, NewLink(q).key, NewLink(q).stamp, name[e])
    BY <1>2, <2>1 DEF MarksStep, NewLink
  <2> HIDE DEF v
  <2>5. \A f \in DOMAIN v.rows : Newer(issue, v.rows[f].key, v.rows[f].stamp, name[f])
    BY <1>2, <2>2, <2>4 DEF With, MarksWrites
  <2> QED
    BY <1>2, <2>1, <2>2, <2>3, <2>5, PastMarks DEF MarksWrites
<1>7. CASE Dropped(p, q)
  <2> DEFINE v == [w EXCEPT !.gone = @ \cup {e}]
  <2>1. v.rows = w.rows /\ v.stamps = w.stamps /\ v.names = w.names
    BY <1>1 DEF Shape
  <2>2. Past(p, q, v, q.locks \cup {Mine(q)}) /\ q.pc = "drop"
    BY <1>7 DEF Dropped
  <2> HIDE DEF v
  <2>3. \A f : NameAfter(name, f, v) = NameAfter(name, f, w)
    BY <2>1 DEF NameAfter
  <2> QED
    BY <1>2, <1>3, <2>1, <2>2, <2>3, PastMarks DEF MarksWrites, MarksStep
<1>8. CASE Fetched(p, q)
  <2> DEFINE seen == issue[q.plan[e].key]
             got == [q.got EXCEPT !.summary = seen.summary, !.status = seen.status,
                                  !.at = seen.updated]
  <2>1. got.summary = seen.summary /\ got.at = seen.updated
    BY <1>1 DEF Shape
  <2>2. q.kind = "pull" /\ e \in DOMAIN q.plan /\ q.plan[e].key = link[e].key /\ q.pc = "fetch"
    BY <1>1, <1>8 DEF Fetched, Course, Idle, PlanKeys
  <2>3. Onto(p, q, "read", 0, got, w, q.locks)
    BY <1>8 DEF Fetched
  <2> HIDE DEF got
  <2>4. /\ p.writes = w /\ p.plan = q.plan /\ p.kind = "pull" /\ p.here = e /\ p.pc = "read"
        /\ p.got.summary = issue[link[e].key].summary
    BY <2>1, <2>2, <2>3 DEF Onto
  <2>5. e \notin DOMAIN w.names
    BY <1>2, <1>3, <2>2 DEF MarksWrites
  <2>6. MarksWrites(p, issue, link, name)
    BY <1>2, <1>3, <2>2, <2>4 DEF MarksWrites
  <2>7. MarksStep(p, issue, link, name)
    BY <2>4, <2>5 DEF MarksStep
  <2> QED
    BY <2>6, <2>7 DEF Marks
<1>9. CASE WasRead(p, q)
  <2> DEFINE names == IF q.got.summary # name[e]
                      THEN With(w.names, e, q.got.summary) ELSE w.names
             percents == IF e \in Activities /\ NewPercent(q) # percent[e]
                         THEN With(w.percents, e, NewPercent(q)) ELSE w.percents
             v == [w EXCEPT !.names = names, !.percents = percents]
  <2>1. q.kind \in {"pull", "updated"} /\ q.pc = "read" /\ Onto(p, q, "write", q.tries, q.got, v, q.locks)
    BY <1>1, <1>9 DEF WasRead, Course, Idle
  <2>2. /\ \A f : f # e => (f \in DOMAIN names <=> f \in DOMAIN w.names)
        /\ \A f \in DOMAIN w.names : f # e => names[f] = w.names[f]
        /\ e \notin DOMAIN w.names =>
              (IF e \in DOMAIN names THEN names[e] ELSE name[e]) = q.got.summary
    BY DEF With
  <2> HIDE DEF names, percents
  <2>3. v.rows = w.rows /\ v.stamps = w.stamps /\ v.names = names
    BY <1>1 DEF Shape
  <2> HIDE DEF v
  <2>4. /\ p.writes = v /\ p.plan = q.plan /\ p.kind = q.kind /\ p.here = e /\ p.pc = "write"
        /\ p.got = q.got
    BY <2>1 DEF Onto
  <2>5. \A f : f # e => NameAfter(name, f, v) = NameAfter(name, f, w)
    BY <2>2, <2>3 DEF NameAfter
  <2>6. ASSUME NEW f \in DOMAIN w.stamps
        PROVE  Newer(issue, link[f].key, w.stamps[f], NameAfter(name, f, v))
    <3>1. CASE f # e
      BY <1>2, <2>5, <3>1 DEF MarksWrites
    <3>2. CASE f = e
      <4>1. q.kind = "updated"
        BY <1>1, <1>2, <2>1, <3>2 DEF Course, Idle, MarksWrites
      <4>2. Unborn(issue, w.stamps[f]) /\ link[f].key \in Keys
        BY <1>1, <1>2, <4>1 DEF MarksStep, Marked, Linked, TInv, SInv, DInv, IInv, LinkShape
      <4> QED
        BY <4>2 DEF Unborn, Newer
    <3> QED
      BY <3>1, <3>2
  <2>7. MarksWrites(p, issue, link, name)
    BY <1>2, <1>3, <2>1, <2>2, <2>3, <2>4, <2>6 DEF MarksWrites
  <2>8. q.kind = "pull" => Newer(issue, link[e].key, q.got.at, NameAfter(name, e, v))
    <3>1. SUFFICES ASSUME q.kind = "pull", issue[link[e].key].updated = q.got.at
                   PROVE  NameAfter(name, e, v) >= issue[link[e].key].summary
      BY DEF Newer
    <3>2. e \notin DOMAIN w.names /\ issue[link[e].key].summary = q.got.summary
      BY <1>2, <2>1, <3>1 DEF MarksStep
    <3>3. NameAfter(name, e, v) = q.got.summary
      BY <2>2, <2>3, <3>2 DEF NameAfter
    <3>4. q.got.summary \in Nat
      BY <1>1 DEF Fits, GotFits
    <3> QED
      BY <3>2, <3>3, <3>4
  <2>9. MarksStep(p, issue, link, name)
    BY <1>2, <2>1, <2>3, <2>4, <2>8 DEF MarksStep
  <2> QED
    BY <2>7, <2>9 DEF Marks
<1>10. CASE Written(p, q)
  <2>1. CASE q.kind = "pull"
    <3>1. /\ p.writes = w /\ p.plan = q.plan /\ p.kind = q.kind /\ p.here = e /\ p.pc = "stamp"
          /\ p.got = q.got /\ q.pc = "write"
      BY <1>10, <2>1 DEF Written, Onto
    <3>2. MarksWrites(p, issue, link, name)
      BY <1>2, <3>1 DEF MarksWrites
    <3>3. MarksStep(p, issue, link, name)
      BY <1>2, <2>1, <3>1 DEF MarksStep
    <3> QED
      BY <3>2, <3>3 DEF Marks
  <2>2. CASE q.kind # "pull"
    <3>1. q.pc = "write" /\ q.kind = "updated" /\ Past(p, q, w, q.locks \cup {Own(q)})
      BY <1>1, <1>10, <2>2 DEF Written, Course, Idle
    <3>2. \A f \in DOMAIN w.names : f \in DOMAIN w.stamps
      BY <1>2, <3>1 DEF MarksWrites, MarksStep
    <3> QED
      BY <3>1, <3>2, PlainPastMarks
  <2> QED
    BY <2>1, <2>2
<1>11. CASE Stamped(p, q)
  <2> DEFINE v == [w EXCEPT !.stamps = With(@, e, q.got.at)]
  <2>1. /\ v.rows = w.rows /\ v.stamps = With(w.stamps, e, q.got.at) /\ v.names = w.names
    BY <1>1 DEF Shape
  <2>2. /\ q.pc = "stamp" /\ q.kind \in {"pull", "created", "updated"}
        /\ IF q.kind = "updated" THEN Onto(p, q, "read", q.tries, q.got, v, q.locks \cup {Mine(q)})
           ELSE Past(p, q, v, q.locks \cup {Mine(q)})
    BY <1>1, <1>11 DEF Stamped, Course, Idle
  <2> HIDE DEF v
  <2>3. \A f : NameAfter(name, f, v) = NameAfter(name, f, w)
    BY <2>1 DEF NameAfter
  <2>4. DOMAIN v.stamps = DOMAIN w.stamps \cup {e}
    BY <2>1 DEF With
  <2>5. q.kind # "pull" => \A f \in DOMAIN v.stamps : Unborn(issue, v.stamps[f])
    BY <1>2, <2>1, <2>2 DEF With, MarksStep
  <2>6. Newer(issue, link[e].key, q.got.at, NameAfter(name, e, w))
    <3>1. CASE q.kind = "pull"
      BY <1>2, <2>2, <3>1 DEF MarksStep
    <3>2. CASE q.kind # "pull"
      <4>1. Unborn(issue, q.got.at)
        BY <1>2, <2>2, <3>2 DEF MarksStep
      <4>2. link[e].key \in Keys
        BY <2>2, StampKnown DEF Linked, TInv, SInv, DInv, IInv, LinkShape
      <4> QED
        BY <4>1, <4>2 DEF Unborn, Newer
    <3> QED
      BY <3>1, <3>2
  <2>7. \A f \in DOMAIN v.stamps : Newer(issue, link[f].key, v.stamps[f], NameAfter(name, f, v))
    BY <1>2, <2>1, <2>3, <2>4, <2>6 DEF With, MarksWrites
  <2>8. \A f \in DOMAIN v.names : f \in DOMAIN v.stamps
    BY <1>2, <2>1, <2>4 DEF MarksWrites
  <2>9. DOMAIN v.rows = {}
    BY <1>2, <2>1, <2>2 DEF MarksWrites
  <2>10. CASE q.kind # "updated"
    <3>1. Past(p, q, v, q.locks \cup {Mine(q)})
      BY <2>2, <2>10
    <3>2. \A f \in DOMAIN q.plan \ {e} : f \notin DOMAIN v.stamps /\ f \notin DOMAIN v.names
      BY <1>2, <2>1, <2>4 DEF MarksWrites
    <3> QED
      BY <2>2, <2>5, <2>7, <2>8, <2>9, <3>1, <3>2, PastMarks
  <2>11. CASE q.kind = "updated"
    <3>1. /\ p.writes = v /\ p.plan = q.plan /\ p.kind = "updated" /\ p.here = e
          /\ p.pc = "read" /\ p.got = q.got
      BY <2>2, <2>11 DEF Onto
    <3>2. DOMAIN q.plan = {}
      BY <1>1, <2>11 DEF Shape
    <3>3. MarksWrites(p, issue, link, name)
      BY <2>7, <2>8, <2>9, <3>1, <3>2 DEF MarksWrites
    <3>4. MarksStep(p, issue, link, name)
      BY <1>2, <2>2, <2>4, <2>5, <2>11, <3>1 DEF MarksStep
    <3> QED
      BY <3>3, <3>4 DEF Marks
  <2> QED
    BY <2>10, <2>11
<1>12. CASE p = Idle
  <2>1. p.writes = NoWrites /\ p.pc = "idle" /\ p.kind = "none"
    BY <1>12 DEF Idle
  <2> QED
    BY <2>1, FreshMarks
<1> QED
  BY <1>4, <1>5, <1>6, <1>7, <1>8, <1>9, <1>10, <1>11, <1>12 DEF Turn

-----------------------------------------------------------------------------
(* One request at a time.                                                   *)
LEMMA StepBusy ==
    ASSUME NEW r \in Requests, RequestStep(r)
    PROVE  req[r].pc # "idle"
<1>1. CASE Victim(r)
  <2>1. PICK C \in SUBSET Requests : r \in C /\ Circle(C)
    BY <1>1 DEF Victim
  <2>2. Wanted(r) # {}
    BY <2>1 DEF Circle
  <2> QED
    BY <2>2 DEF Wanted
<1>2. CASE ~Victim(r)
  BY <1>2 DEF RequestStep, Create, Insert, Update, Touch, Fetch, Read, Write, Stamp, Drop,
              Aim, Compare, Transition, Commit
<1> QED
  BY <1>1, <1>2

LEMMA BeginAlone ==
    ASSUME NEW r \in Requests, Begin(r), "overlap" \notin trouble'
    PROVE  Active = {} /\ UNCHANGED <<link, name, issue>>
BY DEF Begin, StartPush, StartPull, StartProgress, Start, StartAlert, ReceiveHook, Beside,
       database, jira

LEMMA AloneStays ==
    ASSUME IInv, [Next]_vars, Alone(req), "overlap" \notin trouble'
    PROVE  Alone(req')
<1>1. CASE req' = req
  BY <1>1
<1>2. ASSUME NEW r \in Requests, NEW p, req' = [req EXCEPT ![r] = p], Begin(r) \/ RequestStep(r)
      PROVE  Alone(req')
  <2>1. \A s \in Requests : s # r => req[s].pc = "idle"
    BY <1>2, StepBusy, BeginAlone DEF Alone, Active
  <2>2. \A s \in Requests : s # r => req'[s] = req[s]
    BY <1>2 DEF IInv, RequestShape
  <2> QED
    BY <2>1, <2>2 DEF Alone
<1> QED
  BY <1>1, <1>2, RequestsForm

LEMMA IdleMarks == Marks(Idle, issue', link', name')
<1>1. Idle.writes = NoWrites /\ Idle.pc = "idle" /\ Idle.kind = "none"
  BY DEF Idle
<1> QED
  BY <1>1, FreshMarks

\* The issue that a push has just made bears the name that the plan holds.
LEMMA CreatedMarks ==
    ASSUME TInv, [Next]_vars, NamesAge, NEW r \in Requests, NEW p, CreatedOne(p, req[r]),
           Marks(req[r], issue, link, name)
    PROVE  Marks(p, issue', link', name')
<1> DEFINE q == req[r]
           got == [q.got EXCEPT !.key = NextKey, !.at = clock + 1]
<1>1. Shape(q) /\ Course(q) /\ Fits(q, clock) /\ PlanKeys(q, link) /\ Marked(q, link)
  BY Here DEF TInv, SInv
<1>2. MarksWrites(q, issue', link', name')
  BY <1>1, MarksLast DEF Marks
<1>3. /\ q.pc = "create" /\ q.here \in Entities
      /\ NewIssue(q.here, q.plan[q.here].name)
      /\ Onto(p, q, "insert", 0, got, q.writes, q.locks)
  BY DEF CreatedOne
<1>4. q.kind = "push" /\ q.here \in DOMAIN q.plan
  BY <1>1, <1>3, EntitiesAssumption DEF Course, Idle
<1>5. got.key = NextKey /\ got.at = clock + 1
  BY <1>1 DEF Shape
<1> HIDE DEF got
<1>6. /\ p.pc = "insert" /\ p.kind = "push" /\ p.plan = q.plan /\ p.here = q.here
      /\ p.writes = q.writes /\ p.got.key = NextKey
  BY <1>3, <1>4, <1>5 DEF Onto
<1>7. NextKey \in Keys /\ issue'[NextKey].summary = q.plan[q.here].name
  <2> DEFINE i == [state |-> "open", owner |-> q.here, summary |-> q.plan[q.here].name,
                   status |-> "To Do", updated |-> clock + 1]
  <2>1. NextKey \in Keys /\ issue'[NextKey] = i
    BY <1>3, NewForm DEF TInv, SInv, DInv
  <2>2. i.summary = q.plan[q.here].name
    OBVIOUS
  <2> HIDE DEF i
  <2> QED
    BY <2>1, <2>2
<1>8. q.plan[q.here].name =< name'[q.here]
  BY <1>2, <1>4 DEF MarksWrites
<1>9. Newer(issue', NextKey, p.got.at, name'[q.here])
  <2>1. q.plan[q.here].name \in Nat
    BY <1>1, <1>4 DEF Fits, PlanFits, ItemType
  <2>2. name'[q.here] \in Nat
    <3>1. name' \in [Entities -> 0 .. clock'] /\ clock' \in Nat
      BY NamesFit, ClockTicks DEF TInv, TrackerFits
    <3> QED
      BY <1>3, <3>1
  <2> QED
    BY <1>7, <1>8, <2>1, <2>2 DEF Newer
<1>10. MarksWrites(p, issue', link', name')
  BY <1>2, <1>4, <1>6 DEF MarksWrites
<1>11. MarksStep(p, issue', link', name')
  BY <1>6, <1>7, <1>9 DEF MarksStep
<1> QED
  BY <1>10, <1>11 DEF Marks

LEMMA MarksKept ==
    ASSUME TInv, [Next]_vars, "overlap" \notin trouble', Alone(req),
           \A s \in Requests : Marks(req[s], issue, link, name), NEW s \in Requests
    PROVE  Marks(req'[s], issue', link', name')
<1>1. \A t \in Requests : /\ Shape(req[t]) /\ Course(req[t]) /\ Fits(req[t], clock)
                          /\ PlanKeys(req[t], link) /\ Marked(req[t], link)
  BY Here DEF TInv, SInv
<1>2. IInv /\ SInv /\ clock \in Nat /\ \A t \in Requests : \A p :
          req' = [req EXCEPT ![t] = p] => req'[s] = IF s = t THEN p ELSE req[s]
  BY DEF TInv, TrackerFits, SInv, DInv, IInv, RequestShape
<1>3. CASE \E r \in Requests : Commit(r)
  <2>1. PICK r \in Requests : Commit(r)
    BY <1>3
  <2>2. req[r].pc # "idle" /\ req' = [req EXCEPT ![r] = Idle]
    BY <2>1 DEF Commit, Put
  <2>3. s # r => req[s] = Idle
    BY <1>1, <2>2 DEF Alone, Course
  <2> QED
    BY <1>2, <2>2, <2>3, IdleMarks
<1>4. CASE NamesAge
  <2>1. \A t \in Requests : Marks(req[t], issue', link', name')
    BY <1>1, <1>4, MarksLast
  <2>2. ASSUME NEW r \in Requests, NEW p, Begin(r), Begun(p)
        PROVE  Marks(p, issue', link', name')
    BY <2>2, BeginAlone, BegunMarks
  <2>3. ASSUME NEW r \in Requests, NEW p, Turn(p, req[r])
        PROVE  Marks(p, issue', link', name')
    <3>1. CASE CreatedOne(p, req[r])
      BY <1>4, <3>1, CreatedMarks
    <3>2. CASE ~CreatedOne(p, req[r])
      <4>1. Marks(p, issue, link, name) /\ Marked(p, link)
        BY <2>3, <3>2, TurnMarks, TurnMarked
      <4>2. Fits(p, clock)
        BY <1>2, <2>3, <3>2, TurnFits
      <4>3. Course(p) /\ PlanKeys(p, link)
        BY <1>1, <1>2, <2>3, TurnCourse, TurnKeys
      <4> QED
        BY <1>4, <4>1, <4>2, <4>3, MarksLast
    <3> QED
      BY <3>1, <3>2
  <2>4. CASE req' = req
    BY <2>1, <2>4
  <2>5. ASSUME NEW r \in Requests, NEW p, req' = [req EXCEPT ![r] = p],
               \/ Begin(r) /\ Begun(p)
               \/ RequestStep(r) /\ Turn(p, req[r])
        PROVE  Marks(req'[s], issue', link', name')
    <3>1. Marks(p, issue', link', name')
      BY <2>2, <2>3, <2>5
    <3> QED
      BY <1>2, <2>1, <2>5, <3>1
  <2> QED
    BY <1>2, <2>4, <2>5, RequestsForm
<1> QED
  BY <1>3, <1>4, NamesDo

-----------------------------------------------------------------------------
(* The rows stay honest.                                                    *)
LEMMA CommitHonest ==
    ASSUME TInv, NEW r \in Requests, Commit(r), Honest(issue, link, name),
           Marks(req[r], issue, link, name)
    PROVE  Honest(issue', link', name')
<1> DEFINE w == req[r].writes
<1>1. /\ IInv /\ issue' = issue /\ req[r].pc = "commit"
      /\ name' = Overlay(name, w.names) /\ DOMAIN name = Entities
  BY DEF Commit, jira, TInv, TablesFit, SInv, DInv
<1>2. MarksWrites(req[r], issue, link, name)
  BY DEF Marks
<1>3. \A e \in Entities : name'[e] = NameAfter(name, e, w)
  BY <1>1 DEF Overlay, NameAfter
<1>4. SUFFICES ASSUME NEW e \in Entities, link'[e].state # "none"
               PROVE  Newer(issue', link'[e].key, link'[e].stamp, name'[e])
  BY DEF Honest
<1>5. CASE e \in DOMAIN w.rows
  <2>1. link'[e] = w.rows[e]
    BY <1>1, <1>5, CommitLinks DEF Committed
  <2>2. name'[e] = name[e]
    BY <1>2, <1>3, <1>5 DEF MarksWrites, NameAfter
  <2> QED
    BY <1>1, <1>2, <1>5, <2>1, <2>2 DEF MarksWrites
<1>6. CASE e \notin DOMAIN w.rows
  <2>1. /\ link'[e].key = link[e].key
        /\ link'[e].state = IF e \in w.gone THEN "gone" ELSE link[e].state
        /\ link'[e].stamp = IF e \in DOMAIN w.stamps THEN w.stamps[e] ELSE link[e].stamp
    BY <1>1, <1>6, CommitRow
  <2>2. CASE e \in DOMAIN w.stamps
    <3>1. Newer(issue, link[e].key, w.stamps[e], NameAfter(name, e, w))
      BY <1>2, <2>2 DEF MarksWrites
    <3> QED
      BY <1>1, <1>3, <2>1, <2>2, <3>1
  <2>3. CASE e \notin DOMAIN w.stamps
    <3>1. name'[e] = name[e]
      BY <1>1, <1>2, <1>3, <2>3 DEF MarksWrites, NameAfter
    <3>2. link[e].state # "none"
      BY <1>4, <2>1 DEF TInv, SInv, Told, Erased, Linked
    <3> QED
      BY <1>1, <2>1, <2>3, <3>1, <3>2 DEF Honest
  <2> QED
    BY <2>2, <2>3
<1> QED
  BY <1>5, <1>6

LEMMA HonestStays ==
    ASSUME TInv, [Next]_vars, Honest(issue, link, name),
           \A k \in Created : issue[k].updated > 0,
           \A r \in Requests : Marks(req[r], issue, link, name)
    PROVE  Honest(issue', link', name')
<1>1. CASE \E r \in Requests : Commit(r)
  BY <1>1, CommitHonest
<1>2. CASE NamesAge
  <2>1. /\ IInv /\ IssuesAge /\ clock \in Nat
        /\ \A k \in Keys : issue[k].summary \in Nat /\ issue[k].updated \in 0 .. clock
    <3>1. IInv /\ clock \in Nat
      BY DEF TInv, TrackerFits, SInv, DInv
    <3>2. \A k \in Keys : issue[k].summary \in Nat /\ issue[k].updated \in 0 .. clock
      BY <3>1 DEF TInv, TrackerFits, IssueFits
    <3> QED
      BY <3>1, <3>2, IssuesDo
  <2>2. \A e \in Entities : name[e] \in Nat /\ name'[e] \in Nat /\ name[e] =< name'[e]
    <3>1. clock' \in Nat /\ name' \in [Entities -> 0 .. clock'] /\ name \in [Entities -> 0 .. clock]
      BY <2>1, NamesFit, ClockTicks DEF TInv, TablesFit
    <3> QED
      BY <1>2, <2>1, <3>1 DEF NamesAge
  <2>3. ASSUME NEW e \in Entities, link[e].state # "none"
        PROVE  Newer(issue', link[e].key, link[e].stamp, name'[e])
    <3>1. link[e].key \in Keys /\ link[e].stamp \in 0 .. clock
      <4>1. RowFits(link[e], clock)
        BY <2>3 DEF TInv, TablesFit, NoLink
      <4> QED
        BY <2>1, <4>1 DEF RowFits, Row
    <3>2. Newer(issue, link[e].key, link[e].stamp, name[e])
      BY <2>3 DEF Honest
    <3> QED
      BY <2>1, <2>2, <3>1, <3>2, NewerLasts
  <2>4. CASE link' = link
    BY <2>3, <2>4 DEF Honest
  <2>5. ASSUME NEW f \in Entities, DeleteMapping(f)
        PROVE  Honest(issue', link', name')
    <3>1. link' = [link EXCEPT ![f].state = "gone"] /\ link[f].state = "live"
      BY <2>5 DEF DeleteMapping, Live
    <3>2. \A e \in Entities : /\ link'[e].key = link[e].key /\ link'[e].stamp = link[e].stamp
                              /\ link'[e].state # "none" => link[e].state # "none"
      BY <2>1, <3>1 DEF IInv, LinkShape
    <3> QED
      BY <2>3, <3>2 DEF Honest
  <2>6. ASSUME NEW f \in Entities, NEW k \in Keys, NEW d \in Directions, CreateMapping(f, k, d)
        PROVE  Honest(issue', link', name')
    <3> DEFINE row == [state |-> "live", key |-> k, direction |-> d,
                       stamp |-> NoStamp, rank |-> clock]
    <3>1. link' = [link EXCEPT ![f] = row] /\ k \in Created /\ issue' = issue
      BY <2>6 DEF CreateMapping, jira
    <3>2. row.key = k /\ row.stamp = 0
      BY DEF NoStamp
    <3> HIDE DEF row
    <3>3. Newer(issue', row.key, row.stamp, name'[f])
      BY <2>1, <3>1, <3>2 DEF Newer
    <3>4. \A e \in Entities : link'[e] = IF e = f THEN row ELSE link[e]
      BY <2>1, <3>1 DEF IInv, LinkShape
    <3> QED
      BY <2>3, <3>3, <3>4 DEF Honest
  <2>7. CASE \E r \in Requests : Commit(r)
    BY <1>1, <2>7
  <2> QED
    BY <2>1, <2>4, <2>5, <2>6, <2>7, LinkSteps
<1> QED
  BY <1>1, <1>2, NamesDo

LEMMA InitWInv == Init => WInv
<1> SUFFICES ASSUME Init PROVE WInv
  OBVIOUS
<1>1. TInv
  BY InitTInv
<1>2. /\ \A r \in Requests : req[r] = Idle
      /\ \A k \in Keys : issue[k] = NoIssue
      /\ \A e \in Entities : link[e] = NoLink
  BY DEF Init
<1>3. Created = {}
  <2>1. NoIssue.state = "none"
    BY DEF NoIssue
  <2> QED
    BY <1>2, <2>1 DEF Created
<1>4. Alone(req) /\ Honest(issue, link, name)
  BY <1>2 DEF Alone, Honest, Idle, NoLink
<1>5. Marks(Idle, issue, link, name)
  <2>1. Idle.writes = NoWrites /\ Idle.pc = "idle" /\ Idle.kind = "none"
    BY DEF Idle
  <2> QED
    BY <2>1, FreshMarks
<1> QED
  BY <1>1, <1>2, <1>3, <1>4, <1>5 DEF WInv

LEMMA NextWInv == WInv /\ [Next]_vars => WInv'
<1> SUFFICES ASSUME WInv, [Next]_vars PROVE WInv'
  OBVIOUS
<1>1. TInv /\ TInv' /\ IInv /\ clock \in Nat
  BY NextTInv DEF WInv, TInv, TrackerFits, SInv, DInv
<1>2. \A k \in Created' : issue'[k].updated > 0
  <2>1. SUFFICES ASSUME NEW k \in Keys, issue'[k].state # "none"
                 PROVE  issue'[k].updated > 0
    BY DEF Created
  <2>2. CASE issue'[k].updated = clock + 1
    BY <1>1, <2>2
  <2>3. CASE issue'[k].updated = issue[k].updated /\ issue[k].state # "none"
    BY <2>3 DEF WInv, Created
  <2> QED
    BY <1>1, <2>1, <2>2, <2>3, IssuesDo DEF IssuesAge
<1>3. ASSUME "overlap" \notin trouble'
      PROVE  /\ Alone(req)' /\ Honest(issue, link, name)'
             /\ \A r \in Requests : Marks(req[r], issue, link, name)'
  <2>1. "overlap" \notin trouble
    BY <1>3, TroubleGrows DEF vars
  <2>2. /\ Alone(req) /\ Honest(issue, link, name)
        /\ \A r \in Requests : Marks(req[r], issue, link, name)
    BY <2>1 DEF WInv
  <2>3. Alone(req')
    BY <1>1, <1>3, <2>2, AloneStays
  <2>4. Honest(issue', link', name')
    BY <1>1, <2>2, HonestStays DEF WInv
  <2>5. \A r \in Requests : Marks(req'[r], issue', link', name')
    BY <1>1, <1>3, <2>2, MarksKept
  <2> QED
    BY <2>3, <2>4, <2>5
<1> QED
  BY <1>1, <1>2, <1>3 DEF WInv

\* The pull never marks a change as seen that it has not applied: where no two
\* requests overlap, a link that bears the time of its issue's last change
\* belongs to an activity whose name is at least as new as the issue's summary.
\* So it is for any number of issues and entities, with failing calls, late and
\* repeated webhooks, users on both sides and requests rolled back.
THEOREM WatermarkHonest == Spec => []PullWatermarkIsHonest
<1>1. WInv => PullWatermarkIsHonest
  <2> SUFFICES ASSUME WInv, NEW e \in Activities, "overlap" \notin trouble, Live(e),
                      link[e].stamp = issue[link[e].key].updated
               PROVE  name[e] >= issue[link[e].key].summary
    BY DEF PullWatermarkIsHonest
  <2>1. e \in Entities /\ link[e].state # "none"
    BY DEF Entities, Live
  <2>2. Newer(issue, link[e].key, link[e].stamp, name[e])
    BY <2>1 DEF WInv, Honest
  <2> QED
    BY <2>2 DEF Newer
<1>2. Spec => []WInv
  BY InitWInv, NextWInv, PTL DEF Spec
<1> QED
  BY <1>1, <1>2, PTL
=============================================================================
