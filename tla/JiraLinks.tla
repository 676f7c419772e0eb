----------------------------- MODULE JiraLinks -----------------------------
(***************************************************************************)
(* What the rows of jira_mappings promise: the life of the link between an *)
(* entity of the program and an issue of the tracker. A link is made once, *)
(* to an issue that no other link names, in a direction that never         *)
(* changes; it may be taken away, and then it is neither restored nor      *)
(* replaced, because the unique constraints of the table count the rows    *)
(* that are soft-deleted too.                                              *)
(***************************************************************************)
CONSTANTS
    Entities,     \* activities and WBS elements
    Keys,         \* issue keys of the tracker
    Directions    \* which sides a link lets through

VARIABLE life     \* the link of each entity

None == [state |-> "none"]
Link == [state : {"live", "gone"}, key : Keys, direction : Directions]

TypeOK == life \in [Entities -> Link \cup {None}]

Init == life = [e \in Entities |-> None]

Linked == {e \in Entities : life[e] # None}

\* One transaction links any number of entities, each to an issue of its own.
Attach ==
    /\ TypeOK'
    /\ \A e \in Linked : life'[e] = life[e]
    /\ \A e \in Entities \ Linked :
          life'[e] # None =>
             /\ life'[e].state = "live"
             /\ \A f \in Entities \ {e} :
                   life'[f] # None => life'[f].key # life'[e].key

\* An issue or its mapping is deleted.
Detach(e) ==
    /\ e \in Linked
    /\ life' = [life EXCEPT ![e].state = "gone"]

Next == Attach \/ \E e \in Entities : Detach(e)

Spec == Init /\ [][Next]_life
=============================================================================
