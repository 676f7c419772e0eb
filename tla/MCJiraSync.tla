----------------------------- MODULE MCJiraSync -----------------------------
(* Users, a tracker and budgets for TLC to check JiraSync with. Each budget *)
(* is a story: what may happen in it, and how often.                        *)
EXTENDS JiraSync, TLC

CONSTANTS a1, a2, w1, r1, r2

TwoActivities == {a1, a2}
OneElement == {w1}
ByCode == a1 :> 1 @@ a2 :> 2 @@ w1 :> 1
TwoRequests == {r1, r2}

\* The given numbers, a connection, and nothing else.
Story(given) == [k \in Events |-> IF k \in DOMAIN given THEN given[k]
                                 ELSE IF k = "connect" THEN 1 ELSE 0]

Stories == {
    \* two pushes: one after a change, beside one another, or with failing calls
    Story([push |-> 2, rename |-> 1]),
    Story([push |-> 2, fault |-> 1]),
    Story([push |-> 1, fault |-> 2]),
    Story([push |-> 1, alert |-> 1, remove |-> 1, fault |-> 1]),
    \* a user's changes come by webhook, late or twice, and by pull
    Story([push |-> 1, retitle |-> 1, hook |-> 2, pull |-> 1]),
    Story([push |-> 1, move |-> 1, rename |-> 1, pull |-> 2]),
    \* the echo of the program's own progress
    Story([push |-> 1, progress |-> 1, sync |-> 1, hook |-> 1]),
    Story([push |-> 1, progress |-> 1, sync |-> 1, fault |-> 1]),
    Story([issue |-> 1, link |-> 1, move |-> 1, sync |-> 1, hook |-> 1]),
    \* links by hand, in each direction
    Story([issue |-> 1, link |-> 1, push |-> 1, rename |-> 1]),
    Story([issue |-> 1, link |-> 1, retitle |-> 1, hook |-> 2, pull |-> 1]),
    Story([issue |-> 1, link |-> 1, progress |-> 1, sync |-> 1, pull |-> 2]),
    \* issues, links and entities that go away
    Story([push |-> 1, erase |-> 1, hook |-> 2]),
    Story([push |-> 2, unlink |-> 1]),
    Story([push |-> 1, erase |-> 1, pull |-> 1, sync |-> 1, fault |-> 1]),
    \* sync switched off and the integration deleted
    Story([push |-> 1, switch |-> 1, disconnect |-> 1, hook |-> 1, pull |-> 1])
}
=============================================================================
