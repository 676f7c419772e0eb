----------------------------- MODULE MCLeveling -----------------------------
(* Small programs for TLC to check Leveling with: three activities, two     *)
(* resources, spans, loads and links in many combinations.                  *)
EXTENDS Leveling, TLC

CONSTANTS a, b, c, crew, crane

ThreeActivities == {a, b, c}
TwoResources == {crew, crane}
ById == a :> 1 @@ b :> 2 @@ c :> 3
Three(x, y, z) == a :> x @@ b :> y @@ c :> z
Uses(x, y) == crew :> x @@ crane :> y

Link(f, t, type, lag) == [from |-> f, to |-> t, type |-> type, lag |-> lag]

Networks == {
    {},
    {Link(a, c, "FS", 0)},
    {Link(a, b, "SS", 1), Link(b, c, "FS", 0)},
    {Link(a, b, "FF", 0), Link(a, c, "SF", 1), Link(b, c, "FF", -1)}
}

\* One of the programs does not use its crane any more: it is inactive.
Loads == {
    [units |-> Three(Uses(2, 0), Uses(2, 0), Uses(2, 0)), active |-> {crew}],
    [units |-> Three(Uses(1, 0), Uses(2, 1), Uses(1, 2)), active |-> {crew, crane}],
    [units |-> Three(Uses(2, 1), Uses(1, 2), Uses(0, 1)), active |-> {crew}],
    [units |-> Three(Uses(3, 0), Uses(1, 1), Uses(0, 2)), active |-> {crew, crane}]
}

Starts == {Three(0, 0, 1), Three(3, 1, 4), Three(4, 2, 2)}
Spans == {Three(0, 0, 0), Three(1, 2, 0), Three(2, 1, 3)}
Floats == {[float |-> Three(0, 2, 5), critical |-> {a}],
           [float |-> Three(3, 0, 0), critical |-> {b, c}],
           [float |-> Three(2, 2, 9), critical |-> {}]}

SmallProjects ==
    {[start |-> s, span |-> n, float |-> f.float, critical |-> f.critical,
      units |-> l.units, hours |-> Uses(8, 4), active |-> l.active, links |-> links] :
        s \in Starts, n \in Spans, f \in Floats, l \in Loads, links \in Networks}
=============================================================================
