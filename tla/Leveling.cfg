\* Serial and parallel leveling of small programs with every choice of options.
SPECIFICATION Spec
CONSTANTS
    a = a  b = b  c = c  crew = crew  crane = crane  Never = Never
    Activities <- ThreeActivities
    Resources <- TwoResources
    Rank <- ById
    Projects <- SmallProjects
    Capacity = 2
    SearchDays = 6
    Rounds = {5}
    DefaultRounds = 5
INVARIANTS
    TypeOK
    LinksStayHonoured
    MovesAreExplained
    LeftoversAreStuck
PROPERTIES
    SlotsAreFree
    LevelingEnds
CHECK_DEADLOCK FALSE
