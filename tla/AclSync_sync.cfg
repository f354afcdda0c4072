\* 'synchronize' mode: two controllers, one of which may not answer, foreign cards, two levels that may both get a schedule.
SPECIFICATION Spec
CONSTANTS
    OIDs = {o1, o2}
    Numbers = {1}
    Levels = {g1, g2}
    g1 = g1  g2 = g2  c1 = c1  c2 = c2  d1 = d1  d2 = d2
    NoAccess = NoAccess
    Always = Always
    Doors = {d1, d2}
    Controllers = {c1, c2}
    ControllerOf <- DoorEach
    Slot <- Slots
    RuleAllows <- NoRules
    RuleForbids <- NoRules
    DefaultPeriod <- NoDefault
    RowKeepsNumber = TRUE
    Workers = {w1}
    Synchronizers = {w1}
    LoadedCards <- EmptyOrOne
    LoadedLevels <- OneOrTwoLevels
    ForeignEntries <- Foreign
    Memberships <- TwoSchedule
    Periods = {1}
    LevelDoorSets <- AllDoors
    Schedules = {TRUE, FALSE}
    MaxEdits = 1
    MaxOps = 1
    MaxFaults = 1
PROPERTY Converges
