\* A card number is deleted and reissued, no faults.
SPECIFICATION Spec
CONSTANTS
    OIDs = {o1, o2}
    Numbers = {1}
    Levels = {g1}
    g1 = g1  g2 = g2  c1 = c1  c2 = c2  d1 = d1  d2 = d2
    NoAccess = NoAccess
    Always = Always
    Doors = {d1}
    Controllers = {c1}
    ControllerOf <- OneDoor
    Slot <- Slots
    RuleAllows <- NoRules
    RuleForbids <- NoRules
    DefaultPeriod <- NoDefault
    RowKeepsNumber = TRUE
    Workers = {w1}
    Synchronizers = {w1}
    LoadedCards <- EmptyOrOne
    LoadedLevels <- OneLevel
    ForeignEntries <- NothingForeign
    Memberships <- MemberOnly
    Periods = {1}
    LevelDoorSets <- AllDoors
    Schedules = {FALSE}
    MaxEdits = 2
    MaxOps = 2
    MaxFaults = 0
PROPERTY SyncWritesDesired
