\* Two edits with overlapping, reordered or lost pushes, default dates; the worker only compares.
SPECIFICATION Spec
CONSTANTS
    OIDs = {o1, o2}
    Numbers = {1}
    Levels = {g1}
    g1 = g1  g2 = g2  c1 = c1  c2 = c2  d1 = d1  d2 = d2
    NoAccess = NoAccess
    Always = Always
    Doors = {d1}
    Controllers = {c1}
    ControllerOf <- OneDoor
    Slot <- Slots
    RuleAllows <- NoRules
    RuleForbids <- NoRules
    DefaultPeriod <- Default
    RowKeepsNumber = FALSE
    Workers = {w1}
    Synchronizers = {}
    LoadedCards <- EmptyOrOne
    LoadedLevels <- OneLevel
    ForeignEntries <- Foreign
    Memberships <- Member
    Periods = {0}
    LevelDoorSets <- AllDoors
    Schedules = {FALSE}
    MaxEdits = 2
    MaxOps = 1
    MaxFaults = 1
INVARIANTS TypeOK UniqueConfigured
PROPERTIES EditsReachControllers DivergenceFlagged FoundCardsFollow
