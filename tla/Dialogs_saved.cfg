\* Each dialog with the bound of its own on what comes in between.
SPECIFICATION DialogsSpec
CONSTANTS
    Blank = Blank
    None = None
    New = New
    Typed <- Typings
    Picked <- Dates
    Stored <- Records
    Today <- TodayIs
    Doors = {"d1", "d2"}
    LoadedFields <- OneOrTwoDoors
    LoadedSlots <- FirstOnFirst
    Channels = {"k1", "k2"}
    Settings = {"a", "b"}
    Nothing = Nothing
    Unnamed = Unnamed
    MaxDoorEvents = 2
    Cards = {"c1", "c2", "c3"}
    Names = {"p", "q"}
    Teams = {"ungrouped", "m"}
    Ungrouped = "ungrouped"
    Numbers = {"n1", "n2"}
    Terms = {"t"}
    Groups = {"none", "l1", "l2"}
    NoAccess = "none"
    Titles = {"x", "y", "z"}
    Loaded <- Loadings
    LoadedRules <- TwoLevels
    Absent = Absent
    NewRecord = NewRecord
    NotSet = NotSet
    MaxCardEvents = 2
    Levels = {1, 256}
    Slots = {1}
    Relays = {"r1", "r2"}
    Days = {"mon", "sat"}
    Weekend = {"sat"}
    Times = {8, 17}
    Start = 8
    End = 17
    NoTime = NoTime
    MaxEdits = 4
INVARIANTS DialogsTypeOK EveryDoorHasARow SavedIsShown NumberAgrees DatesInOrder
PROPERTIES DoorsAsSubmitted CardsAsSubmitted
CHECK_DEADLOCK FALSE
