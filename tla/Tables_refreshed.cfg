\* Gets and posts that overtake each other in Table, one get at a time in Pages.
SPECIFICATION TablesSpec
CONSTANTS
    Records = {"r1"}
    Texts = {"blank", "a", "b"}
    Blank = "blank"
    None = None
    Arrived = Arrived
    Pending = Pending
    MaxEvents = 5
    MaxGets = 2
    MaxPosts = 2
    PageRecords = 2
    MaxPageGets = 1
    MaxPageEvents = 4
    Numbers = {1, 10}
    FieldTexts = {"blank", "a"}
    MaxObjectEvents = 2
    Dates = {"d1", "d2"}
    Zones = {"local", "UTC", "GMT", "old"}
    KnownZones = {"local", "UTC", "GMT"}
    Time <- NameOfZone
    DefaultTime = "local"
    Typed = {"x", ""}
    PageRows <- TwoRows
    PageFields <- ThreeFields
    Section = "section"
    MaxEdits = 2
    MaxPosted = 1
    MaxChanges = 5
    MaxKeys = 7
    NoChoice = NoChoice
INVARIANTS TablesTypeOK UnmarkedIsStored FieldsAgree
PROPERTIES DraftsAreKept PagesAgree TablesConverge
CHECK_DEADLOCK FALSE
