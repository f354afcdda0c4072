\* Two credentials, a level and No Access; three refreshes make five minutes, one a minute.
SPECIFICATION ConsoleSpec
CONSTANTS
    Cards = {1, 2, 3}
    CardSets <- MCCardSets
    Items = {1, 254}
    Title <- NameOf
    Me = 1
    Modes = {"open", "close"}
    Words = {"Ann", "g1"}
    Kinds = {"card", "unknown"}
    Blank = "blank"
    Same <- SameName
    MaxEvents = 2
    IdleTicks = 3
    OfflineTicks = 1
    MaxRequests = 2
    MaxClicks = 2
    MaxOutages = 2
    Never = Never
INVARIANTS ConsoleTypeOK PageFollowsSearch
PROPERTIES EmptiedOnlyAfterFive ConsoleConverges PageEnds WindmillStops
CHECK_DEADLOCK FALSE
