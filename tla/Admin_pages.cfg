\* A secret is shown for 1 of the 3 ticks it is kept. Keys rotate every 3 x 5 minutes.
SPECIFICATION AdminSpec
CONSTANTS
    Oids = {"u1", "u2", "u3"}
    Me <- MCMe
    Uids = {"a", "b", "c"}
    Same <- SameUid
    Pwds = {"p"}
    Flags = {"otp"}
    Loaded <- MCLoaded
    NoAccount = NoAccount
    New = New
    Blank = "blank"
    MaxEvents = 2
    Tabs = {t1}
    SessionIds = {s1}
    LoginIds = {l1}
    Regenerate = 3
    IdleTime = 2
    Expiry = 4
    MaxCalls = 2
    Absent = Absent
    Nothing = Nothing
    Clear = Clear
    Keys = {k1, k2}
    PageTicks = 1
    ServerTicks = 3
    MaxFetches = 2
    MaxClicks = 4
    None = None
    Passwords = {"p", "q"}
    NoMessage = NoMessage
    MaxAttempts = 2
    n1 = n1
    n2 = n2
    d1 = d1
    d2 = d2
    Numbers <- MCNumbers
    Details <- MCDetails
    Controllers = {"c1", "c2"}
    NoEntry = NoEntry
    Timed = Timed
    HeldAtFirst <- Held
    MaxChanges = 4
    MaxBackups = 2
    MaxEntries = 3
    MaxSeconds = 2
    PageSize = 1
    Top = 1
    Offset = 1
    Unknown = Unknown
    MaxLogs = 2
INVARIANTS AdminTypeOK AdministratorIsLeft StaysSignedIn SecretsAgree ChangesAsSaid
PROPERTIES ImportAsChosen FeedIsComplete
CHECK_DEADLOCK FALSE
