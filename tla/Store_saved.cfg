\* One access level and one member, edits, restores, imports and a restart.
SPECIFICATION Spec
CONSTANTS
    Kinds = {"groups", "cards"}
    Tags <- LevelsAndCards
    InitialFiles <- OneMember
    InitialArchives <- Earlier
    MaxOID = 2
    Existing = 2
    MaxRecords = 4
    MaxRequests = 2
    MaxJobs = 1
    MaxRestarts = 1
INVARIANTS TypeOK SavedAsAcknowledged ReferencesKeepTheirTarget
PROPERTIES BackupIsACut
