\* An access level is deleted, the program restarts, another is created.
SPECIFICATION Spec
CONSTANTS
    Kinds = {"groups", "cards"}
    Tags <- LevelsAndCards
    InitialFiles <- OneMember
    InitialArchives = {}
    MaxOID = 2
    Existing = 2
    MaxRecords = 4
    MaxRequests = 2
    MaxJobs = 0
    MaxRestarts = 1
INVARIANT OIDsIdentify
