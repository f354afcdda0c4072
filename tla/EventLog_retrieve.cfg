\* Two overlapping refreshes of one controller that overwrites its oldest events.
SPECIFICATION Spec
CONSTANTS
    Controllers = {c1}
    c1 = c1  c2 = c2
    Order <- Sequential
    Workers = {w1, w2}
    Capacity = 3
    MaxGaps = 2
    MaxBatch = 1
    InitialLast = {3}
    InitialFiles <- Gapped
    LanEdits = TRUE
    MaxIndex = 4
    MaxFaults = 1
    MaxRestarts = 1
INVARIANTS TypeOK BlanksAreGone
PROPERTIES SavedEventsKept EventsRetrieved
