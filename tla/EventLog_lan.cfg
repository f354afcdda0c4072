\* The LAN is edited between two refreshes, no faults.
SPECIFICATION Spec
CONSTANTS
    Controllers = {c1}
    c1 = c1  c2 = c2
    Order <- Sequential
    Workers = {w1}
    Capacity = 3
    MaxGaps = 2
    MaxBatch = 1
    InitialLast = {3}
    InitialFiles <- Gapped
    LanEdits = TRUE
    MaxIndex = 4
    MaxFaults = 0
    MaxRestarts = 0
PROPERTY BatchHandedOff
