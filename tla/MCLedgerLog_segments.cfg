CONSTANTS
    MaxRecords = 3
    MaxBatch = 2
    MaxCrashes = 2
    MaxFaults = 1
    Faults <- OtherFaults
    CompactsWhen <- HealthyOnly
    NamesSynced = TRUE
    DirtyKills = FALSE
SPECIFICATION Spec
INVARIANTS
    TypeOK
    Openable
    MemoryAgrees
PROPERTY Implements
