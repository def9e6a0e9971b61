CONSTANTS
    MaxRecords = 2
    MaxBatch = 1
    MaxCrashes = 1
    MaxFaults = 1
    Faults = {"renamed", "created", "committed"}
    CompactsWhen <- Statuses
    NamesSynced = TRUE
    DirtyKills = FALSE
SPECIFICATION Spec
PROPERTY Implements
