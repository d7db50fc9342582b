SPECIFICATION FairSpec
CONSTANTS
    Rows = {1, 2}
    Unmappable = {1}
    Tasks <- MCTasks
    Frail <- MCFrail
    BatchSize = 1
    MaxRetries = 1
    MaxFaults = 2
INVARIANTS TypeOK NoRowLost RepeatedOnlyRolledBack StoppedLeavesNoLease
PROPERTIES EveryRowArrives
CHECK_DEADLOCK FALSE
