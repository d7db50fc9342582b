SPECIFICATION Spec
CONSTANTS
    Files = {1}
    Types = {"create", "update"}
    TypeOf <- OneType
    StartOf <- NoStart
    KindOf <- OneKind
    Day = 4
    Procs = {"worker"}
    Slots = {"s1"}
    Home <- OneProc
    SkipS3List = FALSE
    ReadSkipped = FALSE
    SeenEnabled = TRUE
    SlowdownEnabled = TRUE
    Attempts <- TwoAttempts
    NonSlowdownAttempts = 2
    MaxStalls = 1
    Faults = {"failure"}
    FailPoints <- Anywhere
    MaxFaults = 1
    JobIds = {1, 2, 3, 4, 5}
INVARIANTS SkippedIsMerged
CHECK_DEADLOCK FALSE
