SPECIFICATION FairSpec
CONSTANTS
    Files = {1, 2}
    Types = {"create", "update"}
    TypeOf <- OneType
    StartOf <- LateStart
    KindOf <- TwoKinds
    Day = 4
    Procs = {"worker"}
    Slots = {"s1", "s2"}
    Home <- OneProc
    SkipS3List = FALSE
    ReadSkipped = FALSE
    SeenEnabled = TRUE
    SlowdownEnabled = TRUE
    Attempts <- TwoAttempts
    NonSlowdownAttempts = 2
    MaxStalls = 1
    Faults = {"crash", "failure", "redis", "slowdown"}
    FailPoints <- Anywhere
    MaxFaults = 1
    JobIds = {1, 2, 3, 4, 5}
INVARIANTS Converged
PROPERTIES AcceptedIsShown
CHECK_DEADLOCK FALSE
