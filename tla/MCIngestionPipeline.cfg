SPECIFICATION Spec
CONSTANTS
    Files = {1, 2}
    Types = {"create", "update"}
    TypeOf <- TwoTypes
    StartOf <- LateStart
    KindOf <- OneKind
    Day = 4
    Procs = {"w1", "w2"}
    Slots = {"w1", "w2"}
    Home <- OwnProc
    SkipS3List = TRUE
    ReadSkipped = FALSE
    SeenEnabled = TRUE
    SlowdownEnabled = TRUE
    Attempts <- TwoAttempts
    NonSlowdownAttempts = 2
    MaxStalls = 1
    Faults = {"crash", "failure", "resend", "request", "redis", "slowdown"}
    FailPoints <- Anywhere
    MaxFaults = 1
    JobIds = {1, 2, 3, 4, 5}
INVARIANTS TypeOK  SkippedIsCovered
PROPERTIES SettledStays
CHECK_DEADLOCK FALSE
