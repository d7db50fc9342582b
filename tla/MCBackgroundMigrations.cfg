SPECIFICATION FairSpec
CONSTANTS
    Migrations = {1, 2, 3, 4}
    Workers = {"w1", "w2"}
    Enabled <- FirstDormant
    Invalid = {3}
    MaxEvents = 1
INVARIANTS TypeOK OneAtATime NotSettledUnderHolder FinishedWasDone
PROPERTIES AllSettle
CHECK_DEADLOCK FALSE
