SPECIFICATION FairSpec
CONSTANTS
    t1 = t1
    t2 = t2
    r1 = r1
    r2 = r2
    r3 = r3
    Tables = {t1, t2}
    Rows = {r1, r2, r3}
    TableOf <- TwoTables
    BatchSize = 2
    MaxAttempts = 2
    CanTruncate = TRUE
INVARIANTS TypeOK NoRowLost HeldOnce DroppedOnlyExhausted RepeatedOnlyDoubtful
    ClosedLeavesOnlyRequeued
PROPERTIES ImplementsContract AcceptedRowsSettle
