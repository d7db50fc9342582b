\* One reader, no fault: the races between worker, readers and web requests.
SPECIFICATION FairSpec
CONSTANTS
    c1 = c1
    Readers <- MCReaders
    MaxRuns = 2
    MaxBeats = 1
    MaxFaults = 0
INVARIANTS TypeOK OneUnsettled
PROPERTIES CancelHeeded LostOnlyIfStale AllRunsSettle
CHECK_DEADLOCK FALSE
