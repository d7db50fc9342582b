\* Two faults and no reader: crashes, stalled jobs and refused writes.
SPECIFICATION Spec
CONSTANTS
    c1 = c1
    Readers <- MCNoReaders
    MaxRuns = 2
    MaxBeats = 1
    MaxFaults = 2
INVARIANTS EventsInRunOrder AbortTellsOutcome KeysAreNamed
PROPERTIES SettledStays
CHECK_DEADLOCK FALSE
