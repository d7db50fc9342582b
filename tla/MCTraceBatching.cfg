SPECIFICATION FairSpec
CONSTANTS
    Traces = {1, 2}
    Dispatchers <- MCDispatchers
    MaxSize = 2
    MaxEstimate = 1
    MaxUpdates <- MCMaxUpdates
    MaxTroubles = 1
INVARIANTS TypeOK NoUpdateLost WholeTraceKnown RepeatedOnlyAfterFault
PROPERTIES EveryUpdateSettles
CHECK_DEADLOCK FALSE
