SPECIFICATION FairSpec
CONSTANTS
    Prompts <- MCPrompts
    Uses <- MCUses
    Asked = {"agent"}
    Readers <- MCReaders
    Writers = {"w1"}
    MaxEvents = 2
INVARIANTS FreshRead
PROPERTIES CacheCatchesUp
CHECK_DEADLOCK FALSE
