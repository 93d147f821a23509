SPECIFICATION StreamSpec
CONSTANTS
    WireWords = 11
    Capacity = 11
    BlockWords = 5
    MaxRecordWords = 14
    Sessions <- MCSessions
INVARIANTS StoredInOrder NothingDropped
PROPERTIES EndIsReached HandedOver
CHECK_DEADLOCK FALSE
