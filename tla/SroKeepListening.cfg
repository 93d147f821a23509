SPECIFICATION StreamSpec
CONSTANTS
    WireWords = 11
    Capacity = 11
    BlockWords = 5
    MaxRecordWords = 14
    Sessions <- MCSessions
INVARIANTS KeepListeningSurvives
CHECK_DEADLOCK FALSE
