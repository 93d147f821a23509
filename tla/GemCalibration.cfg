CONSTANTS
    w1 = w1
    w2 = w2
    NotSet = NotSet
    Workers <- MCWorkers
    Apvs <- MCApvs
    Contents <- MCFaultyEvents
    MinEvents = 1
    EventsToAverage = 2
    FreezeAfter = 2
    StatLen = 2
    MaxEvents = 5
SPECIFICATION Spec
INVARIANTS LearningIsBounded SnapshotsAgreeUpToInFlight AveragedAreCounted
PROPERTIES ClosedWindowIsForever EventuallyFrozen ImplementsLifecycle
