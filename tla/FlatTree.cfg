SPECIFICATION Spec
CONSTANTS
    w1 = w1
    w2 = w2
    w3 = w3
    Inputs <- MCInputs
    Workers = {w1, w2, w3}
    NoWorker = NoWorker
    MaxSampled = 2
    FlushEvents = 2
    IndexRange = 4
INVARIANTS RowsAreOwn CutoffIsSharp
PROPERTIES ImplementsRowsWritten
