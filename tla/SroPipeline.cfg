SPECIFICATION Spec
CONSTANTS
    Inputs <- MCInputs
    Modes <- MCModes
    Workers = {w1, w2}
    NoWorker = NoWorker
    MaxSlices = 2
    MaxEvents = 2
    ClusterRows = 2
INVARIANTS BodyStaysReadable NoBlockLost
PROPERTY ImplementsRowsWritten
