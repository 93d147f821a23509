SPECIFICATION Spec
CONSTANTS
    Script <- MCEveryKind
    PayloadUnits = 2
    MaxCuts = 1
INVARIANTS RunIsComplete StreamInStep
PROPERTIES ClosedLinkEndsSource
