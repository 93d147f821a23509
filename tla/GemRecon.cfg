SPECIFICATION Spec
CONSTANTS
    s1 = s1
    s2 = s2
    Slots = {s1}
    Events <- MCEvents
    Replies <- MCReplies
    MaxEvents = 4
    MaxFiles = 2
    Configured <- MCConfigured
    MappingFile <- MCMappingFile
    ChannelsCount = 4
    Correction <- MCCorrection
    EventsToAverage = 2
    MinimalEvents = 1
    ConstantOffset = 30
    ComModeCut = 1
    Baseline = 25
    PlaneX = "X1"
    PlaneY = "Y1"
    StatLen = 2
    NSigmas = 3
    MinWidth = 2
    MinDistance = 2
    MaxShift = 2
    NX = 3
    NY = 12
    StepX = 2
    StepY = 2
    ModuleChannels = 4
    GemYCh0 = 2
    TimeWindowStart = 0
    DedxThreshold = 15
    ClusterThreshold = 12
    Distance2 = 9
    MaxClust = 4
    MaxHits = 2
INVARIANTS EventPlotsTogether PeakOnItsApv ParityWithLegacy EnergyIsKept MarkersAreOwn
CHECK_DEADLOCK FALSE
