SPECIFICATION ReadersSpec
CONSTANTS
    Files <- MCFiles
    ForeignEvents <- MCForeignEvents
    IsForeign <- MCIsForeign
    Contents <- MCContents
    DEFAULT_READ_BUFF_LEN = 8
    Uint16 = 8
INVARIANTS CutCostsOnlyTheCut ForeignFilesAlike
PROPERTIES MmapReadsTheFile HdevioReadsTheFile
