SPECIFICATION ParseSpec
CONSTANTS
    Modulus = 512
    MaxErrors = 20
    Large = 200
    EcalRocs = {"ecal1"}
    PayloadIds = {"p1", "p2"}
    SoundBlocks <- MCBlocks
    Damages <- MCDamages
INVARIANTS SlicesPartitionHits BanksNest HitsElsewhereFound LazyAsEager
PROPERTY EventuallyParsed
