CONSTANTS
    Modulus = 256
    NSAMPLES_GEMSRS = 2
    Sources <- MCSources
    BadLengths = {0, 1, 5, 200, 255}
SPECIFICATION Spec
INVARIANTS WholeEventKept LossIsLocal
PROPERTIES ParsingEnds
