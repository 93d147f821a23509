SPECIFICATION Spec
CONSTANTS
    Address <- MCAddress
    Inputs <- MCInputs
INVARIANTS LinksAsPairwise
