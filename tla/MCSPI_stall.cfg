\* A master that sends by interrupt.
CONSTANTS
    Master = TRUE
    Unit = 1
    Lengths = {1, 2}
    LenMod = 4
    Uses = {"tx"}
    ModeFaults = FALSE
SPECIFICATION FairSpec
PROPERTY TransmissionCompletes
