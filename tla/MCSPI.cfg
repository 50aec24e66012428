\* A master that sends 16-bit frames by interrupt, one to three at a time, and
\* makes blocking calls in between.  A mode fault is the only way into
\* SPI_OVR_Handle.
CONSTANTS
    Master = TRUE
    Unit = 2
    Lengths = {2, 4, 6}
    LenMod = 8
    Uses = {"tx"}
    ModeFaults = TRUE
SPECIFICATION FairSpec
INVARIANTS TypeOK WithinBuffer ReportedOnce EnabledWhileBusy
PROPERTIES ImplementsTransfer SendReturns
