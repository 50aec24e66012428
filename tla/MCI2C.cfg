\* Transfers of one, two and three bytes, which the driver treats differently,
\* both ways, blocking and by interrupt, with and without a repeated start.
CONSTANTS
    Lengths = {1, 2, 3}
    Faults = {"AF", "BERR", "ARLO"}
SPECIFICATION FairSpec
CHECK_DEADLOCK FALSE
INVARIANTS
    TypeOK
    WithinBuffer
    ReportedOnce
    NoUnwantedByte
    WholeTransferReported
PROPERTIES
    StopOnlyAtEnd
    TransferCompletes
    CallReturns
