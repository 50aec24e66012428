\* Full duplex: both directions by interrupt, with 9-bit frames, blocking calls
\* in between and callbacks that start the next transfer.
CONSTANTS
    Unit = 2
    Lengths = {2, 4}
    LenMod = 6
    Uses = {"tx", "rx"}
SPECIFICATION FairSpec
INVARIANTS TypeOK WithinBuffer ReportedOnce AllSentWhenClosed
PROPERTIES TransmissionImplementsTransfer ReceptionImplementsTransfer
