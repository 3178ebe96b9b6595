\* A disk that fills up while the last buffer is flushed.
SPECIFICATION Spec
CONSTANTS
    DiskSpace = 2
    Config <- MCConfig
    NonblockOutcomes = {TRUE, FALSE}
    PacketBound = 3
INVARIANTS
    InterruptedOutputValid
