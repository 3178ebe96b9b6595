\* Segments of two connections, in any order, against the true records; every
\* call returns, on an empty record too.
SPECIFICATION StreamFairSpec
CONSTANTS
    client = client
    server = server
    DirectionKey <- MCDirectionKey
    ConnectionSet <- MCConnectionSet
    HeaderSize = 2
    KeepRecord = 3
    KeepContinuation = 1
    RecordLength = {0, 1, 2, 3, 5, 7}
    MaxPayload = 6
    SeqSpace = 19
INVARIANTS
    ActiveRecordAligned
PROPERTIES
    RecordStartsKept
    FinalOnly
    ControlOnlyKept
    RecordStartConstricted
    EvaluateReturns
