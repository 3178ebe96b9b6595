\* Every packet and every header, in every order, on one connection.
SPECIFICATION Spec
CONSTANTS
    a = a
    b = b
    DirectionKey <- MCDirectionKey
    HeaderSize = 2
    KeepRecord = 2
    KeepContinuation = 1
    RecordLength = {0, 1, 3}
    MaxPayload = 4
    SeqSpace = 6
SYMMETRY EndpointSymmetry
INVARIANTS
    TypeOK
    DirectionsPaired
    ActiveRecordSound
PROPERTIES
    CutNeedsHandshake
    ImplementsContract
    LoopAdvances
