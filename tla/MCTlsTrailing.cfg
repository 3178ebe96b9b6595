\* A cut that removes bytes that are not Application Data.
SPECIFICATION StreamSpec
CONSTANTS
    client = client
    server = server
    DirectionKey <- MCDirectionKey
    ConnectionSet <- MCConnectionSet
    HeaderSize = 2
    KeepRecord = 3
    KeepContinuation = 1
    RecordLength = {0, 1, 2, 3, 5, 7}
    MaxPayload = 6
    SeqSpace = 19
PROPERTIES
    OnlyAppDataRemoved
