SPECIFICATION StartupSpec
CONSTANTS
    Name <- MCName
    Empty = ""
    Token <- MCToken
    NumberOf <- MCNumberOf
    Line <- MCLine
    LineBound = 5
    Uint32Max = 100000
    Uint64Max = 200000
\* A program that captures, feeds or has returned goes on in other modules.
CHECK_DEADLOCK FALSE
INVARIANTS
    StartupTypeOK
    LastAssignmentCounts
    AcceptsWhatFits
    RunsWhatTextSays
