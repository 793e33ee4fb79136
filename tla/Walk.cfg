SPECIFICATION FairSpec
CONSTANTS
    Oids <- MCOids
    Base <- MCBase
    MaxRepetitions = 4
    MaxVarbinds = 3
INVARIANTS DeliveredInOrder CompleteIsWhole CancelledIsTold OneBatchRacesStop
PROPERTY Terminates
CHECK_DEADLOCK FALSE
