SPECIFICATION Spec
CONSTANTS
    Base = 8
    IntOctets = 2
    WideOctets = 3
    Pack = 5
    MaxSubid = 31
    MaxSubids = 3
    Subids <- MCSubids
    MaxContent = 5
INVARIANTS NumbersReadBack NamesReadBack
CHECK_DEADLOCK FALSE
