SPECIFICATION Spec
CONSTANTS
    Octets <- MCOctets
    Expected <- MCExpected
    MaxBuf = 5
    MaxDepth = 2
INVARIANT InBounds
PROPERTIES ReadsItsElement Advances
CHECK_DEADLOCK FALSE
