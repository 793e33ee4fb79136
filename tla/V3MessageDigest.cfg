SPECIFICATION Spec
CONSTANTS
    EngineIds <- MCEngineIds
    UserNames <- MCUserNames
    Scoped <- MCScoped
    Widths <- MCWidths
    Flipped <- MCFlipped
INVARIANTS SignedIsAccepted AcceptedIsIntact DecodedAsFlagged
CHECK_DEADLOCK FALSE
