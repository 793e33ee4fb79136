SPECIFICATION Spec
CONSTANTS
    r1 = r1
    r2 = r2
    None = None
    Requests <- MCRequests
    Window = 2
    Life = 1
    BootsCeiling = 3
    TimeCeiling = 3
    Claims <- MCClaims
    Breaks = {"reboot", "reset", "back", "forward"}
    MaxNow = 4
    MaxBoots = 2
    MaxRuns = 1
SYMMETRY Symmetry
INVARIANTS TypeOK ProjectionIsClose UntimelyIsOld
PROPERTY OutOfStepRecovers
CHECK_DEADLOCK FALSE
