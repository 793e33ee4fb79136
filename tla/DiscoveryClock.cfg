SPECIFICATION Spec
CONSTANTS
    r1 = r1
    r2 = r2
    a1 = a1
    g1 = g1
    g2 = g2
    None = None
    Requests <- MCRequests
    Endpoints = {a1}
    Engines = {g1, g2}
    Target <- OneTarget
    Level <- BothAuth
    MaxBoots = 3
    MaxTime = 0
    Ceiling = 3
    Events = {"clock", "move"}
    Types = {"Response"}
    Seals = {"signed", "unsigned"}
    Signals = {"total"}
    Faults = {}
INVARIANTS CancelledIsTold NoneTrustedAtCeiling
PROPERTY OnlySyncSetsBack
SYMMETRY Symmetry
CHECK_DEADLOCK FALSE
