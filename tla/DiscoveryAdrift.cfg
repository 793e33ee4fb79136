SPECIFICATION PromptSpec
CONSTANTS
    r1 = r1
    r2 = r2
    a1 = a1
    g1 = g1
    g2 = g2
    None = None
    Requests <- MCRequests
    Endpoints = {a1}
    Engines = {g1}
    Target <- OneTarget
    Level <- BothAuth
    MaxBoots = 1
    MaxTime = 0
    Ceiling = 3
    Events = {}
    Types = {"Response", "notInTimeWindows", "unknownEngineIDs", "unknownUserNames"}
    Seals = {"signed", "unsigned"}
    Signals = {}
    Faults = {"identify"}
PROPERTY EveryRequestCompletes
CHECK_DEADLOCK FALSE
