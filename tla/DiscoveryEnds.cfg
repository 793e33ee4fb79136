SPECIFICATION PromptSpec
CONSTANTS
    r1 = r1
    r2 = r2
    a1 = a1
    g1 = g1
    g2 = g2
    None = None
    Requests <- MCRequests
    Endpoints = {a1}
    Engines = {g1}
    Target <- OneTarget
    Level <- OneAuth
    MaxBoots = 1
    MaxTime = 0
    Ceiling = 3
    Events = {"stop"}
    Types = {"Response", "unknownEngineIDs"}
    Seals = {"signed", "unsigned", "wrongCipher"}
    Signals = {"terminal"}
    Faults = {"request", "identify", "sync", "throw"}
INVARIANTS ReplyIsVouchedFor QueuedIsServed CancelledIsTold TrustedIsSigned
PROPERTIES StopIsPrompt OthersComplete
CHECK_DEADLOCK FALSE
