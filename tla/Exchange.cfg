SPECIFICATION PromptSpec
CONSTANTS
    r1 = r1
    r2 = r2
    a1 = a1
    a2 = a2
    None = None
    Requests <- MCRequests
    Endpoints <- MCEndpoints
    Communities = {"public", "private"}
    Target <- MCTarget
    CommunityOf <- MCCommunityOf
    FamilyOf <- MCFamilyOf
    Retries = 1
    MaxId = 2
CHECK_DEADLOCK FALSE

INVARIANTS PendingIsExact ReplyIsOwn StopLeavesNothing TimeoutMeansExhausted
PROPERTIES NoSendOnceOver KeepsPromise StopIsPrompt KeepsPromiseInTime
