SPECIFICATION Spec
CONSTANTS
    Users <- MCUsers
    Engines <- MCEngines
    Stamps <- MCStamps
    Sizes = {8, 13}
    Word = 2
INVARIANTS CacheIsExact IvIsFresh OpensAsSealed
CHECK_DEADLOCK FALSE
