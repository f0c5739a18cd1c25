CONSTANTS
    N = 3
    Ids <- MCIds
    NoId = 0
    NoPlugin = 0
    Discoveries <- MCDiscoveries
SPECIFICATION FairSpec
INVARIANTS
    TypeOK
    RequiredBefore
    ListedOnce
    CyclesBroken
    NoReentry
    ReasonsHold
PROPERTIES
    KeepsPromise
    Returns
