CONSTANTS
    SetArgs <- MCCurlSets
    PerformArgs <- MCCurlCalls
    Replies <- MCCurlReplies
    MaxCalls = 3
    Accepts <- MCAccepts
    Selects <- MCSelects
    Plain <- MCPlain
    Meant <- MCMeant
    Databases = {"d1", "d2"}
    Existing = {"d1"}
    Asks <- MCAsks
    Conds <- MCConds
    Batches <- MCBatches
    MaxHandles = 2
    MaxCursors = 2
    MaxBatches = 2
SPECIFICATION MCSpec
INVARIANT CloseFrees
CHECK_DEADLOCK FALSE
