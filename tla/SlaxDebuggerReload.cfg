CONSTANTS
    Versions <- MCVersions
    Kind <- MCKind
    Line <- MCLine
    Locations <- MCLocations
    MaxFrames = 2
    MaxBreaks = 1
    ReloadFails <- MCFailsAny
    Timed <- MCTimed
    LastLine = 2  MaxClock = 5  TimedFrames = 2  MaxHits = 2
    Globals = {"g"}  Locals = {"l"}  Others = {"v"}  Imported = {}
    Input <- MCInput
    Trees <- MCTrees
    Strings = {"s"}
    MaxDocs = 3  MaxKids = 2  MaxStatements = 5
SPECIFICATION RunningSpec
CHECK_DEADLOCK FALSE
INVARIANT NoDangling
