CONSTANTS
    UnitBits = 2
    ChunkUnits = 2
    ChunkSize = 4
    MaxBlocks = 4
    SetNums <- MCSetNums
    Starts <- MCStarts
SPECIFICATION Spec
INVARIANT BlocksApart
PROPERTIES BitSetSpec FindsNext FindEnds
