CONSTANTS
    AtomBytes = 2
    DefaultCount = 2
    InitCount = 3
    MaxSize = 14
    AddrSlots = 1
    AddrWrap = 64
    ReqSizes <- MCReqSizes
    LenBound = 9
SPECIFICATION Spec
INVARIANTS NoOverlap InSegment SegmentSound
PROPERTY StoreSpec
