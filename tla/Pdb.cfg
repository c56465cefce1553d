SPECIFICATION Spec
CONSTANTS
    Room = 61  PmhBytes = 8  Align = 4
    Stems <- MCStems  LongNames <- MCLongNames  SizeOf <- MCSizeOf
    AtomShift = 2  OffsetShift = 1  MaxPow2 = 2  HeaderBytes = 1
    LogWrap = 64  SizeWrap = 4  MaxPages = 4  ReqSizes <- MCReqSizes
    TextBytes = 2  PerPage = 4  PageSlots = 4  MaxIndex = 4  ByteValues = 8  Word = 64
    MaxOpens = 1  Lengths <- MCLengths  ShortBytes <- MCShortBytes
    MaxNodes = 4  MaxPatOpens = 2  Keys <- MCKeys  Heads <- MCHeads
INVARIANTS HeadersSound PoolSound StringsKept TreeAnswers
PROPERTY OverlapsRefused
CHECK_DEADLOCK FALSE
