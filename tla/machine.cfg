INIT MCInit
NEXT MCNext
VIEW MCView
CHECK_DEADLOCK FALSE
CONSTANTS
    ByteBits = 2
    NibbleBits = 1
    Probes <- MCProbes
    Programs <- MCPrograms
    PageSize = 16
    MaxLength = 5
    MaxRep = 2
    SegmentBase <- MCSegments
    TscSize = 64
    MaxSteps = 10
    Slots = 3
    FloatProbes <- MCFloatProbes
    FractionBits = 3
    ExponentBits = 4
    ExtraBits = 2
    StoreMax = 3
    VectorProbes <- MCVectorProbes
    VectorPrograms <- MCVectorPrograms
    Blocks <- MCBlocks
    MaxInstructions = 3
    MaxBlockBytes = 6
    PageCount = 6
    LowPages = 1
    BootPages = 1
    ImageBase = 1
    UserBase = 2
    UserEnd = 4
    ReserveAlign = 2
    Window = 6
    Values = {0, 1, 2}
    Zeros = 0
    Images = {1, 2}
    GenerationSize = 2
    MaxRelaunches = 2
    MaxSize = 2
    LongCode = {2}
    CacheEntries = 2
    MaxEpoch = 3
    Stored = 2
    Stores = {3}
    CodePages = {1, 2}
INVARIANTS ProgramsEndAsDefined ArithmeticExact FloatStackRefined UnitsAgree TranslationAgrees
INVARIANTS OneOwner PoolZeroed CachesCurrent PagesPartitioned
PROPERTIES RelaunchIntact
