SPECIFICATION MemorySpec
CONSTANTS
    PageCount = 6
    LowPages = 1
    BootPages = 1
    ImageBase = 1
    UserBase = 2
    UserEnd = 4
    ReserveAlign = 2
    Window = 6
    Values = {0, 1, 2}
    Zeros = 0
    Images = {1, 2}
    GenerationSize = 2
    MaxRelaunches = 2
    MaxSize = 2
    LongCode = {2}
    CacheEntries = 2
    MaxEpoch = 3
    Stored = 2
    Stores = {3}
    CodePages = {1, 2}
INVARIANT DecodedCurrent
CHECK_DEADLOCK FALSE
