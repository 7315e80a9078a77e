SPECIFICATION FileLoopSpec
VIEW KernelView
CHECK_DEADLOCK FALSE
CONSTANTS
    Paths <- MCPaths
    LinkTargets <- MCTargets
    Letters = {"T"}
    HostTrees <- MCHosts
    MaxOpens = 10200
    MaxSize = 3
    FileHandleBase = 256
    FileHandleStep = 4
    EventHandleBase = 40960
    MutantHandleBase = 45056
    ThreadHandleBase = 57344
    MaxObjects = 3
    MaxPageCount = 4
    MaxSectionCount = 6
    SectionThread = {0, 1, 2, 3}
    MaxEntries = 4
INVARIANTS RangesDisjoint
