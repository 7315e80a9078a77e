SPECIFICATION Spec
CONSTANTS
    MaxThreads = 2
    MaxEvents = 1
    MaxMutants = 1
    Object = {}
    MaxTime = 0
    MaxRecursion = 2
    NullPointer = NullPointer
    Timeouts <- JustForever
    MultiKeys <- EventAndMutant
    MutantMisuse = TRUE
    Interpreter = FALSE
INVARIANTS MutantExclusion
