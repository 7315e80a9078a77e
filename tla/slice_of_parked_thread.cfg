SPECIFICATION Spec
CONSTANTS
    MaxThreads = 2
    MaxEvents = 0
    MaxMutants = 0
    Object = {}
    MaxTime = 2
    MaxRecursion = 2
    NullPointer = NullPointer
    Timeouts <- ForeverOrOne
    MultiKeys <- NoMulti
    MutantMisuse = FALSE
    Interpreter = TRUE
PROPERTIES ReadyContextKept
