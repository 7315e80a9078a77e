SPECIFICATION MCSpec
CONSTANTS
    MaxThreads = 3
    MaxEvents = 2
    MaxMutants = 1
    Object = {1}
    MaxTime = 1
    MaxRecursion = 2
    NullPointer = NullPointer
    Timeouts <- ForeverOrOne
    MultiKeys <- EventPairs
    MutantMisuse = FALSE
    Interpreter = FALSE
INVARIANTS ContextIntegrity NoLostJoin NoLostWakeup MutantExclusion
PROPERTIES  OneSignalOneWaiter
CHECK_DEADLOCK FALSE
