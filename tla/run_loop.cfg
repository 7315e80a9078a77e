SPECIFICATION FairSpec
CONSTANTS
    MaxThreads = 3
    Timer = {1}
    Dpc = {1}
    Vector = {"gpu"}
    Delays = {1}
    VblankInterval = 2
    SliceCancels = 2
    MaxTicks = 1
    Setups <- AllTitles
 
PROPERTIES QueuedDpcRuns DeadlineReached ComputeCannotStarve
