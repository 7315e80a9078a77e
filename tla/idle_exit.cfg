SPECIFICATION Spec
CONSTANTS
    MaxThreads = 2
    Timer = {1}
    Dpc = {1}
    Vector = {}
    Delays = {1}
    VblankInterval = 3
    SliceCancels = 2
    MaxTicks = 1
    Setups <- Interpreted
INVARIANTS ExitGenuine
