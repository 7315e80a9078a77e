SPECIFICATION TscSpec
CONSTANTS
    MaxThreads = 2
    Timer = {}
    Dpc = {1}
    Vector = {}
    Delays = {}
    VblankInterval = 2
    SliceCancels = 2
    MaxTicks = 1
    MaxTsc = 4
    Setups <- Virtualized
PROPERTY CounterNeverBack
