SPECIFICATION DevicesSpec
CONSTANTS
    Endpoints = {1, 2}
    Transfers = {1, 2, 3, 4}
    MAX_ENDPOINTS = 3
    MAX_TRANSFERS = 3
    PeriodicSlots = 2
    SettleFrames = 1
    MaxFrames = 3
    Requests <- MCRequests
    MaxQueued = 2
    MaxResets = 1
    MaxPlugs = 2
    Scripts <- MCScripts
    HostReports <- MCHostReports
    HostDevices <- MCHostDevices
    MaxOpens = 2
    MaxClock = 6
INVARIANTS NoCompletionLost 
PROPERTIES DriverLearns CompletionReported ReplacedReaderEnds
