SPECIFICATION GraphicsSpec
CHECK_DEADLOCK FALSE
CONSTANTS
    MAX_TEXTURE_DIMENSION = 8
    TextureCases <- MCTextures
    BlockCases <- MCBlocks
    Stages <- MCStages
    Finals <- MCFinals
    VertexPrograms <- MCVertexPrograms
    Draws <- MCDraws
    Texel <- MCTexel
    MAX_DRAW_BANDS = 3
    PARALLEL_DRAW_PIXELS = 4
    PIXELS_PER_BAND = 2
    HostProcessors = 4
    Half = 64
    Instance <- MCInstance
    IndexBits = 4
    MAX_SURFACE_DIMENSION = 4
    PRESENTABLE_WIDTH = 4
    MAX_INLINE_DWORDS = 15
    MAX_ELEMENTS = 4
    PROGRAM_SLOTS = 2
    MAX_DWORDS_PER_SUBMIT = 7
    MaxMethods = 5
    MaxOperations = 3
    Slots = 3
    MaxCommands = 8
    FenceHandle = 3
    Setups <- MCSetups
    Cells = {0, 1, 2, 3, 4}
    PageCells = 1
    InstanceCells = 1
    WindowCells = 2
    ClaimBases = {1, 2}
    CommBases = {2, 3}
    DeviceValues = {1, 2}
    MaxLaunches = 2
INVARIANTS    DevicesAnswer
INVARIANTS PictureSinceClear DrawsAsSubmitted FenceCountsWork
PROPERTIES SubmissionsFinish
