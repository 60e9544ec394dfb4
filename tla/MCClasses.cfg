SPECIFICATION Spec
CONSTANTS
    Callers = {a, b}
    MscCalls = 2
    MscFaults = 2
    SerialCalls = 3
    SerialFaults = 1
    Retries = 1
    MaxBytes = 2
    Ring = {x1, x2}
    Parts = 2
    MaxPayloads = 6
    FrameQueue = 1
    Receives = {n1, n2}
    RxQueue = 1
    TxQueue = 1
    MaxRxErrors = 2
    MaxFrames = 3
    Tries = 2
    LinkChanges = 2
    CtlFaults = 2
    CtlCalls = 1
    Tasks = {k}
    MaxSubmits = 3
    MaxChanges = 2
    CamBandwidth <- FourSettings
    CamSizes = {0, 3, 6}
    CamPacket = 4
    CamTransfers = 2
    CamStarts = 2
    CamFaults = 2
    FtdiPorts = {0, 1}
    FtdiRates = {0, 1, 183, 184, 300, 1199, 1200, 9600, 115200, 230401, 250000, 921600, 1411765, 1500000, 1600000, 1846154, 2000000, 2181818, 2666667, 3000000, 3000001, 4000000, 6000000, 6400000, 8000000, 12000000, 12000001}
    FrmLengths = {14, 15, 20, 36}
    FrmPackets = {16, 64}
    FrmParams <- NtbParams
    FrmMax = 90
    BlkCount = 4
    BlkSize = 2
    BlkTransfer = 5
    BlkMaxLba = 1
    BlkMaxBlocks = 2
    BlkLengths = {1, 3, 6}
    BlkCalls = 3
    BlkFaults = 1
    BlkPolls = 2
    WinIfaces = {0, 1, 2, 3}
    WinFirstOf <- CompositeFirstOf
    WinBound = {0, 2}
    WinSettings = {0, 1}
    WinEndpoints <- CompositeEndpoints
    WinCalls = 4
    WinFaults = 1
    None = None
SYMMETRY Symmetric
INVARIANTS
    PassedIsOwn
    SenseIsOwn
    
    SilenceIsExplained
    SlotsExact
    StoppedIsQuiet
    
    
    
    AnswersAreCurrent
    
    BytesAsWritten
    TreeIsFaithful
    FieldsAsDeclared
    ObserversAreTold
    StreamIsAsNegotiated
    RateIsNearest
    HandlesAreSound
CHECK_DEADLOCK FALSE
