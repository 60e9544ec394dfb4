SPECIFICATION FairSpec
CONSTANTS
    Handles = {h1}
    PipeSize = 1
CHECK_DEADLOCK FALSE
PROPERTIES DeviceCloses
