SPECIFICATION Spec
CONSTANTS
    MinimumWindow = 3
    MaximumWindow = 7
    InitialWindow = 3
    Growth = 1
    Clear = 1
    Queued = 1
    MaxOutstanding = 3
    PingBytes = 3
    PingInterval = 1
    PingTimeout = 2
    BaseLifetime = 3
    UpdateSizes = {1, 2, 3}
    ControlSizes = {3}
    MaxWritten = 10
    MaxTime = 4
INVARIANTS TypeOK AckedNotAhead PingsAccounted 
CHECK_DEADLOCK FALSE
