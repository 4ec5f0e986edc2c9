SPECIFICATION Spec
CONSTANTS
    recv_window = 6
    TransWindow = 2
    TransMaxPacket = 2
    Pty = {TRUE}
    PipeSize = 2
    WriteQueue = 0
    Chunk = {5}
    Traffic <- MCTraffic
    MaxRequests = 1
    MaxWaiting = 1
INVARIANT OutputFlushed
CHECK_DEADLOCK FALSE
