SPECIFICATION FairSpec
CONSTANTS
    recv_window = 6
    TransWindow = 2
    TransMaxPacket = 2
    Pty = {TRUE, FALSE}
    PipeSize = 2
    WriteQueue = 0
    Chunk = {5}
    Traffic <- MCTraffic
    MaxRequests = 1
    MaxWaiting = 1
INVARIANTS WindowAccounted WindowsAgree NoFailure OutputComplete OrderlyEnd
PROPERTIES StdinIsStream ChannelRemoved WindowReopens
CHECK_DEADLOCK FALSE
