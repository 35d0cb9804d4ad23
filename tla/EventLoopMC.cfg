SPECIFICATION FairSpec
CONSTANTS
    UdpFd = udp
    TcpFd = tcp
    SyncFd = sync
    ClientFds = {f1, f2}
    Socks = {s1, s2}
    NumGroups = 2
    NumBufs = 2
    QueueDepth = 3
    CqSize = 2
    MaxEvents = 2
    NoSock = NoSock
    NoConn = NoConn
    Idle = Idle
INVARIANTS TypeOK UdpArmed OneReadAtATime
PROPERTIES BuffersDamagedOnlyBy ListenerDeafOnlyBy UdpReadsAgain
CHECK_DEADLOCK FALSE
