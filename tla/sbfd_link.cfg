SPECIFICATION SbfdSpec
CONSTANTS
    Sessions = {"s1"}
    Cfg <- MCCfg
    Ifaces <- MCIfaces
    IfVrf <- MCIfVrf
    NoArpIfaces = {}
    SockVrf = 0
    Roles = {"shop6"}
    Arrivals = {}
    TimerCfgs <- MCTimerCfgs
    SlowTimers <- Slow
    DefDetectMult = 3
    NoAddr = NoAddr
    NoIf = NoIf
    NoVrf = NoVrf
    NoTtl = NoTtl
    NoInfo = NoInfo
    Reflectors = {7}
    LocalAddr = "local"
    ReflectorAddr = "peer"
    LinkIf = 1
    InitArrivals <- MCInitArrivals
    SendtoResults = {TRUE, FALSE}
    CounterMod = 1
    MaxRx = 4
    MaxTx = 8
    MaxFail = 2
    MaxLoss = 2
    NetCap = 2
    Platform = "linux"
    HasHdrIncl = TRUE
    BFD_SRCPORTINIT = 1
    BFD_SRCPORTMAX = 4
    NoSock = NoSock
    Fatal = Fatal
    NoDev = NoIf
    NoEvent = NoEvent
    KernelFaults <- MCKernelFaults
    PeerFaults <- MCPeerFaults
INVARIANTS
    SbfdTypeOK
    DetectTimeAgreed
    WireFormatAgrees
PROPERTIES
    ReflectionIsAccepted
    PollEndsOnAnswerToPoll
    InitiatorComesUp
