SPECIFICATION LinkSpec
CONSTANTS
    Sessions = {"a", "b"}
    Cfg <- MCCfg
    Peer <- MCPeer
    Addr <- MCAddr
    Ifaces <- MCIfaces
    IfVrf <- MCIfVrf
    NoArpIfaces = {}
    SockVrf = 0
    Roles = {"shop6"}
    Arrivals = {}
    TimerCfgs <- MCTimerCfgs
    SlowTimers <- Slow
    DefDetectMult = 3
    NoAddr = NoAddr
    NoIf = NoIf
    NoVrf = NoVrf
    NoTtl = NoTtl
    NoInfo = NoInfo
    SendtoResults = {TRUE}
    CounterMod = 1
    MaxRx = 0
    MaxTx = 0
    LinkIf = 1
    Operated = {"a"}
    LinkCap = 5
    Patience = 3
    MaxLoss = 2
    Platform = "linux"
    HasHdrIncl = TRUE
    BFD_SRCPORTINIT = 1
    BFD_SRCPORTMAX = 4
    NoSock = NoSock
    Fatal = Fatal
    NoDev = NoIf
    NoEvent = NoEvent
    KernelFaults <- MCKernelFaults
    PeerFaults <- MCPeerFaults
    Busy <- MCBusy
    MaxCommands = 2
INVARIANTS
    LinkTypeOK
    NoSocketUnmonitored
    NoDescriptorLeak
    PortSearchFindsFirstFree
PROPERTIES
    ImplementsHandshake
    SessionsComeUp
    PollEnds
    TimersSettle
