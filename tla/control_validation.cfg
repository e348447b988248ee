SPECIFICATION Spec
CONSTANTS
    Sessions = {"s1"}
    Cfg <- CfgPassiveShop
    Ifaces <- MCIfaces
    IfVrf <- MCIfVrf
    NoArpIfaces <- MCNoArpIfaces
    SockVrf <- MCSockVrf
    Roles = {"shop", "mhop"}
    Arrivals <- MCArrivals
    TimerCfgs <- MCTimerCfgs
    SlowTimers <- Slow
    DefDetectMult = 3
    NoAddr = NoAddr
    NoIf = NoIf
    NoVrf = NoVrf
    NoTtl = NoTtl
    NoInfo = NoInfo
    SendtoResults = {TRUE, FALSE}
    CounterMod = 65536
    MaxRx = 3
    MaxTx = 2
INVARIANTS
    TypeOK
    EstablishedKnowsPeer
    LearnedInterfaceInSessionVrf
    PassiveNeverSpeaksFirst
    FinalAnswersPoll
PROPERTIES
    EstablishedNotOverridden
    SentIsCounted
    DetectTimeFollowsPacket
    RefusedKeepsNegotiation
