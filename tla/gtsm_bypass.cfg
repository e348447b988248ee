SPECIFICATION Spec
CONSTANTS
    Sessions = {"s1"}
    Cfg <- CfgShop
    Ifaces <- MCIfaces
    IfVrf <- MCIfVrf
    NoArpIfaces <- MCNoArpIfaces
    SockVrf <- MCSockVrf
    Roles = {"shop", "mhop"}
    Arrivals <- MCArrivals
    TimerCfgs <- MCTimerCfgs
    SlowTimers <- Slow
    DefDetectMult = 3
    NoAddr = NoAddr
    NoIf = NoIf
    NoVrf = NoVrf
    NoTtl = NoTtl
    NoInfo = NoInfo
    SendtoResults = {TRUE, FALSE}
    CounterMod = 65536
    MaxRx = 2
    MaxTx = 1
PROPERTIES
    SingleHopNeedsTtl255
