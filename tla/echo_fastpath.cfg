SPECIFICATION FairSpec
CONSTANTS
    Nodes <- MCNodes
    Cfg <- MCCfg
    KernelFaults <- MCKernelFaultsV4
    Platform = "linux"
    HasHdrIncl = TRUE
    BFD_SRCPORTINIT = 1
    BFD_SRCPORTMAX = 4
    NoSock = NoSock
    Fatal = Fatal
    NoDev = NoDev
    NoEvent = NoEvent
    Residue <- MCResidue
    Rtts <- MCRtts
    BFD_RTT_SAMPLE = 3
    ECHO_SIZE = 24
    MaxReflect = 3
    Sessions = {"fp"}
    Foreign <- FullFrames
    MaxEcho = 2
    MaxRx = 5
    MaxSamples = 5
INVARIANTS
    TypeOK
    RingHoldsLatestSamples
    EchoCounterCountsPackets
PROPERTIES
    FastPathEchoComesHome
