SPECIFICATION FairSpec
CONSTANTS
    Nodes <- MCNodes
    Cfg <- MCCfg
    KernelFaults <- MCKernelFaultsV6
    Platform = "linux"
    HasHdrIncl = TRUE
    BFD_SRCPORTINIT = 1
    BFD_SRCPORTMAX = 4
    NoSock = NoSock
    Fatal = Fatal
    NoDev = NoDev
    NoEvent = NoEvent
    Residue <- MCResidue
    Rtts <- MCRtts
    BFD_RTT_SAMPLE = 3
    ECHO_SIZE = 24
    MaxReflect = 3
    Sessions = {"a6", "echo"}
    Foreign <- Datagrams
    MaxEcho = 1
    MaxRx = 2
    MaxSamples = 1
INVARIANTS
    EchoReflectedOnce
    SbfdEchoUpMeansSent
PROPERTIES
    SbfdEchoComesUp
