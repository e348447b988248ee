SPECIFICATION Spec
CONSTANTS
    Addrs <- MCAddrs
    AddrBytes <- MCAddrBytes
    NoAddr = NoAddr
    SegLists <- MCSegLists
    Payloads <- MCPayloads
    SrcPort = 3784
    DstPort = 7784
INVARIANTS
    TypeOK
    SegmentsVisitedInOrder
    UdpChecksumVerifies
    HeadersDescribePacketExceptIpv4Srh
