----------------------------- MODULE BfdSocket -----------------------------
(***************************************************************************)
(* The socket layer of bfdd/bfd_packet.c: the routines that open and       *)
(* configure the seven listening sockets of a VRF and the socket of a      *)
(* session, and bfd_sd_reschedule, which registers the next read.          *)
(*                                                                         *)
(* A socket is what the kernel knows of it: its family and type, the       *)
(* device and the port it is bound to, and the options set on it.  The     *)
(* kernel is a parameter k of every routine: the set of calls it refuses.  *)
(* A routine yields the socket, NoSock where the code returns -1, or Fatal *)
(* where it ends the process with zlog_fatal.                              *)
(***************************************************************************)
EXTENDS Naturals, FiniteSets

CONSTANTS
    Platform,         \* "linux" (BFD_LINUX) or "bsd" (BFD_BSD)
    HasHdrIncl,       \* the build knows IPV6_HDRINCL
    BFD_SRCPORTINIT,  \* the first source port of a session socket
    BFD_SRCPORTMAX,   \* the end of the range of source ports
    NoSock,           \* the descriptor -1
    Fatal,            \* zlog_fatal was called: there is no process any more
    NoDev,            \* a NULL device name
    NoEvent           \* a NULL struct event pointer

ASSUME /\ Platform \in {"linux", "bsd"}
       /\ HasHdrIncl \in BOOLEAN
       /\ BFD_SRCPORTINIT \in Nat /\ BFD_SRCPORTMAX \in Nat
       /\ BFD_SRCPORTINIT < BFD_SRCPORTMAX

BFD_DEFDESTPORT        == 3784
BFD_DEF_MHOP_DEST_PORT == 4784
BFD_DEF_ECHO_PORT      == 3785
BFD_DEF_SBFD_DEST_PORT == 7784

\* bvrf->bg_shop ... bvrf->bg_initv6, the listening sockets of a VRF.
SocketRoles == <<"shop", "mhop", "shop6", "mhop6", "echo", "echov6", "initv6">>

SourcePorts == BFD_SRCPORTINIT .. BFD_SRCPORTMAX - 1

-----------------------------------------------------------------------------
(* System calls.                                                           *)

\* vrf_socket(): a new descriptor, or -1.  A kernel without IPv6 refuses
\* AF_INET6 with EAFNOSUPPORT.
vrf_socket(k, family, type, dev) ==
    IF "socket" \in k \/ (family = "AF_INET6" /\ "EAFNOSUPPORT" \in k)
    THEN NoSock
    ELSE [family |-> family, type |-> type, dev |-> dev, port |-> 0,
          opts |-> {}]

\* setsockopt(): the socket with the option, or -1.
setsockopt(k, sd, opt) ==
    IF opt \in k THEN NoSock ELSE [sd EXCEPT !.opts = @ \cup {opt}]

\* The socket with what every call of tries set, when none of them failed.
AllOf(sd, tries) ==
    IF NoSock \in tries THEN NoSock
    ELSE [sd EXCEPT !.opts = UNION {t.opts : t \in tries}]

bp_set_ttl(k, sd)        == setsockopt(k, sd, "IP_TTL")
bp_set_tos(k, sd)        == setsockopt(k, sd, "IP_TOS")
bp_set_reuse_addr(k, sd) == setsockopt(k, sd, "SO_REUSEADDR")
bp_set_reuse_port(k, sd) == setsockopt(k, sd, "SO_REUSEPORT")
bp_set_ttlv6(k, sd)      == setsockopt(k, sd, "IPV6_UNICAST_HOPS")
bp_set_tosv6(k, sd)      == setsockopt(k, sd, "IPV6_TCLASS")

\* A failure is logged and the socket is used without the priority.
bp_set_prio(k, sd) ==
    IF Platform = "linux" /\ "SO_PRIORITY" \notin k
    THEN setsockopt(k, sd, "SO_PRIORITY") ELSE sd

-----------------------------------------------------------------------------
(* The listening sockets: a failure ends the process.                      *)

\* Address and port reuse, TTL 255 on what is sent, and the TTL, the local
\* address and the interface of what is received as ancillary data.
bp_set_ipopts(k, sd) ==
    LET info == IF Platform = "linux" THEN {"IP_PKTINFO"}
                ELSE {"IP_RECVDSTADDR", "IP_RECVIF"}
        done == AllOf(sd, {bp_set_reuse_addr(k, sd), bp_set_reuse_port(k, sd),
                           bp_set_ttl(k, sd), setsockopt(k, sd, "IP_RECVTTL")}
                          \cup {setsockopt(k, sd, o) : o \in info})
    IN  IF done = NoSock THEN Fatal ELSE done

bp_bind_ip(k, sd, port) ==
    IF sd = Fatal \/ "bind" \in k THEN Fatal ELSE [sd EXCEPT !.port = port]

bp_udp_shop(k, vrf) ==
    LET sd == vrf_socket(k, "AF_INET", "SOCK_DGRAM", vrf)
    IN  IF sd = NoSock THEN Fatal
        ELSE bp_bind_ip(k, bp_set_ipopts(k, sd), BFD_DEFDESTPORT)

bp_udp_mhop(k, vrf) ==
    LET sd == vrf_socket(k, "AF_INET", "SOCK_DGRAM", vrf)
    IN  IF sd = NoSock THEN Fatal
        ELSE bp_bind_ip(k, bp_set_ipopts(k, sd), BFD_DEF_MHOP_DEST_PORT)

\* Faulty variant: the hop limit of what is received is not asked for.
bp_set_ipv6opts_no_hoplimit(k, sd) ==
    LET done == AllOf(sd, {bp_set_reuse_addr(k, sd), bp_set_reuse_port(k, sd),
                           bp_set_ttlv6(k, sd),
                           setsockopt(k, sd, "IPV6_PKTINFO"),
                           setsockopt(k, sd, "IPV6_V6ONLY")})
    IN  IF done = NoSock THEN Fatal ELSE done

\* The same for IPv6, and no IPv4 on the socket.
bp_set_ipv6opts(k, sd) ==
    LET done == AllOf(sd, {bp_set_reuse_addr(k, sd), bp_set_reuse_port(k, sd),
                           bp_set_ttlv6(k, sd),
                           setsockopt(k, sd, "IPV6_HOPLIMIT"),
                           setsockopt(k, sd, "IPV6_PKTINFO"),
                           setsockopt(k, sd, "IPV6_V6ONLY")})
    IN  IF done = NoSock THEN Fatal ELSE done

bp_bind_ipv6(k, sd, port) ==
    IF sd = Fatal \/ "bind" \in k THEN Fatal ELSE [sd EXCEPT !.port = port]

\* An IPv6 listening socket on port: without IPv6 in the kernel the daemon
\* goes on without the socket.
Listen6(k, vrf, port) ==
    LET sd == vrf_socket(k, "AF_INET6", "SOCK_DGRAM", vrf)
    IN  IF sd # NoSock THEN bp_bind_ipv6(k, bp_set_ipv6opts(k, sd), port)
        ELSE IF "EAFNOSUPPORT" \in k /\ "socket" \notin k THEN NoSock
        ELSE Fatal

bp_udp6_shop(k, vrf)     == Listen6(k, vrf, BFD_DEFDESTPORT)
bp_udp6_mhop(k, vrf)     == Listen6(k, vrf, BFD_DEF_MHOP_DEST_PORT)
bp_echov6_socket(k, vrf) == Listen6(k, vrf, BFD_DEF_ECHO_PORT)
bp_initv6_socket(k, vrf) == Listen6(k, vrf, BFD_DEF_SBFD_DEST_PORT)

\* my_filterudp: "udp dst port 3785".
my_filterudp == BFD_DEF_ECHO_PORT

\* The echo socket.  On Linux it is a packet socket with a filter for the
\* echo port, bound to all interfaces; a filter or a bind that fails closes
\* it and the daemon goes on without.  Elsewhere it is one more UDP socket.
bp_echo_socket(k, vrf) ==
    IF Platform = "linux"
    THEN LET s == vrf_socket(k, "AF_PACKET", "SOCK_RAW", vrf)
         IN  IF s = NoSock THEN Fatal
             ELSE IF "SO_ATTACH_FILTER" \in k \/ "bind" \in k THEN NoSock
             ELSE [setsockopt(k, s, "SO_ATTACH_FILTER") EXCEPT
                      !.port = my_filterudp]
    ELSE LET s == vrf_socket(k, "AF_INET", "SOCK_DGRAM", vrf)
         IN  IF s = NoSock THEN Fatal
             ELSE bp_bind_ip(k, bp_set_ipopts(k, s), BFD_DEF_ECHO_PORT)

\* The raw socket SBFD packets with a segment list are sent on.
bp_sbfd_socket(k, vrf) ==
    LET s == vrf_socket(k, "AF_INET6", "SOCK_RAW", vrf)
    IN  IF s # NoSock THEN bp_set_prio(k, s)
        ELSE IF "EAFNOSUPPORT" \in k /\ "socket" \notin k THEN NoSock
        ELSE Fatal

-----------------------------------------------------------------------------
(* The socket of a session: a failure closes it and returns -1.            *)

\* The device a session socket is bound to: the interface of the session,
\* or the VRF device of a multi-hop session and of a session outside the
\* default VRF (VRF-lite; the key of a session always names its VRF).
DeviceToBind(c) ==
    IF c.ifname # NoDev THEN c.ifname
    ELSE IF c.vrf # 0 \/ c.mhop THEN <<"vrf", c.vrf>>
    ELSE NoDev

\* The same for an SBFD session, which looks at the VRF of a multi-hop
\* session only.
DeviceToBindSrh(c) ==
    IF c.ifname # NoDev THEN c.ifname
    ELSE IF c.mhop THEN <<"vrf", c.vrf>>
    ELSE NoDev

\* Faulty variant: the search wraps only after it tried BFD_SRCPORTMAX.
RECURSIVE BindInRange_late_wrap(_, _, _)
BindInRange_late_wrap(pcount, srcPort, busy) ==
    IF pcount + 1 > BFD_SRCPORTMAX - BFD_SRCPORTINIT
    THEN [port |-> 0, srcPort |-> srcPort]
    ELSE LET try == IF srcPort > BFD_SRCPORTMAX THEN BFD_SRCPORTINIT ELSE srcPort
         IN  IF try \notin busy THEN [port |-> try, srcPort |-> try + 1]
             ELSE BindInRange_late_wrap(pcount + 1, try + 1, busy)

\* The search for a source port: bind() is tried on one port after the
\* other, from where the last search ended and around the range, until it
\* succeeds or as many ports were tried as the range has.  busy are the
\* ports bind() fails for; the result is the port bound (0: none) and the
\* static srcPort the next search starts from.
RECURSIVE BindInRange(_, _, _)
BindInRange(pcount, srcPort, busy) ==
    IF pcount + 1 > BFD_SRCPORTMAX - BFD_SRCPORTINIT
    THEN [port |-> 0, srcPort |-> srcPort]
    ELSE LET try == IF srcPort >= BFD_SRCPORTMAX THEN BFD_SRCPORTINIT ELSE srcPort
         IN  IF try \notin busy THEN [port |-> try, srcPort |-> try + 1]
             ELSE BindInRange(pcount + 1, try + 1, busy)

\* A session socket: what is sent has TTL 255 and class CS6.  The result is
\* the socket (sd), the static srcPort, and whether a descriptor is left
\* open: every failure closes the socket.
PeerSocket(k, family, dev, hops, class, srcPort, busy) ==
    LET sd    == vrf_socket(k, family, "SOCK_DGRAM", dev)
        set   == IF sd = NoSock THEN NoSock
                 ELSE AllOf(sd, {setsockopt(k, sd, hops), setsockopt(k, sd, class)})
        found == BindInRange(0, srcPort, busy)
    IN  IF set = NoSock
        THEN [sd |-> NoSock, srcPort |-> srcPort, open |-> FALSE]
        ELSE IF found.port = 0
        THEN [sd |-> NoSock, srcPort |-> found.srcPort, open |-> FALSE]
        ELSE [sd |-> [bp_set_prio(k, set) EXCEPT !.port = found.port],
              srcPort |-> found.srcPort, open |-> TRUE]

bp_peer_socket(k, c, srcPort, busy) ==
    PeerSocket(k, "AF_INET", DeviceToBind(c), "IP_TTL", "IP_TOS", srcPort, busy)

\* Faulty variant: no failure closes the socket.
bp_peer_socketv6_leak(k, c, srcPort, busy) ==
    LET out == PeerSocket(k, "AF_INET6", DeviceToBind(c), "IPV6_UNICAST_HOPS",
                          "IPV6_TCLASS", srcPort, busy)
    IN  [out EXCEPT !.open = vrf_socket(k, "AF_INET6", "SOCK_DGRAM", NoDev) # NoSock]

bp_peer_socketv6(k, c, srcPort, busy) ==
    PeerSocket(k, "AF_INET6", DeviceToBind(c), "IPV6_UNICAST_HOPS",
               "IPV6_TCLASS", srcPort, busy)

\* The raw socket of an SBFD session: the packet is sent with the headers
\* the daemon built.  A build without IPV6_HDRINCL never gets one.
bp_peer_srh_socketv6(k, c) ==
    LET sd  == vrf_socket(k, "AF_INET6", "SOCK_RAW", DeviceToBindSrh(c))
        set == IF sd = NoSock \/ ~HasHdrIncl THEN NoSock
               ELSE AllOf(sd, {bp_set_ttlv6(k, sd), bp_set_tosv6(k, sd),
                               setsockopt(k, sd, "IPV6_HDRINCL")})
    IN  [sd |-> set, open |-> set # NoSock]

-----------------------------------------------------------------------------
(* What the kernel does with the options of a socket.                      *)

\* The TTL or hop limit of what is sent on the socket.
SentTtl(sd) ==
    IF sd.opts \cap {"IP_TTL", "IPV6_UNICAST_HOPS"} # {} THEN 255 ELSE 64

\* The socket hands over the TTL, or the packet-info, of what it receives.
HandsTtl(sd)  == sd.opts \cap {"IP_RECVTTL", "IPV6_HOPLIMIT"} # {}
HandsInfo(sd) ==
    \/ sd.opts \cap {"IP_PKTINFO", "IPV6_PKTINFO"} # {}
    \/ {"IP_RECVDSTADDR", "IP_RECVIF"} \subseteq sd.opts

-----------------------------------------------------------------------------------------------------------------------------------------------------
(* Read events.  ev[i] is bg_ev[i]: the socket whose read it holds, or     *)
(* NoEvent.                                                                *)

\* Faulty variant: the branch of bg_shop6 works on the event of bg_shop.
Branches_copied == <<
    [sd |-> "shop",   ev |-> 0], [sd |-> "mhop",   ev |-> 1],
    [sd |-> "shop6",  ev |-> 0], [sd |-> "mhop6",  ev |-> 3],
    [sd |-> "echo",   ev |-> 4], [sd |-> "echov6", ev |-> 5],
    [sd |-> "initv6", ev |-> 6] >>

\* The branches of bfd_sd_reschedule in the order they are tried: the socket
\* of the VRF whose descriptor sd is compared with, and the index of the
\* event the branch cancels and registers.
Branches == <<
    [sd |-> "shop",   ev |-> 0], [sd |-> "mhop",   ev |-> 1],
    [sd |-> "shop6",  ev |-> 2], [sd |-> "mhop6",  ev |-> 3],
    [sd |-> "echo",   ev |-> 4], [sd |-> "echov6", ev |-> 5],
    [sd |-> "initv6", ev |-> 6] >>

\* The events of bvrf after the first of branches whose socket is sd did
\* event_cancel and event_add_read on its event: whatever the event held, it
\* holds the next read of that socket.  No branch: nothing is registered.
Reschedule(branches, bvrf, sd) ==
    LET hits == {i \in DOMAIN branches : bvrf.sd[branches[i].sd] = sd}
    IN  IF hits = {} THEN bvrf.ev
        ELSE LET first == branches[CHOOSE i \in hits : \A j \in hits : i <= j]
             IN  [bvrf.ev EXCEPT ![first.ev] = first.sd]

bfd_sd_reschedule_copied(bvrf, sd) == Reschedule(Branches_copied, bvrf, sd)

bfd_sd_reschedule(bvrf, sd) == Reschedule(Branches, bvrf, sd)

=============================================================================
