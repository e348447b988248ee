------------------------------ MODULE BfdEcho ------------------------------
(***************************************************************************)
(* The echo function of bfdd/bfd_packet.c on Linux: the two transmit       *)
(* routines of a BFD session (ptm_bfd_echo_fp_snd, which frames the echo   *)
(* by hand so that the peer's forwarding plane returns it, and             *)
(* ptm_bfd_echo_snd), the transmit routine of an SBFD echo session         *)
(* (ptm_sbfd_echo_snd), and the read callback of the echo sockets          *)
(* (bp_bfd_echo_in, ptm_bfd_process_echo_pkt) with the round-trip-time     *)
(* ring it fills.                                                          *)
(*                                                                         *)
(* Several daemons are modelled, one per node, joined by a network that    *)
(* holds the packets in flight.  A node's forwarding plane sends a packet  *)
(* on when its IP destination is another node, which is how a fast-path    *)
(* echo returns; a daemon reads what is addressed to it, and on the packet *)
(* socket bg_echo every frame the node receives.  Packets are never        *)
(* delivered by force, and Foreign are the packets other hosts can inject. *)
(*                                                                         *)
(* A daemon starts without sockets and opens bg_echo and bg_echov6 with    *)
(* the routines of BfdSocket: it may be left without either, and a session *)
(* of a node without the socket of its family sends and hears nothing.     *)
(*                                                                         *)
(* Operators marked "(bfd.c)" stand for the session code outside this      *)
(* file.                                                                   *)
(***************************************************************************)
EXTENDS Integers, Sequences, FiniteSets, BfdSocket

CONSTANTS
    Nodes,          \* the nodes running bfdd
    Sessions,       \* the sessions, each on one node
    Cfg,            \* Cfg[s]: node, peer, first hop, discriminator, flags
    KernelFaults,   \* KernelFaults[n]: what the kernel of node n may refuse
                    \* while the daemon opens its sockets: sets of calls
    Foreign,        \* packets hosts outside the model can send to a node
    Residue,        \* what the bytes of msgbuf no frame overwrote may hold
    Rtts,           \* values of monotime_since(); 0 is "no sample"
    BFD_RTT_SAMPLE, \* capacity of the RTT ring
    ECHO_SIZE,      \* sizeof(struct bfd_echo_pkt)
    MaxEcho,        \* bound of tx_echo_pkt and tx_fail_pkt in this model
    MaxRx,          \* bound of rx_echo_pkt in this model
    MaxSamples,     \* bound of the samples one session takes in this model
    MaxReflect      \* bound of the reflections of one datagram in this model

VARIABLES
    bs,     \* bs[s]: the fields of struct bfd_session the echo code touches
    net,    \* the packets in flight
    hist,   \* hist[s]: the RTT samples session s took, in order, and the
            \* number of echo packets it handed to the kernel with success
    seen,   \* the verdict of the last read of an echo socket, and the
            \* family and received length of what it read
    bg      \* bg[n]: whether the daemon of node n runs, and its sockets
            \* bg_echo and bg_echov6

vars == <<bs, net, hist, seen, bg>>

BFD_TTL_VAL == 255
FP_TTL      == 254  \* the TTL bfd_recv_ipv4_fp insists on
IP_OFFSET   == 14   \* sizeof(struct ethhdr)
UDP_OFFSET  == 34   \* ... + sizeof(struct iphdr)
FP_OFFSET   == 42   \* ... + sizeof(struct udphdr): bfd_offset
DISCR_END   == 8    \* my_discr ends at byte 8 of the echo packet
FILTER_MIN  == 38   \* my_filterudp reads the UDP destination port

Families == {"v4", "v6"}
Modes    == {"BFD", "SBFD_ECHO"}
States   == {"ADM_DOWN", "DOWN", "INIT", "UP"}
Verdicts == {"none", "failed", "small", "loopback", "zero", "no_session",
             "disabled", "counted"}

\* A UDP checksum, held as what it was summed over: the two addresses of
\* the pseudo-header and the length of the datagram.  Two checksums are
\* equal when they were taken over the same.
Checksums == [src : Nodes \cup {"host"}, dst : Nodes \cup {"host"}, len : Nat]

Packets ==
    [fam : Families, at : Nodes, ipsrc : Nodes \cup {"host"}, ipdst : Nodes,
     ttl : 0..255, discr : Nat, rlen : Int, ip_ok : BOOLEAN, udp_len : Nat,
     udp_check : Checksums, reflected : Nat]

ASSUME /\ BFD_RTT_SAMPLE \in Nat \ {0}
       /\ 0 \in Rtts /\ Rtts \subseteq Nat
       /\ Platform = "linux"
       /\ \A n \in Nodes : {} \in KernelFaults[n]
       /\ \A s \in Sessions :
            /\ Cfg[s].node \in Nodes /\ Cfg[s].peer \in Nodes
            /\ Cfg[s].via \in Nodes
            /\ Cfg[s].my_discr # 0
            /\ Cfg[s].mode \in Modes
            /\ \A t \in Sessions \ {s} : Cfg[t].my_discr # Cfg[s].my_discr
       \* The socket filter of bg_echo drops what is too short to hold the
       \* UDP destination port.
       /\ \A f \in Foreign : f.fam = "v4" /\ f.rlen # -1 => f.rlen >= FILTER_MIN

VRF_DEFAULT == 0

\* The nodes whose daemon has the socket bg_echov6.
EchoV6Open == {n \in Nodes : bg[n].echov6 # NoSock}

\* The echo socket of a family.
EchoSocket(n, fam) == IF fam = "v6" THEN bg[n].echov6 ELSE bg[n].echo

\* The daemon of the session runs.
Running(s) == bg[Cfg[s].node].run = "up"

-----------------------------------------------------------------------------
(* Transmission.                                                           *)

\* The checksum of a UDP datagram of pktsize bytes: the pseudo-header it is
\* taken with names the one address ip as source and as destination.
bfd_pkt_checksum(pktsize, ip) ==
    [src |-> ip, dst |-> ip, len |-> pktsize]

\* The echo of session s as each transmit routine builds it.  rlen is what
\* the receiver's recvmsg() returns for it; the UDP checksum is that of the
\* kernel or of the raw send, over source and destination.
Echo(s, fam, at, ipdst, rlen) ==
    [fam |-> fam, at |-> at, ipsrc |-> Cfg[s].node, ipdst |-> ipdst,
     ttl |-> BFD_TTL_VAL, discr |-> Cfg[s].my_discr, rlen |-> rlen,
     ip_ok |-> TRUE, udp_len |-> 8 + ECHO_SIZE,
     udp_check |-> [src |-> Cfg[s].node, dst |-> ipdst, len |-> 8 + ECHO_SIZE],
     reflected |-> 0]

\* The hand-made frame: Ethernet destination the peer's MAC, IP source and
\* destination the session's own address, the UDP checksum taken over the
\* length the UDP header declares.
FastPathFrame(s) ==
    LET frame == Echo(s, "v4", Cfg[s].peer, Cfg[s].node, FP_OFFSET + ECHO_SIZE)
    IN  [frame EXCEPT !.udp_check = bfd_pkt_checksum(frame.udp_len, frame.ipsrc)]

\* The datagram sent to the peer's echo port.
EchoDatagram(s) ==
    Echo(s, IF Cfg[s].ipv6 THEN "v6" ELSE "v4", Cfg[s].peer, Cfg[s].peer,
         IF Cfg[s].ipv6 THEN ECHO_SIZE ELSE FP_OFFSET + ECHO_SIZE)

\* The SRv6 packet of an SBFD echo session: its first hop is the first
\* segment, its inner destination the session's peer address.
SbfdEchoPacket(s) ==
    Echo(s, IF Cfg[s].ipv6 THEN "v6" ELSE "v4", Cfg[s].via, Cfg[s].peer,
         IF Cfg[s].ipv6 THEN ECHO_SIZE ELSE FP_OFFSET + ECHO_SIZE)

\* Faulty variant: the packet is counted before bp_udp_send_fp is tried.
ptm_bfd_echo_fp_snd_counted(b, sent) ==
    IF ~b.mac_set THEN b
    ELSE [b EXCEPT !.echo_active = TRUE, !.tx_echo_pkt = @ + 1]

\* Nothing happens before the peer's MAC is known.  The flag is raised
\* before the send is tried; the packet is counted when all of it went out.
ptm_bfd_echo_fp_snd(b, sent) ==
    IF ~b.mac_set THEN b
    ELSE [b EXCEPT !.echo_active = TRUE,
                   !.tx_echo_pkt = IF sent THEN @ + 1 ELSE @]

\* An IPv6 session of a node without bg_echov6 returns after raising the
\* flag.
ptm_bfd_echo_snd(b, c, sent) ==
    [b EXCEPT !.echo_active = TRUE,
              !.tx_echo_pkt =
                  IF sent /\ (c.ipv6 => c.node \in EchoV6Open)
                  THEN @ + 1 ELSE @]

\* A failed send is counted in tx_fail_pkt, a good one clears it.
_ptm_sbfd_echo_send(b, sent) ==
    IF sent THEN [b EXCEPT !.tx_fail_pkt = 0, !.tx_echo_pkt = @ + 1]
            ELSE [b EXCEPT !.tx_fail_pkt = @ + 1]

\* Faulty variant: the flag is raised whatever the send returned, as the
\* BFD routines do.
ptm_sbfd_echo_snd_early(b, sent) ==
    [_ptm_sbfd_echo_send(b, sent) EXCEPT !.echo_active = TRUE]

\* The flag is raised only after a send that succeeded.
ptm_sbfd_echo_snd(b, sent) ==
    IF sent THEN [_ptm_sbfd_echo_send(b, sent) EXCEPT !.echo_active = TRUE]
            ELSE _ptm_sbfd_echo_send(b, sent)

-----------------------------------------------------------------------------
(* Reception.                                                              *)

\* msgbuf is a local array bp_bfd_echo_in never clears: recvmsg() fills its
\* first rlen bytes and the rest holds what the stack held.  The views of a
\* frame are what the code can read from it: a field the frame is too short
\* to carry takes any value of Residue, and a checksum over more bytes than
\* were received is the one the code computes or another.
msgbuf(p) ==
    IF p.fam = "v6" \/ p.rlen = -1 THEN {p}
    ELSE LET lens   == IF p.rlen >= FP_OFFSET THEN {p.udp_len}
                       ELSE {r.udp_len : r \in Residue}
             discrs == IF p.rlen >= FP_OFFSET + DISCR_END THEN {p.discr}
                       ELSE {r.discr : r \in Residue}
         IN  UNION {
               { [p EXCEPT !.udp_len = l, !.discr = d, !.udp_check = c] :
                   d \in discrs,
                   c \in IF p.rlen >= UDP_OFFSET + l THEN {p.udp_check}
                         ELSE {bfd_pkt_checksum(n, p.ipsrc) : n \in {0, l}} }
               : l \in lens }

\* Faulty variant: the TTL asked for is that of a packet nobody forwarded,
\* as on the control sockets.
bfd_recv_ipv4_fp_gtsm(v) ==
    IF \/ v.rlen = -1 \/ ~v.ip_ok \/ v.ttl # BFD_TTL_VAL
       \/ v.udp_check # bfd_pkt_checksum(v.udp_len, v.ipsrc)
    THEN -1 ELSE v.rlen

\* The length the fast-path receive routine returns: -1 for a failed
\* recvmsg(), a wrong IP checksum, a TTL other than 254 and a UDP checksum
\* other than bfd_pkt_checksum over the length the UDP header declares and
\* the source address of the frame.
bfd_recv_ipv4_fp(v) ==
    IF \/ v.rlen = -1 \/ ~v.ip_ok \/ v.ttl # FP_TTL
       \/ v.udp_check # bfd_pkt_checksum(v.udp_len, v.ipsrc)
    THEN -1 ELSE v.rlen

FirstFailure(checks) ==
    LET failing == {i \in DOMAIN checks : checks[i][2]}
    IN  IF failing = {} THEN "mine"
        ELSE checks[CHOOSE i \in failing : \A j \in failing : i <= j][1]

\* The verdict of bp_bfd_echo_in on what it read, in the order of the code.
bp_bfd_echo_in(v) ==
    LET rlen == IF v.fam = "v4" THEN bfd_recv_ipv4_fp(v) ELSE v.rlen
    IN  FirstFailure(<<
          <<"failed",   v.fam = "v4" /\ rlen = -1>>,
          <<"small",    rlen < ECHO_SIZE>>,
          <<"loopback", v.fam = "v6" /\ v.ttl = BFD_TTL_VAL>>,
          <<"zero",     v.discr = 0>> >>)

\* Faulty variant: the echo goes back with the hop limit it came with.
Loopback_same_ttl(p) ==
    [p EXCEPT !.at = p.ipsrc, !.ipdst = p.ipsrc, !.ipsrc = p.at,
              !.reflected = @ + 1,
              !.udp_check = [@ EXCEPT !.src = p.at, !.dst = p.ipsrc]]

\* An IPv6 echo of a peer is sent back to where it came from, with a hop
\* limit one lower; the kernel sums it anew.
Loopback(p) ==
    [p EXCEPT !.at = p.ipsrc, !.ipdst = p.ipsrc, !.ipsrc = p.at,
              !.ttl = @ - 1, !.reflected = @ + 1,
              !.udp_check = [@ EXCEPT !.src = p.at, !.dst = p.ipsrc]]

\* (bfd.c) An SBFD echo session that hears its echo is up.
sbfd_echo_state_handler(b) ==
    IF b.ses_state = "ADM_DOWN" THEN b ELSE [b EXCEPT !.ses_state = "UP"]

\* Faulty variant: the write index wraps one sample late.
StoreRtt_late_wrap(b, my_rtt) ==
    [b EXCEPT !.rtt[b.rtt_index] = my_rtt,
              !.rtt_index = IF @ + 1 > BFD_RTT_SAMPLE THEN 0 ELSE @ + 1,
              !.rtt_valid = IF @ < BFD_RTT_SAMPLE THEN @ + 1 ELSE @]

\* Faulty variant: a full ring is written at its newest slot again.
StoreRtt_newest(b, my_rtt) ==
    LET at == IF b.rtt_valid < BFD_RTT_SAMPLE THEN b.rtt_index
              ELSE (b.rtt_index + BFD_RTT_SAMPLE - 1) % BFD_RTT_SAMPLE
    IN  [b EXCEPT !.rtt[at] = my_rtt,
                  !.rtt_index = IF b.rtt_valid < BFD_RTT_SAMPLE
                                THEN (@ + 1) % BFD_RTT_SAMPLE ELSE @,
                  !.rtt_valid = IF @ < BFD_RTT_SAMPLE THEN @ + 1 ELSE @]

\* One sample into the ring: written at rtt_index, which wraps at the
\* capacity, while rtt_valid stops there.
StoreRtt(b, my_rtt) ==
    [b EXCEPT !.rtt[b.rtt_index] = my_rtt,
              !.rtt_index = IF @ + 1 >= BFD_RTT_SAMPLE THEN 0 ELSE @ + 1,
              !.rtt_valid = IF @ < BFD_RTT_SAMPLE THEN @ + 1 ELSE @]

\* Faulty variant: the echo of an SBFD echo session is counted and the
\* state machine is not told.
CountEcho_unreported(b, c, my_rtt) ==
    LET sampled == IF my_rtt # 0 THEN StoreRtt(b, my_rtt) ELSE b
        counted == [sampled EXCEPT
                      !.rx_echo_pkt = @ + 1,
                      !.echo_detect_TO = b.remote_detect_mult * b.echo_xmt_TO]
    IN  IF c.mode = "SBFD_ECHO"
        THEN [counted EXCEPT !.echo_xmt_TO = c.desired_min_echo_tx,
                             !.echo_detect_TO = c.detect_mult * c.desired_min_echo_tx]
        ELSE counted

\* What ptm_bfd_process_echo_pkt does to the session an echo names, once
\* the session is known to run the echo function.
CountEcho(b, c, my_rtt) ==
    LET sampled == IF my_rtt # 0 THEN StoreRtt(b, my_rtt) ELSE b
        counted == [sampled EXCEPT
                      !.rx_echo_pkt = @ + 1,
                      !.echo_detect_TO = b.remote_detect_mult * b.echo_xmt_TO]
        up      == sbfd_echo_state_handler(counted)
    IN  IF c.mode = "SBFD_ECHO"
        THEN [up EXCEPT !.echo_xmt_TO = c.desired_min_echo_tx,
                        !.echo_detect_TO = c.detect_mult * c.desired_min_echo_tx]
        ELSE counted

\* (bfd.c) The sessions of a node with a local discriminator.
bfd_id_lookup(n, discr) ==
    {s \in Sessions : Cfg[s].node = n /\ Cfg[s].my_discr = discr}

-----------------------------------------------------------------------------
(* The actions.                                                            *)

Within(b) ==
    /\ b.tx_echo_pkt <= MaxEcho /\ b.rx_echo_pkt <= MaxRx
    /\ b.tx_fail_pkt <= MaxEcho

Idle == [class |-> "none", fam |-> "v4", rlen |-> 0, src |-> "host"]

\* (bfd.c) bfd_vrf_enable: the daemon of node n opens its echo sockets.
\* Where a routine called zlog_fatal the process is gone.
VrfEnable(n) ==
    /\ bg[n].run = "off"
    /\ \E k \in KernelFaults[n] :
         LET echo   == bp_echo_socket(k, VRF_DEFAULT)
             echov6 == bp_echov6_socket(k, VRF_DEFAULT)
         IN  bg' = [bg EXCEPT ![n] =
                      IF Fatal \in {echo, echov6}
                      THEN [run |-> "dead", echo |-> NoSock, echov6 |-> NoSock]
                      ELSE [run |-> "up", echo |-> echo, echov6 |-> echov6]]
    /\ seen' = Idle
    /\ UNCHANGED <<bs, net, hist>>

\* What sendmsg() may return on a socket: it fails on the descriptor -1.
SendResults(sd) == {sent \in BOOLEAN : sent => sd # NoSock}

\* A packet handed to the kernel with success is in flight.
Transmit(s, b, p, onwire) ==
    /\ Running(s)
    /\ UNCHANGED bg
    /\ Within(b)
    /\ bs' = [bs EXCEPT ![s] = b]
    /\ net' = IF onwire THEN net \cup {p} ELSE net
    /\ hist' = [hist EXCEPT ![s].sent = IF onwire THEN @ + 1 ELSE @]
    /\ seen' = Idle

\* (bfd.c) The echo timer of a BFD session with a fast path fires.
EchoFpSend(s) ==
    /\ Cfg[s].mode = "BFD" /\ ~Cfg[s].ipv6 /\ Cfg[s].peer # Cfg[s].node
    /\ \E sent \in SendResults(bg[Cfg[s].node].echo) :
         Transmit(s, ptm_bfd_echo_fp_snd(bs[s], sent), FastPathFrame(s),
                  sent /\ bs[s].mac_set)

\* (bfd.c) The echo timer of a BFD session without one fires.
EchoSend(s) ==
    /\ Cfg[s].mode = "BFD"
    /\ \E sent \in SendResults(EchoSocket(Cfg[s].node,
                                          IF Cfg[s].ipv6 THEN "v6" ELSE "v4")) :
         Transmit(s, ptm_bfd_echo_snd(bs[s], Cfg[s], sent), EchoDatagram(s),
                  sent /\ (Cfg[s].ipv6 => Cfg[s].node \in EchoV6Open))

\* (bfd.c) The echo timer of an SBFD echo session fires.
SbfdEchoSend(s) ==
    /\ Cfg[s].mode = "SBFD_ECHO"
    /\ \E sent \in BOOLEAN :
         Transmit(s, ptm_sbfd_echo_snd(bs[s], sent), SbfdEchoPacket(s), sent)

\* What a read of the echo socket of family fam on node n may return: a
\* packet in flight to the node, or one a host outside sends.  The packet
\* socket bg_echo sees the frames the node is about to forward as well.
Readable(n, fam) ==
    {p \in net : p.at = n /\ p.fam = fam /\ (fam = "v6" => p.ipdst = n)}
    \cup {[f EXCEPT !.at = n, !.ipdst = n] : f \in {g \in Foreign : g.fam = fam}}

Verdict(class, p) ==
    [class |-> class, fam |-> p.fam, rlen |-> p.rlen, src |-> p.ipsrc]

\* What a read takes off the network: a packet for the node itself.  A
\* frame the node is about to forward was copied to the packet socket, and
\* goes on.
Taken(n, p) == {q \in {p} : q.ipdst = n}

\* The echo is for session s: counted unless the session does not run the
\* echo function.
Deliver(s, p, my_rtt) ==
    IF ~bs[s].echo_active
    THEN /\ seen' = Verdict("disabled", p)
         /\ UNCHANGED <<bs, hist>>
    ELSE LET b == CountEcho(bs[s], Cfg[s], my_rtt)
         IN  /\ Within(b)
             /\ my_rtt # 0 => Len(hist[s].samples) < MaxSamples
             /\ bs' = [bs EXCEPT ![s] = b]
             /\ hist' = [hist EXCEPT ![s].samples =
                           IF my_rtt # 0 THEN Append(@, my_rtt) ELSE @]
             /\ seen' = Verdict("counted", p)

\* The read callback of an echo socket: ptm_bfd_process_echo_pkt.  The RTT
\* is taken of IPv4 echoes only, from the time stamp in the packet.
RecvEcho(n, fam) ==
    /\ EchoSocket(n, fam) # NoSock
    /\ UNCHANGED bg
    /\ \E p \in Readable(n, fam) : \E v \in msgbuf(p) :
         LET verdict == bp_bfd_echo_in(v)
             found   == bfd_id_lookup(n, v.discr)
         IN  \/ /\ verdict \in {"failed", "small", "zero"}
                /\ net' = net \ Taken(n, p)
                /\ seen' = Verdict(verdict, p)
                /\ UNCHANGED <<bs, hist>>
             \/ /\ verdict = "loopback"
                /\ p.reflected < MaxReflect
                /\ \E sent \in BOOLEAN :
                     net' = (net \ Taken(n, p)) \cup
                            {q \in {Loopback(v)} : sent /\ q.at \in Nodes}
                /\ seen' = Verdict(verdict, p)
                /\ UNCHANGED <<bs, hist>>
             \/ /\ verdict = "mine" /\ found = {}
                /\ net' = net \ Taken(n, p)
                /\ seen' = Verdict("no_session", p)
                /\ UNCHANGED <<bs, hist>>
             \/ /\ verdict = "mine"
                /\ net' = net \ Taken(n, p)
                /\ \E s \in found :
                     \E my_rtt \in IF fam = "v4" THEN Rtts ELSE {0} :
                       Deliver(s, p, my_rtt)

\* The forwarding plane of node n sends on a packet whose destination is
\* another node, with its TTL lowered.
Forward(n) ==
    \E p \in net :
      /\ p.at = n /\ p.ipdst # n /\ p.ttl > 1
      /\ net' = (net \ {p}) \cup {[p EXCEPT !.at = p.ipdst, !.ttl = @ - 1]}
      /\ seen' = Idle
      /\ UNCHANGED <<bs, hist, bg>>

\* bfd_peer_mac_set, which bfd_recv_cb calls for a control packet of a
\* single-hop session: a session that has the address keeps it, an IPv6
\* peer has none to ask for, and the ARP table of the interface has the
\* peer or has not (an interface without ARP never has).
MacLearned(s) ==
    /\ Running(s)
    /\ ~Cfg[s].ipv6 /\ ~bs[s].mac_set
    /\ \E arp \in BOOLEAN : bs' = [bs EXCEPT ![s].mac_set = arp]
    /\ seen' = Idle
    /\ UNCHANGED <<net, hist, bg>>

\* (bfd.c) The echo function is stopped: the peer no longer offers it, or
\* the session went down.
EchoStop(s) ==
    /\ Running(s)
    /\ bs[s].echo_active
    /\ bs' = [bs EXCEPT ![s].echo_active = FALSE]
    /\ seen' = Idle
    /\ UNCHANGED <<net, hist, bg>>

\* (bfd.c) The echo detection time passed without an echo.
EchoDetectTimerExpired(s) ==
    /\ Running(s)
    /\ bs[s].ses_state = "UP"
    /\ bs' = [bs EXCEPT ![s].ses_state = "DOWN"]
    /\ seen' = Idle
    /\ UNCHANGED <<net, hist, bg>>

\* (bfd.c) A session as bfd_session_new and the configuration leave it: a
\* BFD session runs the echo function once it is up, an SBFD echo session
\* starts down.
bfd_session_new(c) ==
    [ses_state |-> IF c.mode = "BFD" THEN "UP" ELSE "DOWN",
     echo_active |-> FALSE, mac_set |-> FALSE,
     rtt |-> [i \in 0..BFD_RTT_SAMPLE - 1 |-> 0], rtt_index |-> 0,
     rtt_valid |-> 0, tx_echo_pkt |-> 0, rx_echo_pkt |-> 0, tx_fail_pkt |-> 0,
     remote_detect_mult |-> c.remote_detect_mult,
     echo_xmt_TO |-> c.echo_xmt_TO, echo_detect_TO |-> 0]

Init ==
    /\ bs = [s \in Sessions |-> bfd_session_new(Cfg[s])]
    /\ net = {}
    /\ hist = [s \in Sessions |-> [samples |-> <<>>, sent |-> 0]]
    /\ seen = Idle
    /\ bg = [n \in Nodes |-> [run |-> "off", echo |-> NoSock, echov6 |-> NoSock]]

Next ==
    \/ \E n \in Nodes :
         \/ VrfEnable(n)
         \/ \E fam \in Families : RecvEcho(n, fam)
         \/ Forward(n)
    \/ \E s \in Sessions :
         \/ EchoFpSend(s)
         \/ EchoSend(s)
         \/ SbfdEchoSend(s)
         \/ MacLearned(s)
         \/ EchoStop(s)
         \/ EchoDetectTimerExpired(s)

Spec == Init /\ [][Next]_vars

\* The daemon of node n has a packet of the network to read on its echo
\* socket of family fam, and the bounds of this model let it be read.
CanRead(n, fam) ==
    /\ EchoSocket(n, fam) # NoSock
    /\ \E p \in Readable(n, fam) \cap net :
         /\ p.ipdst = n /\ p.reflected < MaxReflect
         /\ \A v \in msgbuf(p) : \A s \in bfd_id_lookup(n, v.discr) :
                bs[s].rx_echo_pkt < MaxRx

\* The read callback takes a packet of the network.
EchoRead(n, fam) ==
    /\ Readable(n, fam) \cap net \notin SUBSET net'
    /\ RecvEcho(n, fam)

\* A forwarding plane sends on what it holds for another node, and bfdd,
\* one thread around an event loop, reads an echo socket that has a packet
\* of the network to read.  Nothing is owed by the timers, the operator,
\* the kernel that opens the sockets, or the other hosts.
Fairness ==
    \A n \in Nodes :
        /\ WF_vars(Forward(n))
        /\ \A fam \in Families :
              []<>~CanRead(n, fam) \/ []<><<EchoRead(n, fam)>>_vars

FairSpec == Spec /\ Fairness

-----------------------------------------------------------------------------
(* Properties.                                                             *)

TypeOK ==
    /\ bs \in [Sessions ->
                [ses_state : States, echo_active : BOOLEAN, mac_set : BOOLEAN,
                 rtt : [0..BFD_RTT_SAMPLE - 1 -> Rtts],
                 rtt_index : 0..BFD_RTT_SAMPLE - 1,
                 rtt_valid : 0..BFD_RTT_SAMPLE,
                 tx_echo_pkt : 0..MaxEcho, rx_echo_pkt : 0..MaxRx,
                 tx_fail_pkt : 0..MaxEcho, remote_detect_mult : Nat,
                 echo_xmt_TO : Nat, echo_detect_TO : Nat]]
    /\ net \subseteq Packets
    /\ \A s \in Sessions :
         /\ hist[s].samples \in Seq(Rtts \ {0})
         /\ hist[s].sent \in 0..MaxEcho
    /\ seen \in [class : Verdicts, fam : Families, rlen : Int,
                src : Nodes \cup {"host"}]
    /\ \A n \in Nodes : bg[n].run \in {"off", "up", "dead"}

\* The ring read from its oldest sample to its newest.
Stored(b) ==
    [i \in 1..b.rtt_valid |->
       b.rtt[(b.rtt_index + BFD_RTT_SAMPLE - b.rtt_valid + i - 1)
               % BFD_RTT_SAMPLE]]

\* The RTT ring of ptm_bfd_process_echo_pkt holds the most recent samples:
\* whatever number of echoes came back, rtt_valid is that number or the
\* capacity, and the slots from the oldest to the newest are the last
\* rtt_valid samples taken, in the order they were taken.
RingHoldsLatestSamples ==
    \A s \in Sessions :
      LET taken == hist[s].samples
          kept  == IF Len(taken) < BFD_RTT_SAMPLE THEN Len(taken)
                   ELSE BFD_RTT_SAMPLE
      IN  /\ bs[s].rtt_valid = kept
          /\ Stored(bs[s]) = SubSeq(taken, Len(taken) - kept + 1, Len(taken))

\* stats.tx_echo_pkt counts the echo packets the kernel took: a send that
\* failed or was partial (bp_udp_send_fp, bp_udp_send and
\* bp_raw_sbfd_red_send returning -1) is not counted, a send that succeeded
\* is counted once, on every transmit routine.
EchoCounterCountsPackets ==
    \A s \in Sessions : bs[s].tx_echo_pkt = hist[s].sent

\* An SBFD echo session is up only if it has sent an echo: the echo that
\* brings it up (sbfd_echo_state_handler in ptm_bfd_process_echo_pkt) is
\* accepted only with BFD_SESS_FLAG_ECHO_ACTIVE, which ptm_sbfd_echo_snd
\* raises after a send that succeeded.  An echo forged before that cannot
\* bring the session up.
SbfdEchoUpMeansSent ==
    \A s \in Sessions :
      Cfg[s].mode = "SBFD_ECHO" /\ bs[s].ses_state = "UP" => hist[s].sent > 0

\* The echoes of session s under way that its own node is the source and
\* the destination of.
OwnEchoes(s) ==
    {p \in net : /\ p.ipsrc = Cfg[s].node /\ p.ipdst = Cfg[s].node
                 /\ p.discr = Cfg[s].my_discr}

\* A fast-path echo comes home and is counted: the frame ptm_bfd_echo_fp_snd
\* makes by hand, with the session's own address as source and destination
\* and TTL 255, is sent on by the forwarding plane of the peer and read by
\* the daemon on bg_echo, where it passes the checksums and the TTL 254 of
\* bfd_recv_ipv4_fp and the checks of bp_bfd_echo_in, and names the
\* session.  Excused are a session whose echo function was stopped while
\* the frame was under way and one that has counted MaxRx echoes.
FastPathEchoComesHome ==
    \A s \in Sessions :
        Cfg[s].mode = "BFD" /\ ~Cfg[s].ipv6 =>
            (OwnEchoes(s) # {}
                ~> \/ seen.class = "counted" /\ seen.src = Cfg[s].node
                   \/ ~bs[s].echo_active
                   \/ bs[s].rx_echo_pkt = MaxRx)

\* An SBFD echo session comes up on its own echo: what ptm_sbfd_echo_snd
\* hands to the raw socket passes the segment endpoint, comes back to the
\* daemon on bg_echov6 with a hop limit that bp_bfd_echo_in takes for an
\* echo coming home, names the session, finds BFD_SESS_FLAG_ECHO_ACTIVE
\* raised and reaches sbfd_echo_state_handler.  Excused are a daemon left
\* without bg_echov6, a session whose echo function was stopped while the
\* echo was under way, and one that has counted MaxRx echoes.
SbfdEchoComesUp ==
    \A s \in Sessions :
        Cfg[s].mode = "SBFD_ECHO" =>
            (OwnEchoes(s) # {}
                ~> \/ bs[s].ses_state = "UP"
                   \/ ~bs[s].echo_active
                   \/ bs[s].rx_echo_pkt = MaxRx
                   \/ bg[Cfg[s].node].echov6 = NoSock)

\* An IPv6 echo is sent back at most once: bp_bfd_echo_in returns an echo
\* that arrives with hop limit 255 with hop limit 254, which the daemon that
\* receives it takes for its own echo coming home and never for one to send
\* back, so two daemons cannot bounce a datagram between them.
EchoReflectedOnce ==
    \A p \in net : p.reflected <= 1

\* "Short packet, better not risk reading it" (bp_bfd_echo_in): an IPv4 echo
\* that is counted for a session was carried in full by the frame received,
\* so that the discriminator and the time stamp read at bfd_offset are bytes
\* of that frame.
CountedEchoWasReceivedInFull ==
    seen.class = "counted" /\ seen.fam = "v4"
        => seen.rlen >= FP_OFFSET + ECHO_SIZE

=============================================================================
