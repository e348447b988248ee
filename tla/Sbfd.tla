-------------------------------- MODULE Sbfd --------------------------------
(***************************************************************************)
(* Seamless BFD (RFC 7880) as bfdd/bfd_packet.c implements it: the         *)
(* initiator's transmit routine (ptm_sbfd_initiator_snd and                *)
(* _ptm_sbfd_init_send), the stateless reflector                           *)
(* (ptm_bfd_reflector_process_init_packet) and, taken from BfdControl, the *)
(* initiator's read callback bfd_recv_cb, which receives what the          *)
(* reflector sends back.                                                   *)
(*                                                                         *)
(* The initiator and the reflector are two daemons joined by a network     *)
(* that may lose, delay and reorder: a datagram sent is in net until       *)
(* somebody reads it, in any order, nobody has to, and a send may put      *)
(* nothing there.  InitArrivals are the datagrams other hosts send to the  *)
(* reflector.                                                              *)
(*                                                                         *)
(* Both start without sockets: the reflector opens bg_initv6, and ends     *)
(* where that cannot be set up; the session of the initiator gets the raw  *)
(* socket it sends on, and tries again where that failed.                  *)
(***************************************************************************)
EXTENDS BfdControl, BfdSocket

CONSTANTS
    Reflectors,    \* the discriminators of the reflector table
    LocalAddr,     \* the initiator's address
    ReflectorAddr, \* the reflector's address
    LinkIf,        \* the initiator's interface towards the reflector
    InitArrivals,  \* what other hosts send to the reflector socket
    MaxFail,       \* the most sends of a session that fail in a row
    MaxLoss,       \* the most datagrams the network loses
    NetCap,        \* the most datagrams the network holds
    KernelFaults,  \* what the kernel may refuse while the reflector opens
                   \* bg_initv6: sets of calls
    PeerFaults     \* the same while a session gets its socket

VARIABLES
    net,    \* the datagrams in flight: [to, dg, cp], with the session
            \* whose packet a datagram carries or answers (of) and whether
            \* that packet was a Poll (poll)
    fail,   \* fail[s]: stats.tx_fail_pkt of session s
    sock,   \* sock[s]: bs->sock of session s
    refl,   \* the reflector: whether it runs, and its socket bg_initv6
    lost    \* the datagrams lost so far

svars == <<bs, wire, seen, net, fail, sock, refl, lost>>

BFD_TTL    == 255
Ends       == {"reflector", "initiator"}
Elsewhere  == "elsewhere"

\* The packets of this module as bytes.
Codec == INSTANCE BfdCodec

\* (bfd.h) The diagnostics a session may hold in local_diag: the least and
\* the greatest of them.
Diags == {0, 8}

ASSUME /\ Reflectors \subseteq Nat \ {0}
       /\ MaxFail \in Nat /\ MaxLoss \in Nat /\ NetCap \in Nat \ {0}
       /\ LinkIf \in Ifaces
       /\ {} \in KernelFaults /\ {} \in PeerFaults /\ NoDev = NoIf

-----------------------------------------------------------------------------
(* The initiator.                                                          *)

\* Faulty variant: the packet of a classic session, without the Demand bit.
SbfdInitPacketNoDemand(b, c, fbit) ==
    LET cp == ControlPacket(b, c, fbit)
    IN  [f \in DOMAIN cp \cup {"dbit"} |->
           CASE f = "dbit"            -> FALSE
             [] f = "required_min_rx" -> 0
             [] OTHER                 -> cp[f]]

\* The packet of RFC 7880 7.3.2: the Demand bit is set, Poll and Final as
\* in ptm_bfd_snd, no receive interval.
SbfdInitPacket(b, c, fbit) ==
    LET announced == IF b.polling THEN b.timers ELSE b.cur_timers
    IN  [ver |-> BFD_VERSION, state |-> b.ses_state, len |-> BFD_PKT_LEN,
         pbit |-> ~fbit /\ b.polling, fbit |-> fbit, dbit |-> TRUE,
         abit |-> FALSE, mbit |-> FALSE,
         detect_mult |-> c.detect_mult,
         my_discr |-> c.my_discr, remote_discr |-> b.remote_discr,
         desired_min_tx |-> announced.desired_min_tx, required_min_rx |-> 0]

\* The raw send: a failure is counted; a success clears the count of
\* failures and counts the packet.  The result is the session, the failure
\* count and the packets that went out.
_ptm_sbfd_init_send(b, nfail, pkt, ok) ==
    IF ok
    THEN [bs |-> [b EXCEPT !.tx_ctrl_pkt = Count(@)], fail |-> 0, wire |-> <<pkt>>]
    ELSE [bs |-> b, fail |-> nfail + 1, wire |-> <<>>]

\* After a send that succeeded the packet is counted once more.
ptm_sbfd_initiator_snd(b, c, nfail, fbit, ok) ==
    LET out == _ptm_sbfd_init_send(b, nfail, SbfdInitPacket(b, c, fbit), ok)
    IN  IF ok THEN [out EXCEPT !.bs.tx_ctrl_pkt = Count(@)] ELSE out

\* The datagram that carries a packet of the initiator to the reflector.
ToReflector(s, pkt) ==
    [to |-> "reflector", of |-> s, poll |-> pkt.pbit, cp |-> pkt,
     dg |-> [len |-> BFD_PKT_LEN, ttlval |-> BFD_TTL, pktinfo |-> NoInfo,
             src |-> LocalAddr]]

-----------------------------------------------------------------------------
(* The reflector.                                                          *)

\* Faulty variant: the discriminators are sent back as they came.
Reflection_unswapped(cp) ==
    [cp EXCEPT !.dbit = FALSE, !.state = "UP",
               !.pbit = FALSE, !.fbit = cp.fbit \/ cp.pbit]

\* Faulty variant: the Demand bit is sent back as it came.
Reflection_demand(cp) ==
    [cp EXCEPT !.my_discr = cp.remote_discr, !.remote_discr = cp.my_discr,
               !.state = "UP", !.pbit = FALSE, !.fbit = cp.fbit \/ cp.pbit]

\* Faulty variant: every answer is a Final.
Reflection_final(cp) ==
    [cp EXCEPT !.my_discr = cp.remote_discr, !.remote_discr = cp.my_discr,
               !.dbit = FALSE, !.state = "UP", !.pbit = FALSE, !.fbit = TRUE]

\* What the reflector makes of a packet: the discriminators change places,
\* Demand is cleared, the state is Up and a Poll becomes a Final.  Nothing
\* else is looked at or changed.
Reflection(cp) ==
    [cp EXCEPT !.my_discr = cp.remote_discr, !.remote_discr = cp.my_discr,
               !.dbit = FALSE, !.state = "UP",
               !.pbit = FALSE, !.fbit = cp.fbit \/ cp.pbit]

\* (bfd.c) The reflector table.
sbfd_discr_lookup(discr) == discr \in Reflectors

\* The verdict of the reflector on a datagram, in the order of the code.
ReflectorVerdict(m, cp) ==
    FirstFailure(<<
        <<"small bfd packet",   m.mlen < BFD_PKT_LEN>>,
        <<"no demand bit",      ~cp.dbit>>,
        <<"no reflector found", ~sbfd_discr_lookup(cp.remote_discr)>> >>)

\* The answer goes to the source of the datagram, all rlen bytes of it, on
\* the socket the datagram was read from.
ToInitiator(a, m) ==
    [to |-> IF m.peer = LocalAddr THEN "initiator" ELSE Elsewhere,
     of |-> a.of, poll |-> a.poll, cp |-> Reflection(a.cp),
     dg |-> [len |-> m.mlen, ttlval |-> SentTtl(refl.initv6),
             pktinfo |-> [addr |-> m.peer, ifindex |-> LinkIf],
             src |-> ReflectorAddr]]

-----------------------------------------------------------------------------
(* The actions.                                                            *)

\* An action of BfdControl leaves the variables of this module alone.
Control(A) ==
    /\ A
    /\ UNCHANGED <<net, fail, sock, refl, lost>>

\* What is under way to one end.
Towards(end) == {a \in net : a.to = end}

\* (bfd.c) bfd_vrf_enable of the reflector: it opens bg_initv6.  Where
\* bp_initv6_socket called zlog_fatal the process is gone.
ReflectorEnable ==
    /\ refl.run = "off"
    /\ \E k \in KernelFaults :
         LET sd == bp_initv6_socket(k, SockVrf)
         IN  refl' = IF sd = Fatal THEN [run |-> "dead", initv6 |-> NoSock]
                     ELSE [run |-> "up", initv6 |-> sd]
    /\ UNCHANGED <<bs, wire, seen, net, fail, sock, lost>>

\* (bfd.c) bfd_session_enable: the session gets its raw socket, or stays
\* without and is enabled again later.
SessionEnable(s) ==
    /\ Cfg[s].mode = "SBFD_INIT" /\ sock[s] = NoSock
    /\ \E k \in PeerFaults :
         sock' = [sock EXCEPT ![s] = bp_peer_srh_socketv6(k, Cfg[s]).sd]
    /\ UNCHANGED <<bs, wire, seen, net, fail, refl, lost>>

\* (bfd.c) The transmit timer of an SBFD initiator fires.  sendmsg() on the
\* descriptor -1 of a session without a socket fails.
InitiatorSend(s) ==
    /\ Cfg[s].mode = "SBFD_INIT"
    /\ bs[s].ses_state # "ADM_DOWN"
    /\ UNCHANGED <<sock, refl, lost>>
    /\ \E ok \in {o \in BOOLEAN : o => sock[s] # NoSock} :
         LET out == ptm_sbfd_initiator_snd(bs[s], Cfg[s], fail[s], FALSE, ok)
         IN  /\ Within(out.bs) /\ out.fail <= MaxFail
             /\ bs' = [bs EXCEPT ![s] = out.bs]
             /\ fail' = [fail EXCEPT ![s] = out.fail]
             /\ wire' = out.wire
             /\ net' = net \cup {ToReflector(s, out.wire[i]) : i \in DOMAIN out.wire}
             /\ Cardinality(net') <= NetCap
             /\ seen' = Idle

\* bfd_recv_cb on the reflector's socket bg_initv6 reads datagram a.  The
\* answer replaces it in the network, unless sendto() failed or the answer
\* goes to a host outside this model.
ReflectorReceive(a) ==
    LET m == bfd_recv_ipv6(a.dg)
    IN  /\ refl.initv6 # NoSock
        /\ UNCHANGED <<sock, refl>>
        /\ \/ /\ ReflectorVerdict(m, a.cp) # "ok"
              /\ net' = net \ {a}
              /\ UNCHANGED lost
           \/ /\ ReflectorVerdict(m, a.cp) = "ok"
              /\ \E ok \in {o \in BOOLEAN : ~o => lost < MaxLoss} :
                   /\ net' = (net \ {a}) \cup
                             {r \in {ToInitiator(a, m)} : ok /\ r.to \in Ends}
                   /\ lost' = IF ok THEN lost ELSE lost + 1
        /\ seen' = Idle
        /\ wire' = <<>>
        /\ UNCHANGED <<bs, fail>>

\* The kernel of a reflector without bg_initv6 drops what arrives for it.
Unreachable(a) ==
    /\ refl.initv6 = NoSock
    /\ net' = net \ {a}
    /\ UNCHANGED <<bs, wire, seen, fail, sock, refl, lost>>

\* The network loses a datagram.
Lose ==
    /\ lost < MaxLoss
    /\ \E a \in net : net' = net \ {a}
    /\ lost' = lost + 1
    /\ UNCHANGED <<bs, wire, seen, fail, sock, refl>>

\* bfd_recv_cb on a control socket of the initiator reads a datagram the
\* reflector sent.
InitiatorReceive(role) ==
    \E a \in Towards("initiator") :
      /\ bfd_recv_cb(role, [dg |-> a.dg, cp |-> a.cp])
      /\ net' = net \ {a}
      /\ UNCHANGED <<fail, sock, refl, lost>>

SbfdInit ==
    /\ Init
    /\ net = {}
    /\ fail = [s \in Sessions |-> 0]
    /\ sock = [s \in Sessions |-> NoSock]
    /\ refl = [run |-> "off", initv6 |-> NoSock]
    /\ lost = 0

SbfdNext ==
    \/ ReflectorEnable
    \/ \E a \in Towards("reflector") \cup InitArrivals : ReflectorReceive(a)
    \/ \E a \in Towards("reflector") \cup InitArrivals : Unreachable(a)
    \/ Lose
    \/ \E role \in Roles : InitiatorReceive(role)
    \/ \E s \in Sessions :
         \/ SessionEnable(s)
         \/ InitiatorSend(s)
         \/ Control(DetectTimerExpired(s))
         \/ Control(SetTimers(s))

\* bfdd is one thread around an event loop: the reflector starts, a
\* transmit timer that is due fires, and a socket with something to read is
\* read.  Nothing is owed by the operator, the detection timer, the network
\* that loses, the kernel that opens the socket of a session, or the other
\* hosts.
Fairness ==
    /\ WF_svars(ReflectorEnable)
    /\ WF_svars(\E a \in Towards("reflector") : ReflectorReceive(a))
    /\ WF_svars(\E role \in Roles : InitiatorReceive(role))
    /\ \A s \in Sessions : WF_svars(InitiatorSend(s))

SbfdSpec == SbfdInit /\ [][SbfdNext]_svars /\ Fairness

-----------------------------------------------------------------------------
(* Properties.                                                             *)

\* The type invariant: the counters keep their bounds and every datagram in
\* flight is one of its direction, with the Demand bit on the way to the
\* reflector and without it on the way back (RFC 7880 6.2).
SbfdTypeOK ==
    /\ \A a \in net :
         /\ a.to \in Ends
         /\ a.of \in Sessions \cup {Elsewhere}
         /\ a.poll \in BOOLEAN
         /\ a.cp.dbit = (a.to = "reflector")
         /\ a.dg.len \in Int
    /\ fail \in [Sessions -> 0..MaxFail]
    /\ lost \in 0..MaxLoss
    /\ Cardinality(net) <= NetCap
    /\ refl.run \in {"off", "up", "dead"}
    /\ \A s \in Sessions :
         /\ bs[s].tx_ctrl_pkt \in 0..MaxTx
         /\ (\E a \in net : a.of = s) => sock[s] # NoSock

\* The datagram the last step read from the network, if it read one.
Taken == {a \in net \ net' : lost' = lost}

\* What the reflector answers to a packet of an initiator is a packet the
\* initiator accepts: the answer of ptm_bfd_reflector_process_init_packet
\* to what ptm_sbfd_initiator_snd built passes every check of bfd_recv_cb
\* and is found to belong to the session that asked, whatever happened to
\* the session while the two datagrams were under way.
ReflectionIsAccepted ==
    [][\A a \in Taken :
         a.to = "initiator" /\ a.of \in Sessions => seen'.class = "accepted"]_svars

\* A poll of the initiator ends on the reflector's answer to a Poll of the
\* session, and on nothing else: the new timers come into use
\* (SbfdInitReceive) in a step that read a Final, and the reflector sets
\* Final only on what it sends back for a Poll, so that the answer to an
\* older packet, still under way when the poll began, does not end it.
PollEndsOnAnswerToPoll ==
    [][\A s \in Sessions :
         bs[s].polling /\ ~bs'[s].polling
            => \E a \in Taken : /\ a.to = "initiator" /\ a.of = s
                                 /\ a.cp.fbit /\ a.poll]_svars

\* An SBFD initiator comes up, and comes up again after every detection
\* timeout: what ptm_sbfd_initiator_snd sends on the raw socket is answered
\* by ptm_bfd_reflector_process_init_packet on bg_initv6, and the answer is
\* one bfd_recv_cb takes, once the network has stopped losing.  Excused are
\* a session whose socket the kernel never opens and a reflector that is
\* left without bg_initv6.
InitiatorComesUp ==
    \A s \in Sessions :
        \/ []<>(bs[s].ses_state = "UP")
        \/ <>[](sock[s] = NoSock)
        \/ <>[](refl.run # "off" /\ refl.initv6 = NoSock)

\* The record a packet is held as in this model and the 24 bytes of struct
\* bfd_pkt say the same, on every datagram under way and whatever the
\* diagnostic of the session: what bfd_recv_cb and the reflector read from
\* the bytes ptm_sbfd_initiator_snd stored (BFD_SETVER, BFD_SETSTATE, the
\* flag bits, htonl) is the packet that was sent, version and diagnostic
\* share a byte without disturbing each other, and the reflector's rewrite
\* of the buffer in place (discriminators exchanged in network order,
\* UNSET_FLAG, BFD_SETSTATE, SET_FLAG) is the answer the initiator is taken
\* to receive.
WireFormatAgrees ==
    \A a \in net, diag \in Diags :
        LET buf == Codec!Wire(a.cp, diag)
        IN  /\ Codec!Parsed(buf) = a.cp
            /\ Codec!BFD_GETDIAG(buf[1]) = diag
            /\ a.to = "reflector"
                  => Codec!Parsed(Codec!Reflected(buf)) = Reflection(a.cp)

=============================================================================
