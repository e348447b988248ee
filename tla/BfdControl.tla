----------------------------- MODULE BfdControl -----------------------------
(***************************************************************************)
(* The control-packet path of bfdd/bfd_packet.c: the read callback of the  *)
(* single- and multi-hop control sockets (bfd_recv_cb), the validation     *)
(* sequence of RFC 5880 6.8.6 it runs on every datagram, the session       *)
(* fields it stores, and the transmit routine ptm_bfd_snd.                 *)
(*                                                                         *)
(* bfdd is single threaded: a callback runs to completion, so every        *)
(* handler is one action.  The network and the kernel are the adversary:   *)
(* a receive step takes any member of Arrivals, at any time and any number *)
(* of times, which covers loss, duplication, reordering and forged packets.*)
(*                                                                         *)
(* The session state machine, the session table and the timers live in     *)
(* bfd.c, outside this repository's sources.  The operators that stand for *)
(* them are marked "(bfd.c)": they follow RFC 5880 6.8.6 and are the       *)
(* environment of the code modelled here.                                  *)
(***************************************************************************)
EXTENDS Integers, Sequences, FiniteSets

CONSTANTS
    Sessions,     \* the sessions of the session table
    Cfg,          \* Cfg[s]: key, local discriminator and flags of session s
    Ifaces,       \* interface indexes known to the daemon
    IfVrf,        \* IfVrf[i]: the VRF interface i belongs to
    NoArpIfaces,  \* interfaces with IFF_NOARP
    SockVrf,      \* the VRF the listening sockets were opened in
    Roles,        \* the control sockets that exist: subset of ControlRoles
    Arrivals,     \* what recvmsg() may return: records [dg, cp] of a datagram
                  \* (length, TTL, packet-info, source) and the packet in it
    TimerCfgs,    \* timer settings an operator may configure
    SlowTimers,   \* the timers a session uses until the first poll completes
    DefDetectMult,\* the detect multiplier assumed of a peer not yet heard
    NoAddr,       \* an address of family AF_UNSPEC
    NoIf,         \* a NULL struct interface pointer
    NoVrf,        \* a NULL struct vrf pointer: a session bound to no VRF
    NoTtl,        \* no TTL / hop-limit control message in the datagram
    NoInfo,       \* no packet-info control message in the datagram
    SendtoResults,\* what sendto() may do with a packet: TRUE takes it,
                  \* FALSE fails
    CounterMod,   \* the statistics counters count modulo this (2^64 in C)
    MaxRx,        \* bound of stats.rx_ctrl_pkt in this model
    MaxTx         \* bound of stats.tx_ctrl_pkt in this model

VARIABLES
    bs,       \* bs[s]: the fields of struct bfd_session this file touches
    wire,     \* the control packets the last step handed to sendto()
    seen      \* the verdict of the last step on the datagram it read and,
              \* of a datagram that passed the validation, its TTL and the
              \* packet's Your Discriminator and Poll fields

vars == <<bs, wire, seen>>

BFD_PKT_LEN == 24
BFD_TTL_VAL == 255
BFD_VERSION == 1

States       == {"ADM_DOWN", "DOWN", "INIT", "UP"}
Modes        == {"BFD", "SBFD_INIT"}
ControlRoles == {"shop", "mhop", "shop6", "mhop6"}
MhopRoles    == {"mhop", "mhop6"}
V4Roles      == {"shop", "mhop"}
Verdicts     == {"none", "dropped", "auth_failed", "accepted"}

ASSUME /\ Roles \subseteq ControlRoles
       /\ NoArpIfaces \subseteq Ifaces
       /\ SendtoResults \subseteq BOOLEAN /\ TRUE \in SendtoResults
       /\ CounterMod \in Nat \ {0}
       /\ MaxRx \in Nat /\ MaxTx \in Nat
       /\ \A s \in Sessions :
            /\ Cfg[s].my_discr # 0
            /\ Cfg[s].ifname # NoIf => IfVrf[Cfg[s].ifname] = Cfg[s].vrf
            /\ \A t \in Sessions \ {s} : Cfg[t].my_discr # Cfg[s].my_discr

-----------------------------------------------------------------------------
(* Reading a datagram.                                                     *)

\* What both receive routines take from the ancillary data: the TTL (0 when
\* the kernel sent none), the local address and the interface of the
\* packet-info message.  A TTL above 255 makes the routine return -1, as a
\* failed recvmsg() does.
Ancillary(dg) ==
    [mlen    |-> IF dg.ttlval # NoTtl /\ dg.ttlval > 255 THEN -1 ELSE dg.len,
     ttl     |-> IF dg.len = -1 \/ dg.ttlval = NoTtl \/ dg.ttlval > 255 THEN 0
                 ELSE dg.ttlval,
     local   |-> IF dg.pktinfo = NoInfo \/ dg.len = -1 THEN NoAddr
                 ELSE dg.pktinfo.addr,
     ifindex |-> IF dg.pktinfo = NoInfo \/ dg.len = -1 THEN 0
                 ELSE dg.pktinfo.ifindex,
     peer    |-> IF dg.len = -1 THEN NoAddr ELSE dg.src]

\* On Linux getsockopt_ifindex() reads the same packet-info message, so the
\* fallback of the IPv4 routine finds nothing new.
bfd_recv_ipv4(dg) == Ancillary(dg)

bfd_recv_ipv6(dg) == Ancillary(dg)

\* (lib/if.c) With the VRF-lite backend an ifindex is looked up in all VRFs.
if_lookup_by_index(ifindex) ==
    IF ifindex \in Ifaces THEN ifindex ELSE NoIf

-----------------------------------------------------------------------------
(* The validation sequence.  A list of <<rule, violated>> pairs in the     *)
(* order of the code; the verdict is the first rule violated.              *)

FirstFailure(checks) ==
    LET failing == {i \in DOMAIN checks : checks[i][2]}
    IN  IF failing = {} THEN "ok"
        ELSE checks[CHOOSE i \in failing : \A j \in failing : i <= j][1]

\* Faulty variant: a zero detect multiplier is let through.
HeaderChecksZeroMult(m, is_mhop, cp) == <<
    <<"too small",              m.mlen < BFD_PKT_LEN>>,
    <<"invalid TTL",            ~is_mhop /\ m.ttl # BFD_TTL_VAL>>,
    <<"bad version",            cp.ver # BFD_VERSION>>,
    <<"bad length",             cp.len < BFD_PKT_LEN \/ cp.len > m.mlen>>,
    <<"multipoint flag",        cp.mbit>>,
    <<"my discriminator zero",  cp.my_discr = 0>> >>

\* Faulty variant: a zero My Discriminator is let through.
HeaderChecksZeroDiscr(m, is_mhop, cp) == <<
    <<"too small",              m.mlen < BFD_PKT_LEN>>,
    <<"invalid TTL",            ~is_mhop /\ m.ttl # BFD_TTL_VAL>>,
    <<"bad version",            cp.ver # BFD_VERSION>>,
    <<"detect multiplier zero", cp.detect_mult = 0>>,
    <<"bad length",             cp.len < BFD_PKT_LEN \/ cp.len > m.mlen>>,
    <<"multipoint flag",        cp.mbit>> >>

\* The rules checked before a session is looked up.
HeaderChecks(m, is_mhop, cp) == <<
    <<"too small",              m.mlen < BFD_PKT_LEN>>,
    <<"invalid TTL",            ~is_mhop /\ m.ttl # BFD_TTL_VAL>>,
    <<"bad version",            cp.ver # BFD_VERSION>>,
    <<"detect multiplier zero", cp.detect_mult = 0>>,
    <<"bad length",             cp.len < BFD_PKT_LEN \/ cp.len > m.mlen>>,
    <<"multipoint flag",        cp.mbit>>,
    <<"my discriminator zero",  cp.my_discr = 0>> >>

\* (bfd.c) The session a packet belongs to: by the discriminator the peer
\* echoes back when it has one, by the session key otherwise.
ptm_bfd_sess_find(cp, m, ifp, vrfid, is_mhop) ==
    IF cp.remote_discr # 0
    THEN {s \in Sessions : /\ Cfg[s].my_discr = cp.remote_discr
                           /\ Cfg[s].peer = m.peer}
    ELSE {s \in Sessions : /\ Cfg[s].peer = m.peer
                           /\ Cfg[s].mhop = is_mhop
                           /\ Cfg[s].vrf = vrfid
                           /\ Cfg[s].local \in {NoAddr, m.local}
                           /\ Cfg[s].ifname \in {NoIf, ifp}}

\* Faulty variant: the VRF of the session found is not compared.
SessionChecksAnyVrf(b, c, m, is_mhop, cp, vrfid) == <<
    <<"remote discriminator zero",   /\ cp.remote_discr = 0
                                     /\ b.ses_state \notin {"DOWN", "ADM_DOWN"}>>,
    <<"exceeded max hop count",      is_mhop /\ m.ttl < c.mh_ttl>> >>

\* Faulty variant: a zero Your Discriminator is accepted in every state.
SessionChecksOverride(b, c, m, is_mhop, cp, vrfid) == <<
    <<"wrong vrfid",                 c.vrf # NoVrf /\ c.vrf # vrfid>>,
    <<"exceeded max hop count",      is_mhop /\ m.ttl < c.mh_ttl>> >>

\* The rules checked on the session found, before anything is stored.  The
\* VRF is compared for a session that is bound to one.
SessionChecks(b, c, m, is_mhop, cp, vrfid) == <<
    <<"wrong vrfid",                 c.vrf # NoVrf /\ c.vrf # vrfid>>,
    <<"remote discriminator zero",   /\ cp.remote_discr = 0
                                     /\ b.ses_state \notin {"DOWN", "ADM_DOWN"}>>,
    <<"exceeded max hop count",      is_mhop /\ m.ttl < c.mh_ttl>> >>

\* All defined authentication types are refused, and so is an
\* authentication section that is cut short.
bfd_check_auth(cp) == ~cp.abit

-----------------------------------------------------------------------------
(* Transmission.  An operator that may transmit returns the session record *)
(* and the packets it handed to the socket: [bs |-> ..., wire |-> <<...>>].*)

Quiet(b) == [bs |-> b, wire |-> <<>>]

\* Faulty variant: Your Discriminator is the session's own discriminator.
ControlPacketOwnDiscr(b, c, fbit) ==
    LET announced == IF b.polling THEN b.timers ELSE b.cur_timers
    IN  [ver |-> BFD_VERSION, state |-> b.ses_state, len |-> BFD_PKT_LEN,
         pbit |-> ~fbit /\ b.polling, fbit |-> fbit,
         abit |-> FALSE, mbit |-> FALSE,
         detect_mult |-> c.detect_mult,
         my_discr |-> c.my_discr, remote_discr |-> c.my_discr,
         desired_min_tx  |-> announced.desired_min_tx,
         required_min_rx |-> announced.required_min_rx]

\* The packet ptm_bfd_snd builds (RFC 5880 6.5.7).  Poll and Final are never
\* set together; the timers announced are the configured ones during a poll
\* and the ones in use otherwise.
ControlPacket(b, c, fbit) ==
    LET announced == IF b.polling THEN b.timers ELSE b.cur_timers
    IN  [ver |-> BFD_VERSION, state |-> b.ses_state, len |-> BFD_PKT_LEN,
         pbit |-> ~fbit /\ b.polling, fbit |-> fbit,
         abit |-> FALSE, mbit |-> FALSE,
         detect_mult |-> c.detect_mult,
         my_discr |-> c.my_discr, remote_discr |-> b.remote_discr,
         desired_min_tx  |-> announced.desired_min_tx,
         required_min_rx |-> announced.required_min_rx]

\* stats.rx_ctrl_pkt++ and stats.tx_ctrl_pkt++ on an unsigned counter.
Count(n) == (n + 1) % CounterMod

\* sendto() on the session's socket: the packet reaches the wire or not.
_ptm_bfd_send(pkt, sent) == IF sent THEN <<pkt>> ELSE <<>>

\* Faulty variant: the packet is counted before sendto() is asked.
ptm_bfd_snd_counts_first(b, c, fbit, sent) ==
    IF b.remote_discr = 0 /\ c.passive THEN Quiet(b)
    ELSE [bs   |-> [b EXCEPT !.tx_ctrl_pkt = Count(@)],
          wire |-> _ptm_bfd_send(ControlPacket(b, c, fbit), sent)]

\* Faulty variant: the passive check is missing.
ptm_bfd_snd_eager(b, c, fbit, sent) ==
    LET out == _ptm_bfd_send(ControlPacket(b, c, fbit), sent)
    IN  [bs   |-> [b EXCEPT !.tx_ctrl_pkt = IF sent THEN Count(@) ELSE @],
         wire |-> out]

\* A passive session that has not heard from its peer stays silent; a packet
\* is counted only when sendto() took it.
ptm_bfd_snd(b, c, fbit, sent) ==
    IF b.remote_discr = 0 /\ c.passive THEN Quiet(b)
    ELSE LET out == _ptm_bfd_send(ControlPacket(b, c, fbit), sent)
         IN  [bs   |-> [b EXCEPT !.tx_ctrl_pkt = IF sent THEN Count(@) ELSE @],
              wire |-> out]

-----------------------------------------------------------------------------
(* The session state machine (bfd.c), RFC 5880 6.8.6 and 6.8.4.            *)

\* The detection time of RFC 5880 6.8.4.
DetectTime(b) ==
    IF b.cur_timers.required_min_rx > b.remote_timers.desired_min_tx
    THEN b.remote_detect_mult * b.cur_timers.required_min_rx
    ELSE b.remote_detect_mult * b.remote_timers.desired_min_tx

\* (bfd.c) A poll sequence has ended: the configured timers come into use
\* ("See bs_final_handler" in ptm_bfd_snd, and the same two assignments in
\* the branch of the SBFD initiator).  Whether the routine also computes the
\* two timeouts again is not to be seen from bfd_packet.c: they are left as
\* bfd_recv_cb computed them.
bs_final_handler(b) == [b EXCEPT !.cur_timers = b.timers]

\* (bfd.c) The session goes down: the peer's discriminator is forgotten and
\* the peer is told at once.
ptm_bfd_sess_dn(b, c, sent) ==
    ptm_bfd_snd([b EXCEPT !.ses_state = "DOWN", !.remote_discr = 0,
                          !.polling = FALSE], c, FALSE, sent)

\* (bfd.c) The session comes up and polls to negotiate its timers.
ptm_bfd_sess_up(b, c, sent) ==
    ptm_bfd_snd([b EXCEPT !.ses_state = "UP", !.polling = TRUE], c, FALSE, sent)

\* (bfd.c) The transition for a packet that announces state nstate.
bs_state_handler(b, c, nstate, sent) ==
    CASE b.ses_state = "DOWN" /\ nstate = "DOWN" ->
            Quiet([b EXCEPT !.ses_state = "INIT"])
      [] b.ses_state = "DOWN" /\ nstate = "INIT" -> ptm_bfd_sess_up(b, c, sent)
      [] b.ses_state = "INIT" /\ nstate \in {"INIT", "UP"} ->
            ptm_bfd_sess_up(b, c, sent)
      [] b.ses_state = "INIT" /\ nstate = "ADM_DOWN" -> ptm_bfd_sess_dn(b, c, sent)
      [] b.ses_state = "UP" /\ nstate \in {"ADM_DOWN", "DOWN"} ->
            ptm_bfd_sess_dn(b, c, sent)
      [] OTHER -> Quiet(b)

\* (bfd.c) A reflected packet brings an SBFD initiator up.
sbfd_initiator_state_handler(b) ==
    IF b.ses_state = "ADM_DOWN" THEN b ELSE [b EXCEPT !.ses_state = "UP"]

-----------------------------------------------------------------------------
(* What bfd_recv_cb stores of an accepted packet.                          *)

\* The peer's link-layer address, resolved once from the ARP table of the
\* interface the packet came in on (IPv4 only).  peer_hw_addr names that
\* interface; NoIf is the zeroed address with BFD_SESS_FLAG_MAC_SET clear.
bfd_peer_mac_set(b, role, ifp, arp) ==
    IF b.peer_hw_addr # NoIf \/ ifp \in NoArpIfaces \/ role \notin V4Roles
    THEN b
    ELSE [b EXCEPT !.peer_hw_addr = IF arp THEN ifp ELSE NoIf]

\* On a single-hop socket the local address of a session that had none and
\* the peer's MAC are learned from the packet.
LearnLocal(b, m, ifp, role, arp) ==
    LET shop    == role \notin MhopRoles
        located == IF shop /\ b.local_address = NoAddr
                   THEN [b EXCEPT !.local_address = m.local] ELSE b
    IN  IF shop /\ ifp # NoIf
        THEN bfd_peer_mac_set(located, role, ifp, arp) ELSE located

\* The fields stored before the authentication check: what LearnLocal
\* learns; the packet count; the interface of a session that had none; the
\* peer's discriminator.
LearnFromPacket(b, m, ifp, role, cp, arp) ==
    [LearnLocal(b, m, ifp, role, arp) EXCEPT
        !.rx_ctrl_pkt = Count(@),
        !.ifp = IF role \notin MhopRoles /\ @ = NoIf THEN ifp ELSE @,
        !.remote_discr = cp.my_discr]

\* The fields stored after it: what the peer announced of its timers.
StoreRemote(b, cp) ==
    [b EXCEPT !.remote_timers = [desired_min_tx  |-> cp.desired_min_tx,
                                 required_min_rx |-> cp.required_min_rx],
              !.remote_detect_mult = cp.detect_mult]

\* Faulty variant: the detection time is taken from the transmit interval
\* before that interval is brought up to date.
SbfdInitReceiveStale(b, c, cp) ==
    LET up    == sbfd_initiator_state_handler(b)
        timed == [up EXCEPT !.detect_TO = c.detect_mult * up.xmt_TO,
                            !.xmt_TO = up.timers.desired_min_tx]
    IN  Quiet(IF timed.polling /\ cp.fbit
              THEN [timed EXCEPT !.polling = FALSE, !.cur_timers = timed.timers]
              ELSE timed)

\* An SBFD initiator takes any accepted packet as the reflector's answer: the
\* session comes up, transmits at the configured interval, and nothing is
\* sent from the receive path.
SbfdInitReceive(b, c, cp) ==
    LET up    == sbfd_initiator_state_handler(b)
        paced == [up EXCEPT !.xmt_TO = up.timers.desired_min_tx]
        timed == [paced EXCEPT !.detect_TO = c.detect_mult * paced.xmt_TO]
    IN  Quiet(IF timed.polling /\ cp.fbit
              THEN [timed EXCEPT !.polling = FALSE, !.cur_timers = timed.timers]
              ELSE timed)

\* Faulty variant: the poll ends and the configured timers stay unused.
EndPollKeepsTimers(b, cp) ==
    IF b.polling /\ cp.fbit THEN [b EXCEPT !.polling = FALSE] ELSE b

\* Faulty variant: the poll is not marked as ended.
EndPollKeepsPolling(b, cp) ==
    IF b.polling /\ cp.fbit THEN bs_final_handler(b) ELSE b

\* RFC 5880 6.5: a Final ends the poll sequence of a session that polls,
\* whichever Poll it answers.
EndPoll(b, cp) ==
    IF b.polling /\ cp.fbit
    THEN bs_final_handler([b EXCEPT !.polling = FALSE]) ELSE b

\* Faulty variant: the Final is sent in answer to a Final.
AnswerPollToFinal(b, c, cp, sent) ==
    IF cp.fbit THEN ptm_bfd_snd(bs_final_handler(b), c, TRUE, sent) ELSE Quiet(b)

\* A Poll is answered at once with a Final, and the timers the peer
\* announced with it come into use.
AnswerPoll(b, c, cp, sent) ==
    IF cp.pbit THEN ptm_bfd_snd(bs_final_handler(b), c, TRUE, sent) ELSE Quiet(b)

\* Faulty variant: the detection time is computed before the Final is looked
\* at, from the receive interval the poll is about to replace.
GenericReceiveTimesFirst(b, c, cp, sent1, sent2) ==
    LET moved  == bs_state_handler(b, c, cp.state, sent1)
        timed  == [moved.bs EXCEPT !.detect_TO = DetectTime(moved.bs)]
        answer == AnswerPoll(EndPoll(timed, cp), c, cp, sent2)
    IN  [bs |-> answer.bs, wire |-> moved.wire \o answer.wire]

\* Faulty variant: the Poll is answered before the state switch.
GenericReceiveAnswersFirst(b, c, cp, sent1, sent2) ==
    LET polled == EndPoll(b, cp)
        answer == AnswerPoll([polled EXCEPT !.detect_TO = DetectTime(polled)],
                             c, cp, sent2)
        moved  == bs_state_handler(answer.bs, c, cp.state, sent1)
    IN  [bs |-> moved.bs, wire |-> answer.wire \o moved.wire]

\* The generic path: the state transition, the end of our poll on a Final,
\* the detection time, and the Final that answers the peer's Poll.
GenericReceive(b, c, cp, sent1, sent2) ==
    LET moved  == bs_state_handler(b, c, cp.state, sent1)
        polled == EndPoll(moved.bs, cp)
        answer == AnswerPoll([polled EXCEPT !.detect_TO = DetectTime(polled)],
                             c, cp, sent2)
    IN  [bs |-> answer.bs, wire |-> moved.wire \o answer.wire]

-----------------------------------------------------------------------------
(* The actions.                                                            *)

Within(b) == b.rx_ctrl_pkt <= MaxRx /\ b.tx_ctrl_pkt <= MaxTx

Seen(class, cp, m) ==
    [class |-> class, ttl |-> m.ttl, your |-> cp.remote_discr # 0,
     poll |-> cp.pbit]

Idle == [class |-> "none", ttl |-> 0, your |-> FALSE, poll |-> FALSE]

\* cp_debug and return: the datagram is logged and forgotten.
Drop ==
    /\ seen' = [Idle EXCEPT !.class = "dropped"]
    /\ wire' = <<>>
    /\ UNCHANGED bs

\* Faulty variant: what the peer announced of its timers is stored with the
\* other fields, before the authentication check.
Dispatch_stores_first(s, learned, cp, m) ==
    LET stored == StoreRemote(learned, cp)
    IN  \/ /\ ~bfd_check_auth(cp)
           /\ Within(stored)
           /\ bs' = [bs EXCEPT ![s] = stored]
           /\ wire' = <<>>
           /\ seen' = Seen("auth_failed", cp, m)
        \/ /\ bfd_check_auth(cp)
           /\ \E out \in IF Cfg[s].mode = "SBFD_INIT"
                          THEN {SbfdInitReceive(stored, Cfg[s], cp)}
                          ELSE {GenericReceive(stored, Cfg[s], cp, sent1, sent2) :
                                  sent1, sent2 \in SendtoResults} :
                 /\ Within(out.bs)
                 /\ bs' = [bs EXCEPT ![s] = out.bs]
                 /\ wire' = out.wire
                 /\ seen' = Seen("accepted", cp, m)

\* A packet that passed every check: stored, then refused by the
\* authentication check or handed to the state machine.
Dispatch(s, learned, cp, m) ==
    \/ /\ ~bfd_check_auth(cp)
       /\ Within(learned)
       /\ bs' = [bs EXCEPT ![s] = learned]
       /\ wire' = <<>>
       /\ seen' = Seen("auth_failed", cp, m)
    \/ /\ bfd_check_auth(cp)
       /\ LET stored == StoreRemote(learned, cp)
          IN  \E out \in IF Cfg[s].mode = "SBFD_INIT"
                         THEN {SbfdInitReceive(stored, Cfg[s], cp)}
                         ELSE {GenericReceive(stored, Cfg[s], cp, sent1, sent2) :
                                 sent1, sent2 \in SendtoResults} :
                /\ Within(out.bs)
                /\ bs' = [bs EXCEPT ![s] = out.bs]
                /\ wire' = out.wire
                /\ seen' = Seen("accepted", cp, m)

\* bfd_recv_cb on the control socket of the given role, reading arrival a.
bfd_recv_cb(role, a) ==
    LET cp      == a.cp
        is_mhop == role \in MhopRoles
        m       == IF role \in V4Roles THEN bfd_recv_ipv4(a.dg)
                   ELSE bfd_recv_ipv6(a.dg)
        ifp     == IF m.ifindex # 0 THEN if_lookup_by_index(m.ifindex) ELSE NoIf
        vrfid   == IF ifp # NoIf THEN IfVrf[ifp] ELSE SockVrf
        header  == FirstFailure(HeaderChecks(m, is_mhop, cp))
        found   == IF header = "ok"
                   THEN ptm_bfd_sess_find(cp, m, ifp, vrfid, is_mhop) ELSE {}
    IN  \/ /\ found = {}
           /\ Drop
        \/ \E s \in found :
             IF FirstFailure(SessionChecks(bs[s], Cfg[s], m, is_mhop, cp, vrfid)) # "ok"
             THEN Drop
             ELSE \E learned \in {LearnFromPacket(bs[s], m, ifp, role, cp, arp) :
                                     arp \in BOOLEAN} :
                    Dispatch(s, learned, cp, m)

\* A control socket becomes readable: the kernel hands over any datagram
\* the network can deliver.
RecvControl(role) ==
    \E a \in Arrivals : bfd_recv_cb(role, a)

Step(s, out) ==
    /\ Within(out.bs)
    /\ bs' = [bs EXCEPT ![s] = out.bs]
    /\ wire' = out.wire
    /\ seen' = Idle

\* (bfd.c) The transmit timer of a BFD session fires.
XmtTimerExpired(s) ==
    /\ Cfg[s].mode = "BFD"
    /\ bs[s].ses_state # "ADM_DOWN"
    /\ \E sent \in SendtoResults : Step(s, ptm_bfd_snd(bs[s], Cfg[s], FALSE, sent))

\* (bfd.c) The detection time passed without a packet from the peer.
DetectTimerExpired(s) ==
    /\ bs[s].ses_state \in {"INIT", "UP"}
    /\ IF Cfg[s].mode = "BFD"
       THEN \E sent \in SendtoResults : Step(s, ptm_bfd_sess_dn(bs[s], Cfg[s], sent))
       ELSE Step(s, Quiet([bs[s] EXCEPT !.ses_state = "DOWN"]))

\* (bfd.c) The operator changes the timers of a session that is up: the new
\* values are announced with a Poll and used once the peer answered.
SetTimers(s) ==
    /\ bs[s].ses_state = "UP"
    /\ \E t \in TimerCfgs \ {bs[s].timers} :
         Step(s, Quiet([bs[s] EXCEPT !.timers = t, !.polling = TRUE]))

\* (bfd.c) "shutdown": a BFD session tells its peer once, then is silent.
Shutdown(s) ==
    /\ bs[s].ses_state # "ADM_DOWN"
    /\ LET down == [bs[s] EXCEPT !.ses_state = "ADM_DOWN", !.polling = FALSE]
       IN  IF Cfg[s].mode = "BFD"
           THEN \E sent \in SendtoResults : Step(s, ptm_bfd_snd(down, Cfg[s], FALSE, sent))
           ELSE Step(s, Quiet(down))

\* (bfd.c) "no shutdown".
NoShutdown(s) ==
    /\ bs[s].ses_state = "ADM_DOWN"
    /\ Step(s, Quiet([bs[s] EXCEPT !.ses_state = "DOWN"]))

\* (bfd.c) A new session: down, on slow timers, its peer unknown unless it is
\* an SBFD initiator, which is configured with the reflector's discriminator.
bfd_session_new(c) ==
    [ses_state |-> "DOWN", remote_discr |-> c.remote_discr, polling |-> FALSE,
     local_address |-> c.local, ifp |-> c.ifname, peer_hw_addr |-> NoIf,
     remote_timers |-> SlowTimers, remote_detect_mult |-> DefDetectMult,
     timers |-> c.timers, cur_timers |-> SlowTimers,
     xmt_TO |-> SlowTimers.desired_min_tx,
     detect_TO |-> DefDetectMult * SlowTimers.desired_min_tx,
     rx_ctrl_pkt |-> 0, tx_ctrl_pkt |-> 0]

Init ==
    /\ bs = [s \in Sessions |-> bfd_session_new(Cfg[s])]
    /\ wire = <<>>
    /\ seen = Idle

Next ==
    \/ \E role \in Roles : RecvControl(role)
    \/ \E s \in Sessions :
         \/ XmtTimerExpired(s)
         \/ DetectTimerExpired(s)
         \/ SetTimers(s)
         \/ Shutdown(s)
         \/ NoShutdown(s)

Spec == Init /\ [][Next]_vars

-----------------------------------------------------------------------------
(* Properties.                                                             *)

Timers == [desired_min_tx : Nat, required_min_rx : Nat]

\* The type invariant: every field of a session keeps its C type, and the
\* peer's detect multiplier, which bfd_recv_cb stores and multiplies the
\* detection time with, is never the zero the validation refuses.
TypeOK ==
    /\ bs \in [Sessions ->
                [ses_state : States, remote_discr : Nat, polling : BOOLEAN,
                 local_address : {a.dg.pktinfo.addr : a \in
                                    {x \in Arrivals : x.dg.pktinfo # NoInfo}}
                                 \cup {Cfg[s].local : s \in Sessions} \cup {NoAddr},
                 ifp : Ifaces \cup {NoIf}, peer_hw_addr : Ifaces \cup {NoIf},
                 remote_timers : Timers, remote_detect_mult : 1..255,
                 timers : Timers, cur_timers : Timers,
                 xmt_TO : Nat, detect_TO : Nat,
                 rx_ctrl_pkt : 0..MaxRx, tx_ctrl_pkt : 0..MaxTx]]
    /\ wire \in Seq([ver : {BFD_VERSION}, state : States, len : {BFD_PKT_LEN},
                     pbit : BOOLEAN, fbit : BOOLEAN, abit : {FALSE},
                     mbit : {FALSE}, detect_mult : 1..255,
                     my_discr : Nat \ {0}, remote_discr : Nat,
                     desired_min_tx : Nat, required_min_rx : Nat])
    /\ Len(wire) <= 2
    /\ seen \in [class : Verdicts, ttl : 0..255, your : BOOLEAN, poll : BOOLEAN]

Established(b) == b.ses_state \in {"INIT", "UP"}

\* A session that is INIT or UP knows its peer's discriminator: bfd_recv_cb
\* refuses a packet whose My Discriminator is zero before it stores that
\* field and runs the state machine, and a session that goes down forgets
\* the discriminator in the same step.
EstablishedKnowsPeer ==
    \A s \in Sessions : Established(bs[s]) => bs[s].remote_discr # 0

\* "Ensure that existing good sessions are not overridden": a datagram whose
\* Your Discriminator is zero, whatever else it carries and whichever socket
\* it arrives on, leaves every session that is INIT or UP exactly as it was.
EstablishedNotOverridden ==
    [][seen'.class \in {"accepted", "auth_failed"} /\ ~seen'.your
         => \A s \in Sessions : Established(bs[s]) => bs'[s] = bs[s]]_vars

\* What a session has negotiated with its peer and what it has sent: none of
\* it is among the fields bfd_recv_cb stores before its last check.
Negotiated(b) ==
    [f \in {"ses_state", "polling", "remote_timers", "remote_detect_mult",
            "cur_timers", "xmt_TO", "detect_TO", "tx_ctrl_pkt"} |-> b[f]]

\* A datagram bfd_recv_cb refuses, at whichever check, changes nothing of
\* what a session negotiated and makes bfdd send nothing.  The refusal of the
\* authentication check comes last, after the local address, the MAC, the
\* interface, the packet count and the peer's discriminator were stored from
\* the packet: the state, the poll, the peer's timers and multiplier and the
\* two timeouts are stored after it only, so that a packet with the A bit
\* cannot stretch the detection time or slow the session down.
RefusedKeepsNegotiation ==
    [][seen'.class \in {"dropped", "auth_failed"}
         => /\ wire' = <<>>
            /\ \A s \in Sessions :
                  Negotiated(bs'[s]) = Negotiated(bs[s])]_vars

\* A passive session never speaks first: every packet ptm_bfd_snd puts on
\* the wire for it carries the discriminator of a peer it has heard from,
\* also when the state machine sends while the session goes down.
PassiveNeverSpeaksFirst ==
    \A i \in DOMAIN wire : \A s \in Sessions :
        Cfg[s].my_discr = wire[i].my_discr /\ Cfg[s].passive
            => wire[i].remote_discr # 0

\* The counter of packets sent counts what sendto() took, no more and no
\* less, in every step: also in the step of bfd_recv_cb that sends twice, the
\* packet of the state machine and the Final, when one sendto() fails and
\* the other does not, and in the step of a passive session that sends
\* nothing.  ptm_bfd_snd returns before stats.tx_ctrl_pkt++ when
\* _ptm_bfd_send failed.
SentIsCounted ==
    [][\A s \in Sessions :
         LET sent == {i \in DOMAIN wire' : wire'[i].my_discr = Cfg[s].my_discr}
         IN  bs'[s].tx_ctrl_pkt = (bs[s].tx_ctrl_pkt + Cardinality(sent)) % CounterMod]_vars

\* VRF isolation: the interface a session is bound to and the interface its
\* peer's MAC was resolved on belong to the VRF of a session that has one,
\* although the sockets of the default VRF receive for all VRFs and a session
\* is found by discriminator whatever interface the packet came in on.
LearnedInterfaceInSessionVrf ==
    \A s \in Sessions : \A i \in {bs[s].ifp, bs[s].peer_hw_addr} \ {NoIf} :
        Cfg[s].vrf # NoVrf => IfVrf[i] = Cfg[s].vrf

\* A Final is sent only in answer to a Poll accepted in the same step (RFC
\* 5880 6.5): neither a timer, nor a received Final, nor the packet the state
\* machine sends in the step that accepted the Poll carries one.
FinalAnswersPoll ==
    \A i \in DOMAIN wire :
        wire[i].fbit => seen.class = "accepted" /\ seen.poll

\* A packet without Poll that bfd_recv_cb accepts for a BFD session leaves the
\* detection time at the peer's multiplier times the larger of the receive
\* interval in use and the peer's transmit interval (RFC 5880 6.8.4), as the
\* session has them when the step is over: a Final that ends a poll of ours
\* brings the configured receive interval into use first, and the packet may
\* have taken the session up or down before.  The step that answers a Poll
\* is left out: there bs_final_handler runs after the detection time was
\* computed, and what it does to it is code of bfd.c.
DetectTimeFollowsPacket ==
    [][seen'.class = "accepted" /\ ~seen'.poll
         => \A s \in Sessions :
              LET b  == bs'[s]
                  rx == b.cur_timers.required_min_rx
                  tx == b.remote_timers.desired_min_tx
              IN  Cfg[s].mode = "BFD" /\ b # bs[s]
                    => b.detect_TO = b.remote_detect_mult * (IF rx > tx THEN rx ELSE tx)]_vars

\* An SBFD initiator that is up detects with its own multiplier times the
\* interval it transmits at: bfd_recv_cb brings the interval up to date
\* before it computes the detection time from it, on every reflected packet.
DetectTimeAgreed ==
    \A s \in Sessions :
        Cfg[s].mode = "SBFD_INIT" /\ bs[s].ses_state = "UP"
            => bs[s].detect_TO = Cfg[s].detect_mult * bs[s].xmt_TO

\* Single-hop sessions are protected by GTSM (RFC 5881 5): "TTL check is
\* skipped (replaced by a minimum-hop-count check) for multi-hop sessions"
\* only.  Whatever socket a datagram arrives on, bfd_recv_cb hands it to a
\* single-hop session only if its TTL is 255.
SingleHopNeedsTtl255 ==
    [][seen'.class = "accepted"
         => \A s \in Sessions :
              bs'[s] # bs[s] /\ ~Cfg[s].mhop => seen'.ttl = BFD_TTL_VAL]_vars

\* The fast-path echo frame is sent on the session's interface to the MAC
\* held by the session ("dest MAC as peer's MAC"): the MAC a session holds
\* was resolved on the interface the session is bound to.
MacOnBoundInterface ==
    \A s \in Sessions :
        bs[s].peer_hw_addr # NoIf => bs[s].peer_hw_addr = bs[s].ifp

=============================================================================
