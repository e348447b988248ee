------------------------------ MODULE BfdLink ------------------------------
(***************************************************************************)
(* Two bfdd daemons, each with one session, joined by a link: what one     *)
(* daemon hands to sendto() in ptm_bfd_snd is what bfd_recv_cb of the      *)
(* other reads, in the order it was sent, unless the link lost it.         *)
(*                                                                         *)
(* The two session tables are kept as one: a session names the address of  *)
(* its peer, the two daemons have different addresses, and a datagram      *)
(* carries the address of its sender, so that ptm_bfd_sess_find never      *)
(* finds the session of the daemon that sent the packet.                   *)
(*                                                                         *)
(* Time is abstracted to what the timers of bfd.c make of it.  It passes  *)
(* in transmit intervals (Tick): in every interval the transmit timer of   *)
(* each session fires once, in any order with the other's, and a datagram  *)
(* has arrived or is lost before the interval is over.  The detection      *)
(* timer of a session is started again by every packet bfd_recv_cb accepts *)
(* for it and by nothing else; it expires when Patience intervals have     *)
(* ended since.  An operator gives MaxCommands commands, at any moment.     *)
(*                                                                         *)
(* Each daemon starts without sockets.  It opens the listening sockets of  *)
(* its VRF, and ends where one of them cannot be set up; it opens the      *)
(* socket of its session, and tries again where that failed.  What a       *)
(* daemon reads of a datagram is what the options of its listening socket  *)
(* ask the kernel for, and the TTL of a datagram is what the socket of the *)
(* session that sent it was set to.                                        *)
(***************************************************************************)
EXTENDS BfdControl, BfdSocket

CONSTANTS
    Peer,       \* Peer[s]: the session at the other end of the link
    Addr,       \* Addr[s]: the address of the daemon that holds session s
    LinkIf,     \* the interface of either daemon on the link
    Operated,   \* the sessions an operator gives commands for
    LinkCap,    \* the most datagrams ever under way in one direction
    Patience,   \* the detection time, in transmit intervals that ended
    MaxLoss,    \* the number of datagrams the link loses in this model
    KernelFaults, \* KernelFaults[s]: what the kernel may refuse while the
                  \* daemon of s opens its listening sockets: sets of calls
    PeerFaults, \* the same while the daemon opens the socket of s
    Busy,       \* Busy[s]: the source ports taken at the daemon of s
    MaxCommands \* the number of commands the operator gives in this model

VARIABLES
    host,       \* host[s]: the process and the sockets of the daemon of s
    link,       \* link[s]: the datagrams on their way to the daemon of s
    spoke,      \* spoke[s]: the transmit timer of s fired in this interval
    idle,       \* idle[s]: the intervals that ended since the detection
                \* timer of s was started
    lost,       \* the number of datagrams lost so far
    commands    \* the number of commands the operator gave so far

lvars == <<bs, wire, seen, host, link, spoke, idle, lost, commands>>

ASSUME /\ Peer \in [Sessions -> Sessions]
       /\ \A s \in Sessions :
            /\ Peer[s] # s /\ Peer[Peer[s]] = s
            /\ Cfg[s].peer = Addr[Peer[s]] /\ Addr[s] # Addr[Peer[s]]
            /\ Cfg[s].mode = "BFD"
       /\ LinkIf \in Ifaces /\ Operated \subseteq Sessions
       /\ LinkCap \in Nat /\ MaxLoss \in Nat /\ MaxCommands \in Nat
       /\ Patience \in Nat \ {0}
       /\ NoDev = NoIf
       /\ \A s \in Sessions : {} \in KernelFaults[s] /\ {} \in PeerFaults[s]
       /\ Busy \in [Sessions -> SUBSET SourcePorts]

\* The abstract specification this module implements: the state of each
\* session and, of every datagram under way, the state it announces.
Handshake ==
    INSTANCE BfdHandshake WITH
        Ends <- Sessions,
        MaxBurst <- 2,
        st <- [s \in Sessions |-> bs[s].ses_state],
        chan <- [s \in Sessions |->
                   [i \in DOMAIN link[s] |-> link[s][i].cp.state]]

-----------------------------------------------------------------------------
(* The daemons.                                                            *)

Listeners == {SocketRoles[i] : i \in DOMAIN SocketRoles}

\* A daemon that is not running, or has not opened anything yet.  srcPort
\* is the static variable of the routine that opens the session sockets of
\* the link, fds the number of descriptors the process holds.
Closed(run) ==
    [run |-> run, sd |-> [r \in Listeners |-> NoSock],
     ev |-> [i \in 0..6 |-> NoEvent],
     sock |-> NoSock, srcPort |-> BFD_SRCPORTINIT, fds |-> 0]

\* (bfd.c) bfd_vrf_enable: the seven listening sockets of the VRF.
VrfSockets(k) ==
    [shop   |-> bp_udp_shop(k, SockVrf),   mhop   |-> bp_udp_mhop(k, SockVrf),
     shop6  |-> bp_udp6_shop(k, SockVrf),  mhop6  |-> bp_udp6_mhop(k, SockVrf),
     echo   |-> bp_echo_socket(k, SockVrf),
     echov6 |-> bp_echov6_socket(k, SockVrf),
     initv6 |-> bp_initv6_socket(k, SockVrf)]

Listening(s, role) == host[s].sd[role] # NoSock
Armed(s, role)     == \E i \in DOMAIN host[s].ev : host[s].ev[i] = role
Enabled(s)         == host[s].sock # NoSock

\* The daemon of s reads the link and its session has a socket to send on.
Ready(s) == Enabled(s) /\ \E role \in Roles : Listening(s, role)

-----------------------------------------------------------------------------
(* The link.                                                               *)

\* _ptm_bfd_send and the kernel of the sender: the datagram that carries
\* packet pkt of session s, with the TTL of the socket of the session.
Datagram(s, pkt) ==
    [ttl |-> SentTtl(host[s].sock), src |-> Addr[s], cp |-> pkt]

\* recvmsg() on listening socket sd of the daemon of s: datagram d with the
\* control messages the options of the socket ask for.
Received(s, sd, d) ==
    [dg |-> [len |-> d.cp.len,
             ttlval  |-> IF HandsTtl(sd) THEN d.ttl ELSE NoTtl,
             pktinfo |-> IF HandsInfo(sd)
                         THEN [addr |-> Addr[s], ifindex |-> LinkIf]
                         ELSE NoInfo,
             src |-> d.src],
     cp |-> d.cp]

\* What the step just taken sent to the daemon of session t.  sendto() on
\* the descriptor -1 of a session without a socket fails: nothing leaves.
SentTo(t) ==
    LET from == SelectSeq(wire', LAMBDA p : /\ p.my_discr = Cfg[Peer[t]].my_discr
                                            /\ Enabled(Peer[t]))
    IN  [i \in DOMAIN from |-> Datagram(Peer[t], from[i])]

\* The link after a step that left rest of what was under way.
Carries(rest) ==
    link' = [t \in Sessions |-> rest[t] \o SentTo(t)]

Running(b) == b.ses_state \in {"INIT", "UP"}

\* bfd_recvtimer_update and bfd_recvtimer_delete: the detection timer of s
\* after a step that started it again, or did not.  It runs only while the
\* session is INIT or UP.
Timer(s, restarted) ==
    idle' = [idle EXCEPT ![s] = IF restarted \/ ~Running(bs'[s]) THEN 0 ELSE @]

-----------------------------------------------------------------------------
(* The actions.                                                            *)

\* (bfd.c) bfd_vrf_enable: the daemon of s opens its listening sockets and
\* registers a read for each it got.  Where a routine called zlog_fatal the
\* process is gone, and its descriptors with it.
VrfEnable(s) ==
    /\ host[s].run = "off"
    /\ \E k \in KernelFaults[s] :
         LET sds == VrfSockets(k)
         IN  host' = [host EXCEPT ![s] =
                 IF \E r \in Listeners : sds[r] = Fatal THEN Closed("dead")
                 ELSE [@ EXCEPT !.run = "up", !.sd = sds,
                         !.ev = [i \in 0..6 |->
                                   IF sds[SocketRoles[i + 1]] # NoSock
                                   THEN SocketRoles[i + 1] ELSE NoEvent],
                         !.fds = Cardinality({r \in Listeners : sds[r] # NoSock})]]
    /\ UNCHANGED <<bs, wire, seen, link, spoke, idle, lost, commands>>

\* (bfd.c) bfd_session_enable: the session gets its socket, or stays
\* without and is enabled again later.
SessionEnable(s) ==
    /\ host[s].run = "up" /\ ~Enabled(s)
    /\ \E k \in PeerFaults[s] :
         LET out == IF Roles \subseteq V4Roles
                    THEN bp_peer_socket(k, Cfg[s], host[s].srcPort, Busy[s])
                    ELSE bp_peer_socketv6(k, Cfg[s], host[s].srcPort, Busy[s])
         IN  host' = [host EXCEPT ![s].sock = out.sd,
                                  ![s].srcPort = out.srcPort,
                                  ![s].fds = IF out.open THEN @ + 1 ELSE @]
    /\ UNCHANGED <<bs, wire, seen, link, spoke, idle, lost, commands>>

\* (bfd.c) bfd_xmt_cb: the transmit timer of s fires.  The timer is started
\* when the session is enabled.
Transmit(s) ==
    /\ Enabled(s) /\ ~spoke[s]
    /\ XmtTimerExpired(s)
    /\ Carries(link)
    /\ spoke' = [spoke EXCEPT ![s] = TRUE]
    /\ UNCHANGED <<host, idle, lost, commands>>

\* A datagram is waiting in a listening socket of the daemon of s and the
\* read of the socket is registered.
Readable(s) ==
    /\ link[s] # <<>>
    /\ \E role \in Roles : Listening(s, role) /\ Armed(s, role)

\* The event loop takes event i of daemon h off its list, which empties the
\* event, and calls bfd_recv_cb with the descriptor of the socket the event
\* was for; the first thing bfd_recv_cb does is to register the next read.
\* The events of the daemon after that.
Fired(h, i) ==
    bfd_sd_reschedule([sd |-> h.sd, ev |-> [h.ev EXCEPT ![i] = NoEvent]],
                      h.sd[h.ev[i]])

\* bfd_recv_cb on a control socket of the daemon of s: it reads the next
\* datagram, to accept it or to drop it.  bfd_recvtimer_update is reached by
\* an accepted packet only.
Deliver(s, role) ==
    /\ link[s] # <<>> /\ Listening(s, role)
    /\ \E i \in DOMAIN host[s].ev :
         /\ host[s].ev[i] = role
         /\ host' = [host EXCEPT ![s].ev = Fired(host[s], i)]
    /\ bfd_recv_cb(role, Received(s, host[s].sd[role], Head(link[s])))
    /\ Carries([link EXCEPT ![s] = Tail(@)])
    /\ Timer(s, seen'.class = "accepted")
    /\ UNCHANGED <<spoke, lost, commands>>

\* The link loses the datagram that would be delivered next.
Lose(s) ==
    /\ link[s] # <<>>
    /\ lost < MaxLoss
    /\ lost' = lost + 1
    /\ link' = [link EXCEPT ![s] = Tail(@)]
    /\ UNCHANGED <<bs, wire, seen, host, spoke, idle, commands>>

\* The kernel of a daemon without a socket for the link drops what arrives.
Unreachable(s) ==
    /\ link[s] # <<>>
    /\ \A role \in Roles : ~Listening(s, role)
    /\ link' = [link EXCEPT ![s] = Tail(@)]
    /\ UNCHANGED <<bs, wire, seen, host, spoke, idle, lost, commands>>

\* A transmit interval ends: every transmit timer that runs has fired and
\* nothing is under way.
Tick ==
    /\ \A s \in Sessions :
         /\ spoke[s] \/ bs[s].ses_state = "ADM_DOWN" \/ ~Enabled(s)
         /\ link[s] = <<>>
    /\ spoke' = [s \in Sessions |-> FALSE]
    /\ idle' = [s \in Sessions |->
                 IF Running(bs[s]) /\ idle[s] < Patience
                 THEN idle[s] + 1 ELSE idle[s]]
    /\ UNCHANGED <<bs, wire, seen, host, link, lost, commands>>

\* (bfd.c) bfd_recvtimer_cb: the detection time of s passed.
Timeout(s) ==
    /\ idle[s] = Patience
    /\ DetectTimerExpired(s)
    /\ Carries(link)
    /\ Timer(s, TRUE)
    /\ UNCHANGED <<host, spoke, lost, commands>>

\* (bfd.c) The operator: shutdown, no shutdown, new timers, at any moment,
\* also with datagrams under way and during a poll.
Operate(s) ==
    /\ s \in Operated /\ Enabled(s)
    /\ commands < MaxCommands
    /\ commands' = commands + 1
    /\ Shutdown(s) \/ NoShutdown(s) \/ SetTimers(s)
    /\ Carries(link)
    /\ Timer(s, FALSE)
    /\ UNCHANGED <<host, spoke, lost>>

LinkInit ==
    /\ Init
    /\ host = [s \in Sessions |-> Closed("off")]
    /\ link = [s \in Sessions |-> <<>>]
    /\ spoke = [s \in Sessions |-> FALSE]
    /\ idle = [s \in Sessions |-> 0]
    /\ lost = 0
    /\ commands = 0

LinkNext ==
    \/ \E s \in Sessions :
        \/ VrfEnable(s)
        \/ SessionEnable(s)
        \/ Transmit(s)
        \/ \E role \in Roles : Deliver(s, role)
        \/ Lose(s)
        \/ Unreachable(s)
        \/ Timeout(s)
        \/ Operate(s)
    \/ Tick

\* Time passes, and the event loop of bfdd runs every timer that is due and
\* reads every socket that is readable; a daemon that started opens its
\* sockets, and a session without a socket is enabled again.  The link and
\* the operator owe nothing.  The fairness of reading is weak fairness of
\* Deliver(s), with Readable(s) written for ENABLED <<Deliver(s)>>_lvars.
Fairness ==
    /\ WF_lvars(Tick)
    /\ \A s \in Sessions :
         /\ WF_lvars(VrfEnable(s))
         /\ WF_lvars(SessionEnable(s))
         /\ WF_lvars(Unreachable(s))
         /\ WF_lvars(Transmit(s))
         /\ WF_lvars(Timeout(s))
         /\ \/ []<>~Readable(s)
            \/ []<><<\E role \in Roles : Deliver(s, role)>>_lvars

LinkSpec == LinkInit /\ [][LinkNext]_lvars /\ Fairness

-----------------------------------------------------------------------------
(* Properties.                                                             *)

\* The type invariant: the link never holds more than LinkCap datagrams in
\* one direction, although a received packet may be answered with two, and
\* every datagram under way is one bfd_recv_cb of its receiver finds a
\* session for.
LinkTypeOK ==
    /\ spoke \in [Sessions -> BOOLEAN]
    /\ idle \in [Sessions -> 0..Patience]
    /\ lost \in 0..MaxLoss
    /\ commands \in 0..MaxCommands
    /\ \A s \in Sessions :
         /\ host[s].run \in {"off", "up", "dead"}
         /\ host[s].srcPort \in BFD_SRCPORTINIT..BFD_SRCPORTMAX
         /\ Len(link[s]) <= LinkCap
         /\ \A i \in DOMAIN link[s] :
              /\ link[s][i].src = Cfg[s].peer
              /\ link[s][i].cp.my_discr = Cfg[Peer[s]].my_discr
              /\ link[s][i].cp.remote_discr \in {0, Cfg[s].my_discr}

\* No listening socket is left unmonitored and none is read twice: in every
\* state between two steps of a daemon each listening socket it opened has
\* one read registered and a socket it did not get has none, whatever
\* bfd_recv_cb did with what it read; and whichever of its events fires
\* next, on a control socket, an echo socket or the socket of the reflector,
\* bfd_sd_reschedule registers the next read of that socket in that event
\* and leaves the others alone.  Its seven branches are copies of each other
\* that differ in a field and an index.
NoSocketUnmonitored ==
    \A s \in Sessions :
        /\ \A r \in Listeners :
              Cardinality({i \in DOMAIN host[s].ev : host[s].ev[i] = r})
                  = IF Listening(s, r) THEN 1 ELSE 0
        /\ \A i \in DOMAIN host[s].ev :
              host[s].ev[i] # NoEvent => Fired(host[s], i) = host[s].ev

\* No descriptor leaks: a daemon holds exactly the descriptors of the
\* listening sockets and of the session socket it uses, also after
\* bp_peer_socket or bp_peer_socketv6 failed between socket() and bind()
\* and was called again.
NoDescriptorLeak ==
    \A s \in Sessions :
        host[s].fds = Cardinality({r \in Listeners : Listening(s, r)})
                      + IF Enabled(s) THEN 1 ELSE 0

\* The search for a source port in bp_peer_socket and bp_peer_socketv6,
\* from every value the static srcPort can have and for every set of ports
\* that are taken: it fails exactly when every port of the range is taken;
\* the port it binds is in the range and free, and every port between where
\* the search started and that port, around the end of the range, is taken;
\* srcPort stays within BFD_SRCPORTINIT and BFD_SRCPORTMAX.  The socket of
\* a session is bound to a port of the range that was free.
PortSearchFindsFirstFree ==
    /\ \A s \in Sessions :
         Enabled(s) => host[s].sock.port \in SourcePorts \ Busy[s]
    /\ \A from \in BFD_SRCPORTINIT..BFD_SRCPORTMAX, busy \in SUBSET SourcePorts :
         LET found == BindInRange(0, from, busy)
             n     == BFD_SRCPORTMAX - BFD_SRCPORTINIT
             start == IF from = BFD_SRCPORTMAX THEN BFD_SRCPORTINIT ELSE from
             Nth(j) == BFD_SRCPORTINIT + ((start - BFD_SRCPORTINIT + j) % n)
         IN  /\ found.srcPort \in BFD_SRCPORTINIT..BFD_SRCPORTMAX
             /\ found.port = 0 <=> busy = SourcePorts
             /\ found.port # 0 =>
                  \E j \in 0..n-1 :
                     /\ found.port = Nth(j) /\ found.port \notin busy
                     /\ \A i \in 0..j-1 : Nth(i) \in busy

\* bfdd implements the handshake of RFC 5880 6.2: through the validation of
\* bfd_recv_cb, the lookup by discriminator and the packets ptm_bfd_snd
\* builds, every step of the two daemons is a step of BfdHandshake.
ImplementsHandshake == Handshake!Spec

BothUp       == \A s \in Sessions : bs[s].ses_state = "UP"
AnyAdminDown == \E s \in Sessions : bs[s].ses_state = "ADM_DOWN"

\* What session s holds of its peer is what the peer uses: its own
\* configured timers are in use, the timers and the multiplier it stored of
\* the peer are the peer's, and its detection time is the peer's multiplier
\* times the interval the two agreed on (RFC 5880 6.8.4).
InStep(s) ==
    LET b  == bs[s]
        p  == bs[Peer[s]]
        rx == b.cur_timers.required_min_rx
        tx == p.cur_timers.desired_min_tx
    IN  /\ b.cur_timers = b.timers
        /\ b.remote_timers = p.cur_timers
        /\ b.detect_TO = Cfg[Peer[s]].detect_mult * (IF rx > tx THEN rx ELSE tx)

\* The two daemons end up in step: whatever was lost, whenever the operator
\* changed the timers (also during a poll, when the Final of the poll before
\* ends the new one and the peer has heard of the old timers only) and
\* whichever detection time a step that answered a Poll left behind, from
\* some moment on two sessions that are up hold of each other what the other
\* uses.  The values are computed in different daemons, by bfd_recv_cb of
\* one from what ptm_bfd_snd of the other announced.
TimersSettle ==
    <>[](BothUp => \A s \in Sessions : InStep(s))

\* Unless an operator keeps a session shut down or a daemon is left without
\* a socket for the link, the two sessions come up and stay up once the link
\* has stopped losing: no order of timers, late packets and packets refused by bfd_recv_cb ("'remote
\* discriminator' is zero, not overridden") keeps the sessions down or
\* flapping for ever, and the options bp_set_ipv6opts and bp_peer_socketv6
\* set are those the validation of bfd_recv_cb needs: the hop limit 255 of
\* what is sent, the hop limit and the interface of what is received.
SessionsComeUp ==
    <>[]BothUp \/ []<>AnyAdminDown \/ <>[](\E s \in Sessions : ~Ready(s))

\* A poll sequence ends (RFC 5880 6.5): a session that polls hears the
\* Final that bfd_recv_cb of its peer sends for the Poll, or goes down, or
\* an operator has shut one of the two down.
PollEnds ==
    \A s \in Sessions : bs[s].polling ~> (~bs[s].polling \/ AnyAdminDown)

=============================================================================
