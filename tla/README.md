# TLA+ models of the BFD packet engine and the EIGRP interface code

This directory holds the formal models kept beside three source files of the
repository:

| source | lines | what it is |
|---|---|---|
| `src/bfdd/bfd_packet.c` | 2577 | the BFD/SBFD packet engine of bfdd: sockets, receive dispatch, validation, transmit, echo, SBFD reflector and initiator, SRv6 encapsulation, checksums |
| `src/eigrpd/eigrp_interface.c` | 502 | the life cycle of an interface of eigrpd |
| `src/lib/nexthop.h` | 309 | declarations of the nexthop library |

The models are written in TLA+ and checked with TLC.  `PROJECT.json` lists,
under `map`, every definition that models code with the lines it was
translated from; under `runs`, the TLC configurations and what each checks;
under `mutants`, for every property a faulty variant of a definition that TLC
must catch with it; under `hazards`, what is hard to test in this code and
which property watches it; under `findings`, where the code and what is said
of it disagree.

Code that these files call but that lives elsewhere in the repository (`bfd.c`
for bfdd; `eigrp_packet.c`, `eigrp_hello.c`, `eigrp_network.c`, `lib/if.c` for
eigrpd) is modelled only as far as the files here depend on it, and is marked
`spec_modelled` in the map and `(bfd.c)`, `(eigrp_packet.c)`, ... in the
modules.

## 1. The system

### 1.1 bfdd's packet engine

bfdd is single threaded.  Every function runs to completion from the event
loop; nothing interleaves inside a handler.  What interleaves is the order of
events: datagrams on seven sockets, timer expiries, operator commands, and the
outcomes of system calls (`sendto`, `recvmsg`, `ioctl(SIOCGARP)`).  The network
may lose, duplicate, reorder and forge datagrams.

| part | functions (lines) | state | module |
|---|---|---|---|
| Receive dispatch and validation | `bfd_recv_cb` 847-1113, `bfd_recv_ipv4` 556-664, `bfd_recv_ipv6` 666-741, `bfd_check_auth` 816-845 | none until the session is found | `BfdControl` |
| Session update | `bfd_recv_cb` 994-1112, `bfd_peer_mac_set` 1816-1851 | `local_address`, `peer_hw_addr`, `ifp`, `remote_discr`, remote timers and multiplier, `polling`, `cur_timers`, `detect_TO`, `xmt_TO`, `stats.rx_ctrl_pkt` | `BfdControl` |
| Control transmit | `ptm_bfd_snd` 416-472, `_ptm_bfd_send` 90-148 | `stats.tx_ctrl_pkt` | `BfdControl` |
| Echo transmit | `ptm_bfd_echo_fp_snd` 207-289, `ptm_bfd_echo_snd` 292-348, `ptm_sbfd_echo_snd` 2011-2025 | `ECHO_ACTIVE`, `stats.tx_echo_pkt` | `BfdEcho` |
| Echo receive | `bp_bfd_echo_in` 1122-1193, `bfd_recv_ipv4_fp` 478-553, `ptm_bfd_process_echo_pkt` 350-414 | the RTT ring, `stats.rx_echo_pkt`, the echo timers | `BfdEcho` |
| SBFD initiator | `ptm_sbfd_initiator_snd` 1964-2010, `_ptm_sbfd_init_send` 1854-1908 | `stats.tx_fail_pkt`, `stats.tx_ctrl_pkt` | `Sbfd` |
| SBFD reflector | `ptm_bfd_reflector_process_init_packet` 2027-2077 | none | `Sbfd` |
| Control packet layout | the stores of 1966-2004, the loads of 926-956, the rewrite of 2054-2065, the macros of `bfd.h` | none | `BfdCodec` |
| SRv6 encapsulation | `bp_sbfd_encap_...` 2357-2451, `bp_raw_sbfd_red_send` 2470-2574 | a static send buffer | `Srv6Encap` |
| UDP checksums | `checksum` 2154-2181, `udp6_checksum` 2183-2258, `udp4_checksum` 2261-2332 | none | `Srv6Encap` |
| Socket setup | `bp_set_...` 1318-1431, 1599-1671, `bp_udp_shop`, `bp_udp_mhop` 1433-1464, `bp_peer_socket`, `bp_peer_socketv6` 1466-1597, `bp_udp6_shop`, `bp_udp6_mhop` 1673-1717, `bp_echo_socket`, `bp_echov6_socket` 1719-1811, `bp_peer_srh_socketv6`, `bp_initv6_socket` 2079-2149, `bp_sbfd_socket` 2335-2353 | descriptors, the options of each socket, the static `srcPort` | `BfdSocket`, hosted by `BfdLink`, `Sbfd` and `BfdEcho` |
| Read scheduling | `bfd_sd_reschedule` 743-774, called at 863 | `bg_ev[0..6]` | `BfdSocket`, `BfdLink` |

### 1.2 eigrpd's interfaces

eigrpd is single threaded as well.  zebra tells it of interfaces through five
hooks (`eigrp_if_init`, lines 213-222): announced (`eigrp_ifp_create`), up
(`eigrp_ifp_up`), down (`eigrp_ifp_down`), withdrawn (`eigrp_ifp_destroy`) and
deleted (`eigrp_if_delete_hook`).  The network commands attach an
`eigrp_interface` to an interface (`eigrp_if_new`, `eigrp_if_up`) and take it
out of the protocol again (`eigrp_if_free`).  The state is `ifp->info`, the
hash `eigrp->eifs`, per interface the output queue `obuf`, the flag
`on_write_q`, the hello event, the neighbours and the multicast flag, and per
process the write queue `oi_write_q`, the write event `t_write` and the
topology table.

### 1.3 `nexthop.h`

Declarations, flag macros and one inline call of `jhash`.  Nothing in it
changes state; it is listed as not modelled.

## 2. Modules

| module | models | lines of source mapped |
|---|---|---|
| `BfdControl` | the control sockets: read, validation, session lookup and update, poll sequence, control transmit | `bfd_packet.c` 90-148, 416-472, 556-741, 776-1112, 1816-1851 |
| `BfdEcho` | echo transmit on both paths, SBFD echo transmit, the UDP checksum of the fast-path frame, echo receive on `bg_echo` and `bg_echov6`, the RTT ring, the forwarding plane that returns an echo | `bfd_packet.c` 167-193, 207-414, 478-553, 1122-1307, 1910-1962, 2011-2025 |
| `Sbfd` | extends `BfdControl`: the initiator's transmit routine, the reflector, and a network between the two daemons | `bfd_packet.c` 1854-1908, 1964-2010, 2027-2077 |
| `BfdCodec` | the control packet as the 24 bytes of `struct bfd_pkt`: the bit macros, the stores of the initiator's transmit routine, the loads of a receiver, the reflector's rewrite in place | `bfd_packet.c` 926-956, 1966-2004, 2054-2065 |
| `Srv6Encap` | the packet `bp_raw_sbfd_red_send` builds, header by header, and the checksums as operators over bytes | `bfd_packet.c` 2154-2332, 2357-2451, 2470-2574, and the calls at 1868-1882 and 1924-1936 |
| `EigrpInterface` | the interface life cycle of eigrpd | `eigrp_interface.c` 58-209, 235-456 |
| `BfdSocket` | the socket routines as operators over a socket and a kernel that refuses calls; the search for a source port; `bfd_sd_reschedule` | `bfd_packet.c` 743-774, 1318-1811, 2079-2149, 2335-2353 |
| `BfdLink` | extends `BfdControl` and `BfdSocket`: two daemons, each with its sockets and one session, a link between them, the timers of `bfd.c` as transmit intervals, an operator | `bfd_packet.c` 100-140, 847-863, 1094-1095 and what `BfdControl` maps |
| `BfdHandshake` | the abstract specification `BfdLink` implements: the state diagram of RFC 5880 6.2 over a link that keeps order and may lose | none (a specification, not code) |
| `MCBfdControl`, `MCBfdLink`, `MCBfdEcho`, `MCSbfd`, `MCSrv6Encap`, `MCEigrpInterface` | the finite instances: interfaces, sessions, arrivals, payloads, kernel faults | |

Four modules compose.  `BfdLink` joins two instances of the control path:
what `ptm_bfd_snd` of one daemon hands to `sendto()` is what `bfd_recv_cb` of
the other reads.  `Sbfd` takes `bfd_recv_cb` from `BfdControl` unchanged as the
initiator's receive path and adds the reflector and the network.  `BfdEcho`
composes two daemons and the forwarding plane of each node in one module.
`BfdLink` and `Sbfd` host the socket layer: the sockets a daemon opened decide
what it reads and sends.  `Sbfd` instantiates `BfdCodec` and holds every
datagram of its network against the bytes it stands for.

### 2.1 `BfdControl`

| model | code |
|---|---|
| `bs[s]` | the fields of `struct bfd_session` that `bfd_recv_cb` and `ptm_bfd_snd` read or write |
| `bs[s].peer_hw_addr` | `peer_hw_addr` with `BFD_SESS_FLAG_MAC_SET`: the interface the MAC was resolved on, `NoIf` while the flag is clear |
| `wire` | the packets the last step handed to `sendto()` with success |
| `seen` | history: verdict, TTL, whether Your Discriminator was set and Poll of what the last step read |
| `Cfg[s]` | the session key and configuration |
| `Arrivals` | what `recvmsg()` may return: a datagram (length, TTL, packet-info, source) and the packet in it |

`RecvControl(role)` is the whole of `bfd_recv_cb` on the socket `role`: read,
the header checks in the order of the code (`HeaderChecks`), lookup, the
session checks (`SessionChecks`), the fields learned, the authentication check,
the state machine (`bfd.c`), the poll sequence and the Final.  The first failing
rule decides.  `XmtTimerExpired`, `DetectTimerExpired`, `SetTimers`,
`Shutdown` and `NoShutdown` are the callers of `ptm_bfd_snd` in `bfd.c`.  The
results of `sendto()` and of the ARP lookup are chosen freely.  A receive step
takes any member of `Arrivals` at any time, which is loss, duplication,
reordering and forgery at once.

Left out of the session record because no property tells them apart:
`remote_diag`, `remote_cbit`, `required_min_echo`.  `cp_debug` is the verdict
of a drop.

`bfd_recv_cb` is built from operators, one per stretch of the function, in the
order of the code: `HeaderChecks` and `SessionChecks` (the first failing rule
decides), `LearnLocal` and `LearnFromPacket` (the stores before the
authentication check), `Dispatch`, and for a session in mode BFD
`GenericReceive`: `bs_state_handler`, then `EndPoll` (a Final ends the poll),
the detection time, then `AnswerPoll` (a Poll is answered with a Final).

`bs_final_handler` is code of `bfd.c`.  The model has of it what this file
shows: the branch of the SBFD initiator does the same by hand (lines
1059-1061) and brings the configured timers into use, no more.  The handler
of the model sets `cur_timers` and leaves the two timeouts as `bfd_recv_cb`
computed them; what follows from the order of lines 1087 and 1108 is in
section 7.  A session bound to no VRF has `Cfg[s].vrf = NoVrf`, the null
pointer the rule of line 968 looks at first.

### 2.2 `BfdLink` and `BfdHandshake`

| model | code |
|---|---|
| `host[s].run` | the process of the daemon that holds session `s`: `off` before `bfd_vrf_enable`, `up`, or `dead` after `zlog_fatal` |
| `host[s].sd[role]` | `bvrf->bg_shop` ... `bvrf->bg_initv6`: a socket or `NoSock` (-1) |
| `host[s].ev[i]` | `bvrf->bg_ev[i]`, `i` in 0..6: the socket whose read it holds, or `NoEvent` |
| `host[s].sock`, `host[s].srcPort`, `host[s].fds` | `bs->sock`, the static `srcPort` of `bp_peer_socketv6`, the number of descriptors the process holds |
| `link[s]` | the datagrams on their way to the daemon of `s`, oldest first: TTL, source, packet |
| `spoke[s]`, `idle[s]` | the transmit timer of `s` fired in this interval; the intervals that ended since the detection timer was started |
| `lost`, `commands` | the datagrams the link lost and the commands the operator gave so far |

`VrfEnable(s)` opens the seven listening sockets with the routines of
`BfdSocket` under one of the kernel faults of the instance and registers a
read for each socket it got; a routine that called `zlog_fatal` leaves the
daemon dead.  `SessionEnable(s)` is `bp_peer_socket` or `bp_peer_socketv6`,
by the family of the link; it may fail and is called again.  `Transmit(s)` is
the transmit timer, `Deliver(s, role)` the read event of a control socket:
the event is consumed (`Fired`: the pointer of a read that fired is null when
its callback runs), `bfd_sd_reschedule` registers the next, `bfd_recv_cb`
reads the head of the link as the socket hands it over (`Received`: the hop
limit and the packet-info only if the socket asked for them).  `Lose(s)` is
the link, `Unreachable(s)` the kernel of a daemon that has no socket for the
link, `Timeout(s)` the detection timer, `Operate(s)` the operator
(`shutdown`, `no shutdown`, new timers) at any moment, packets under way or
not, `Tick` the end of a transmit interval.  A session without a socket is in the session table all the same:
it reads and changes state, and what it sends fails in `sendto()`.

Time is abstracted to what the timers make of it: in every interval the
transmit timer of each running session fires once, in any order with the
other's, and every datagram has arrived or is lost before the interval ends;
the detection timer expires `Patience` intervals after the last accepted
packet.  One assumption comes with it and is part of what the run shows:
the detection time is longer than the transmit interval of the peer.  The
operator is bounded in the number of commands (`MaxCommands`), not in when
they are given.

`BfdHandshake` says what two sessions promise whatever the implementation
does with discriminators, timers and polls: a session changes state only as
the diagram of RFC 5880 6.2 allows for a packet on its way to it, by a
timeout or by its operator, and what it sends announces the state it is in
after the step.  `BfdLink` instantiates it with `st[s] = bs[s].ses_state` and
`chan[s]` the states announced by the datagrams of `link[s]`; the property
`ImplementsHandshake` is `Handshake!Spec`.  `VrfEnable`, `SessionEnable`
and `Tick` are stuttering steps of the handshake, a packet that is refused
is a `Hear` that leaves the state, `Unreachable` is its `Lose`.

### 2.3 `BfdSocket`

A socket is a record of what the kernel knows of it: family, type, device,
port, and the set of options set on it.  Every routine takes the kernel as a
parameter `k`, the set of calls it refuses (`"socket"`, `"bind"`,
`"EAFNOSUPPORT"` or the name of an option), and yields the socket, `NoSock`
where the code returns -1, or `Fatal` where it calls `zlog_fatal`.  The
routines keep the names and the call structure of the code
(`bp_udp6_shop` calls `bp_set_ipv6opts` and `bp_bind_ipv6`); the order of the
`setsockopt` calls inside one routine is not kept, because the outcome does
not depend on it: the first failure ends the routine the same way.
`BindInRange` is the `do ... while` loop of `bp_peer_socket`, with the set of
ports `bind()` fails for.  `bfd_sd_reschedule` is the chain of seven
`if ... else if` of the code as the table `Branches`, one row per branch with
the socket it compares and the index of `bg_ev` it cancels and registers on:
the first row whose socket is the one that was read decides, and two sockets
that are both -1 are the same descriptor to the comparison.  `Platform` chooses between the two
`bp_echo_socket` of the file and the packet-info options, `HasHdrIncl`
between the two bodies of `bp_peer_srh_socketv6`.  `SentTtl`, `HandsTtl` and
`HandsInfo` are the kernel: what an option does to the datagrams of a socket.

### 2.4 `BfdEcho`

`bs[s]` has the echo fields of the session, `net` the packets in flight,
`hist[s]` the samples a session took and the echoes it handed to the kernel
with success, `seen` the verdict of the last read.  A packet is a record of
what the receive path looks at: family, where it is, IP source and destination,
TTL, discriminator, received length, whether the IP header verifies, and the
UDP checksum.  A checksum is held as what it was summed over: source,
destination and length.  `bfd_pkt_checksum(pktsize, ip)` is the sum of the
code, whose pseudo-header names the one address it is given as source and as
destination; the sender of a fast-path frame and `bfd_recv_ipv4_fp` both call
it with the source of the IP header.  For an echo of bfdd, whose source and
destination are the one local address, that is the sum of RFC 768; a host
that sends from another address and sums over both sends a frame the
receiver refuses.
`msgbuf(p)` is the receive buffer, a local array that is never cleared: bytes a short frame did not fill hold
what an earlier frame left (`Residue`).  `EchoFpSend`, `EchoSend` and
`SbfdEchoSend` are the transmit routines, `RecvEcho(n, fam)` is `bp_bfd_echo_in`
with `ptm_bfd_process_echo_pkt`, `Forward(n)` the forwarding plane of a node,
`MacLearned` is `bfd_peer_mac_set` as the echo path sees it (the flag of a
session that had none, set when the ARP table has the peer and left clear
when it has not), `EchoStop` and `EchoDetectTimerExpired` the session code
outside the file.

`bg[n]` is the daemon of node `n`: whether it runs, and its sockets `bg_echo`
and `bg_echov6`.  `VrfEnable(n)` opens them with `bp_echo_socket` and
`bp_echov6_socket` of `BfdSocket` under the faults of the kernel of the node:
the daemon ends (`zlog_fatal`), or runs with both sockets, or without
`bg_echov6` (no IPv6), or without `bg_echo` (the filter or the bind failed).
A send on a socket that is not there fails, `ptm_bfd_echo_snd` returns before
it for an IPv6 session (line 313), and a socket that is not there is never
read.

`bg_echo` of a daemon with a fast path is a packet socket: it sees a copy of
every frame of the interface.  A read takes a packet out of `net` only when
it is addressed to the node (`Taken`); a frame on its way to the peer stays
under way after the daemon looked at it.  `seen.src` is the IP source of the
last packet read, which is how the liveness properties tell the echo of a
session from one a host forged with the same discriminator.

### 2.5 `Sbfd`

`net` holds the datagrams between initiator and reflector, at most `NetCap`
of them; a send may put nothing there, what is there is read in any order,
and the network loses up to `MaxLoss` datagrams (`Lose`, and an answer of the
reflector whose `sendto()` failed).  A failed send of the initiator is
counted in `fail[s]`, `stats.tx_fail_pkt`, which a send that succeeds sets
back to zero; at most `MaxFail` sends fail in a row.
`InitiatorSend` is `ptm_sbfd_initiator_snd`, `ReflectorReceive` the read
callback on `bg_initv6` with `ptm_bfd_reflector_process_init_packet`,
`InitiatorReceive` is `bfd_recv_cb` of `BfdControl` reading from `net`.
`InitArrivals` are packets of other initiators.  `ReflectorEnable` opens
`bg_initv6` (`bp_initv6_socket`), `SessionEnable` the raw socket of the
session (`bp_peer_srh_socketv6`); a session without a socket fails to send, a
reflector without one leaves what arrives to its kernel (`Unreachable`), and
the hop limit of an answer is the one `bp_set_ipv6opts` set on `bg_initv6`.

`Codec == INSTANCE BfdCodec` gives the bytes of a packet.  `Wire(p, diag)` is
`struct bfd_pkt` as `ptm_sbfd_initiator_snd` fills it, `Parsed(buf)` what
`bfd_recv_cb` and the reflector load from it, `Reflected(buf)` the rewrite of
lines 2055-2065 on the bytes: the two discriminators change places in network
order, Demand is cleared, the state becomes Up with `BFD_SETSTATE`, which
ors into the byte, and a Poll becomes a Final.  `Reflection` of `Sbfd` is the
same step on the record.

### 2.6 `BfdCodec`

No state: operators over sequences of bytes, with `&` and `|` of the
community module `Bitwise`.  `CHECK_FLAG`, `SET_FLAG`, `UNSET_FLAG`,
`BFD_SETVER`, `BFD_GETVER`, `BFD_GETDIAG`, `BFD_SETSTATE` and `BFD_GETSTATE`
are the macros of `lib/zebra.h` and `bfd.h`; `htonl` and `ntohl` give a
32-bit value its four bytes in network order and back.  The version shares
its byte with the diagnostic and the state its byte with six flags, so a
macro that shifts or masks wrongly changes a neighbour, and a setter that
ors into a byte that was not cleared leaves the old value in it.

### 2.7 `Srv6Encap`

A packet is the sequence of its headers, each a record of the fields the code
sets; a buffer handed to `checksum` is a sequence of bytes, and an address is
the bytes `AddrBytes` gives it (two per address in the instance, which keeps
the sums small and loses nothing: the sum is over 16-bit words whatever their
number).  `checksum` sums the words as a little-endian host reads them and
complements the folded sum, as the code does; the property compares with the
sum a receiver computes over the packet in network order.  `htons` swaps the
bytes of a port or length.  The state is the arguments of the last call and
the packet it built; `RawSend` is one call of `bp_raw_sbfd_red_send` for the
same session with another payload.

Not represented: the `hdrlen` of the routing header (a macro outside these
sources) and the IPv4 header checksum (`in_cksum` of `lib/`).

### 2.8 `EigrpInterface`

| model | code |
|---|---|
| `ifp[i]` | zebra's `struct interface`: `none` (no structure), `shell` (structure without a real interface), `down`, `up`; its MTU and bandwidth |
| `ei[i]` | `ifp->info`: `curr_mtu`, `curr_bandwidth`, `params.type`, `params.passive_interface`, whether `obuf` exists and how many packets it holds, `on_write_q`, `member_allrouters`, the number of neighbours; `NoEi` for NULL |
| `eifs` | `eigrp->eifs` |
| `t_hello` | the interfaces whose hello event is with the event loop |
| `oi_write_q`, `t_write` | `eigrp->oi_write_q`, `eigrp->t_write` |
| `topology[p]` | the route descriptors of prefix `p`, each with its interface and the three MTU bytes of its metric |

The routines of the file are operators from the daemon's state to the daemon's
state, named as in the code and composed as the code calls them
(`eigrp_ifp_up` calls `eigrp_if_reset` calls `eigrp_if_down` and
`eigrp_if_up`); an action is one hook, command or event.  `ZebraCreate`,
`ZebraUp`, `ZebraDown`, `ZebraDestroy` and `IfDelete` are zebra's events with
the order `lib/if.c` keeps (an interface is withdrawn before it is deleted);
`NetworkSet` and `NetworkUnset` the network commands; `HelloTimer`, `Write` and
`HelloReceived` the hello event, the write event and a neighbour learned;
`SetPassive` the passive-interface command, for an interface
`eigrp_if_lookup_by_name` finds.  A hello that arrives at a passive interface
is not counted as a neighbour: the interface leaves the group the hello was
sent to.  The result of joining the multicast group and the order in which
the hash is walked are chosen freely.

The descriptors of a prefix are a set: the list of the code gets one more
element with every `eigrp_if_up`, which the set does not count (section 7).

## 3. Runs

Twelve configurations.  A run that passes ends with the whole state space of
its instance explored; a run marked *violation* checks one property that TLC
finds violated by what the code does.

| run | module | result | states (distinct) | what it shows |
|---|---|---|---|---|
| `control_validation` | `MCBfdControl` | pass | 25,343 | a passive single-hop session with both control sockets open, against every rule broken alone, every odd datagram, other interfaces, VRFs and senders, and against all well-formed packets of its peer in any order, with timers, timer changes, shutdown and send failures: `TypeOK`, `EstablishedKnowsPeer`, `LearnedInterfaceInSessionVrf`, `PassiveNeverSpeaksFirst`, `EstablishedNotOverridden`, `RefusedKeepsNegotiation`, `SentIsCounted`, `FinalAnswersPoll`, `DetectTimeFollowsPacket` |
| `gtsm_bypass` | `MCBfdControl` | violation | | `SingleHopNeedsTtl255` |
| `link_handshake` | `MCBfdLink` | pass | 117,686 | two daemons that open their sockets under kernel faults and run one IPv6 single-hop session each over a link that loses up to two datagrams, with an operator on one side who gives two commands at any moment: `LinkTypeOK`, `NoSocketUnmonitored`, `NoDescriptorLeak`, `PortSearchFindsFirstFree`, and under fairness `ImplementsHandshake`, `SessionsComeUp`, `PollEnds`, `TimersSettle` |
| `mac_interface` | `MCBfdControl` | violation | | `MacOnBoundInterface` |
| `echo_fastpath` | `MCBfdEcho` | pass | 100,300 | an IPv4 session with a fast path on a daemon that may be left without `bg_echo`, sends that succeed or fail, returning, forged and damaged frames, frames with a checksum over the real destination: `TypeOK`, `RingHoldsLatestSamples`, `EchoCounterCountsPackets`, and under fairness `FastPathEchoComesHome` |
| `echo_v6` | `MCBfdEcho` | pass | 45,248 | two daemons that open `bg_echov6` or are left without, a BFD session, an SBFD echo session and a host that injects echoes: `EchoReflectedOnce`, `SbfdEchoUpMeansSent`, and under fairness `SbfdEchoComesUp` |
| `echo_short_frame` | `MCBfdEcho` | violation | | `CountedEchoWasReceivedInFull` |
| `sbfd_link` | `MCSbfd` | pass | 36,927 | an initiator and a reflector that open their sockets under kernel faults, a network that reorders and loses, other initiators, timer changes and detection timeouts at any moment: `SbfdTypeOK`, `DetectTimeAgreed`, `WireFormatAgrees`, `ReflectionIsAccepted`, `PollEndsOnAnswerToPoll`, and under fairness `InitiatorComesUp` |
| `srv6_encap` | `MCSrv6Encap` | pass | 34,560 | every packet built for both families, all addresses and all segment lists of up to three segments: `TypeOK`, `SegmentsVisitedInOrder`, `UdpChecksumVerifies`, `HeadersDescribePacketExceptIpv4Srh` |
| `srv6_ipv4_srh` | `MCSrv6Encap` | violation | | `HeadersDescribePacket` |
| `srv6_zero_checksum` | `MCSrv6Encap` | violation | | `Udp6ChecksumNeverZero` |
| `eigrp_lifecycle` | `MCEigrpInterface` | pass | 255,688 | two interfaces under every order of zebra's events, network commands, hello and write events and neighbours: `TypeOK`, `NoDanglingInterface`, `WriteQueueConsistent`, `QuietUnlessUp`, `RunningTracksLink` |

## 4. Properties

bfdd, control path:

* `EstablishedKnowsPeer`: a session in INIT or UP has a remote discriminator.
* `EstablishedNotOverridden` (action property): a datagram with Your
  Discriminator zero leaves a session in INIT or UP as it was.
* `RefusedKeepsNegotiation` (action property): a datagram that is refused, by
  the header checks, by the lookup or by `bfd_check_auth`, is answered with
  nothing and leaves the state, the poll, the peer's timers and multiplier,
  the agreed timers and both timeouts of every session as they were.  The
  code stores an address, the MAC, the interface and the remote discriminator
  before the authentication check (lines 996-1020) and the peer's timers
  after it (lines 1033-1037); the property is about the place of that check.
* `PassiveNeverSpeaksFirst`: every packet of a passive session names a peer.
* `LearnedInterfaceInSessionVrf`: an interface a session bound to a VRF
  learned from a datagram is of that VRF.
* `SentIsCounted` (action property): in every step `stats.tx_ctrl_pkt` of a
  session grows by the packets of the session that reached the wire in that
  step: none when `sendto()` failed, two when the state machine and the
  Final both sent.  It fails when the counter is raised before the result of
  `_ptm_bfd_send` is looked at (line 468).
* `FinalAnswersPoll`: a Final is sent only by the step that accepted a Poll.
* `DetectTimeFollowsPacket` (action property): an accepted packet without a
  Poll leaves the session with the detection time of RFC 5880 6.8.4, the
  multiplier the packet announced times the greater of the receive interval
  in use and the transmit interval the packet announced; the receive interval
  is the one a Final of the same packet brought into use.  It fails when the
  detection time is computed before the Final is looked at.  A packet with a
  Poll is left out: see section 7.
* `DetectTimeAgreed` (`sbfd_link`): an SBFD initiator that is up has the
  detection time its branch of `bfd_recv_cb` computes (line 1062), the local
  multiplier times the transmit interval.

bfdd, two daemons on a link:

* `ImplementsHandshake` (refinement): every step of the two daemons is a step
  of `BfdHandshake`.  It fails when a packet announces another state than the
  one its sender is left in, for instance when a Poll is answered before the
  state machine ran.
* `SessionsComeUp` (liveness): unless an operator keeps a session shut down
  or a daemon is left without a socket for the link, the two sessions come up
  and stay up once the link has stopped losing.  It needs the packets refused
  as "not overridden" to be outlived by the detection timer, and the options
  of the sockets to be those the validation asks for.
* `PollEnds` (liveness): a session that polls stops polling, or goes down, or
  one of the two is shut down.
* `TimersSettle` (liveness): from some moment on, whenever both sessions are
  up each has its configured timers in use, knows the timers its peer has in
  use, and has the detection time of the two.  The operator changes the
  timers at any moment, a second time while the Final of the first poll is
  under way included; the two ends then disagree for a while (section 7) and
  the property says that this ends.  It fails when the end of a poll does not
  bring the timers into use.
* `NoSocketUnmonitored`: between two steps of a daemon every listening socket
  it opened has exactly one read registered, a socket it did not get has
  none, and the read of every registered event, were it to fire now, would
  be registered again in the same place by `bfd_sd_reschedule`.  The second
  part goes through all seven branches, of which a session on one link reads
  two; it fails for a branch that registers on the index of another.
* `NoDescriptorLeak`: a daemon holds exactly the descriptors of the sockets it
  uses, also after a session socket failed half way and was opened again.
* `PortSearchFindsFirstFree`: for every start of the search and every set of
  ports taken, `BindInRange` fails exactly when the range is full and else
  binds the first free port after the start, around the end of the range.

bfdd, echo:

* `RingHoldsLatestSamples`: the RTT ring holds the last `BFD_RTT_SAMPLE`
  samples the session took, at the places the index says.
* `EchoCounterCountsPackets`: `stats.tx_echo_pkt` is the number of echoes
  handed to the kernel with success.
* `EchoReflectedOnce`: no datagram is bounced between two daemons more than
  once.
* `SbfdEchoUpMeansSent`: an SBFD echo session is up only after a send that
  succeeded.
* `FastPathEchoComesHome` (liveness): while a fast-path echo of an IPv4
  session is on its way back, the daemon that sent it counts an echo that
  carries its own address as source, unless the session stops echoing or
  its counter is at the bound.  The frame leaves with
  TTL `BFD_TTL_VAL`, is returned by the peer's forwarding plane with one
  less, and has to pass `bfd_recv_ipv4_fp`: the TTL of line 525 and the
  checksum the sender computed, both on a frame the sender never sees again
  until then.
* `SbfdEchoComesUp` (liveness): while an echo of an SBFD echo session is on
  its way back, the session comes up (`sbfd_echo_state_handler`, line 394),
  unless it stops echoing, its counter is at the bound, or the daemon has no
  `bg_echov6`.

bfdd, SBFD and SRv6:

* `ReflectionIsAccepted` (action property): the reflector's answer to a packet
  of an initiator passes every check of `bfd_recv_cb` and is found to belong
  to the session that asked.
* `PollEndsOnAnswerToPoll` (action property): a poll ends only in a step that
  read the reflector's answer to a Poll of the session.
* `WireFormatAgrees`: for every datagram under way between initiator and
  reflector, the bytes the sender stores parse back to the record, the
  diagnostic survives beside the version, and what the reflector makes of the
  bytes in place parses to what `Reflection` makes of the record.
* `InitiatorComesUp` (liveness): an SBFD initiator is up again and again,
  whenever the detection timer brought it down, unless the kernel never
  opens the socket of the session or the reflector is left without
  `bg_initv6`.  What `ptm_sbfd_initiator_snd` builds has to pass the three
  early returns of the reflector, and the answer every check of
  `bfd_recv_cb`.
* `SegmentsVisitedInOrder`: following the destination of the outer header and
  then the routing header as a segment endpoint does visits the segment list
  in order and ends at its last segment.
* `UdpChecksumVerifies`: the one's-complement sum a receiver computes over
  pseudo-header, UDP header and payload in network order is `0xFFFF`, for even
  and odd payloads and sums that carry twice.
* `HeadersDescribePacketExceptIpv4Srh`: every length and next-header field
  describes what follows it, for all packets but an inner IPv4 packet behind a
  routing header (the finding of `srv6_ipv4_srh`).

eigrpd:

* `NoDanglingInterface`: the hash, the hello events, the write queue and the
  route descriptors point to no `eigrp_interface` that was freed.
* `WriteQueueConsistent`: an interface is on the write queue, once, exactly if
  `on_write_q` is set; it then has a packet in `obuf`; the write event is with
  the event loop exactly if the queue is not empty.
* `QuietUnlessUp`: an `eigrp_interface` whose interface is not up has no hello
  event, no neighbours and no place on the write queue.
* `RunningTracksLink`: an interface that says hello has `curr_mtu` and
  `curr_bandwidth` of its link and a route descriptor of its own at its prefix
  with the low 24 bits of the link's MTU.

Each module has one type invariant (`TypeOK`, `SbfdTypeOK`, `LinkTypeOK`), which also bounds
what a width in the code bounds (a multiplier that is never zero, MTU bytes
that are bytes).

## 5. Bounds

| bound | runs | why it is enough |
|---|---|---|
| one session per daemon | control, link, SBFD | the code modelled reaches the session table through one lookup; a second session adds no step |
| `MaxRx = 3`, `MaxTx = 2` | `control_validation` | `stats.rx_ctrl_pkt` and `stats.tx_ctrl_pkt` bound the run: three accepted packets bring the session to INIT and to UP and then end its poll or ask it for a Final, with any number of refused datagrams and timer events between them; two packets sent are the one of the state machine and the Final of one step; a failed send is not counted and so is never bounded.  `sbfd_link` has `MaxRx = 4`, `MaxTx = 8` with counters that do not count (`CounterMod = 1`) |
| timers 1 to 5 | control, SBFD | only their order enters the detection time |
| `Arrivals`: 32 well-formed packets of the peer, 6 of a peer that changed, 16 that break one rule each, 22 odd datagrams | `control_validation` | every rule of the validation is broken alone, before and after the session is known |
| `CounterMod = 1` | `sbfd_link` | as in `link_handshake`: the counters of packets do not enter what is checked, and the behaviours are infinite |
| `NetCap = 2`, `MaxLoss = 2`, `MaxFail = 2` | `sbfd_link` | two datagrams under way are an answer and the one that overtakes it, or the answer to an older packet and a Poll; two losses lose a packet and its answer; two failures in a row are all `_ptm_sbfd_init_send` tells apart (it logs while the count is at most one).  With `NetCap = 3` and `MaxLoss = 1` the run passes with 165,151 states |
| `CounterMod = 1`, `SendtoResults = {TRUE}` | `link_handshake` | the statistics counters do not enter the handshake; without them the behaviours are infinite, which liveness needs; a send that fails is a datagram lost, which the link does |
| `LinkCap = 5` | `link_handshake` | not a guard but a result: `LinkTypeOK` says no direction ever holds more than five datagrams |
| `MaxLoss = 2` | `link_handshake` | two losses lose the Poll and the Final of one sequence, or the same packet twice; the link stops losing, which is what the liveness properties assume of it |
| `Patience = 3` | `link_handshake` | the detection timer expires after three silent intervals (detect multiplier 3 with equal timers) |
| `Operated = {"a"}`, `MaxCommands = 2` | `link_handshake` | the two sessions differ in their multiplier only, so one operator is enough; two commands are a change of the timers and a second one while the poll of the first goes on, or a shutdown and its end, given with packets under way or not.  With `MaxCommands = 3` the instance has 259,705 states |
| kernel faults: `IPV6_V6ONLY` refused (daemon of `a`), no IPv6 or the echo filter refused (daemon of `b`), `IPV6_TCLASS` refused for the session socket of `a` | `link_handshake` | one fault for each outcome of the set-up: `zlog_fatal`, a listening socket that is absent, the echo socket of Linux that is given up, a session socket that fails after `socket()` |
| source ports 1 to 3 (`BFD_SRCPORTINIT = 1`, `BFD_SRCPORTMAX = 4`), port 1 taken at `b` | `link_handshake` | the search is checked for every start and every set of taken ports of the range; three ports have a first, a last and one between |
| kernel faults: the filter of `bg_echo` refused or no socket at all (`echo_fastpath`, node `a`), no IPv6 (`echo_v6`, both nodes) | echo | a daemon without `bg_echo`, a daemon that ended, and daemons without `bg_echov6` on either side of the echo |
| kernel faults: no IPv6 or `IPV6_PKTINFO` refused (reflector), `IPV6_HDRINCL` refused (initiator) | `sbfd_link` | a reflector without `bg_initv6`, a reflector that ended, an initiator that has to open its socket twice |
| `BFD_RTT_SAMPLE = 3`, `MaxSamples = 5` | `echo_fastpath` | five samples wrap a ring of three; the code's ring of eight wraps the same way |
| `MaxReflect = 3`, `MaxEcho`, `MaxRx` | echo | a datagram bounced twice would show with room for three; the liveness properties excuse a session whose `stats.rx_echo_pkt` is at `MaxRx`, where the model reads no further echo of it |
| `Diags = {0, 8}` | `sbfd_link` | the diagnostic shares its byte with the version: no bit of it set, and the greatest diagnostic `bfd.h` defines |
| three addresses of two bytes, segment lists of 0 to 3 segments | SRv6 | zero, one and more than one segment are the three branches of the builders; three segments put two in the routing header, where an index off by one shows |
| payloads of 0 to 4 bytes, among them `<<211, 170>>` and `<<210, 170>>` | SRv6 | odd and even lengths, a sum that carries twice when folded, and a sum of `0xFFFF`; the code's payload is 24 bytes and enters the sum the same way |
| two interfaces, one with three links (a bandwidth change, an MTU change), `MaxObuf = 2`, `MaxNbr = 1` | `eigrp_lifecycle` | two interfaces share the write queue and the hash; two packets make an interface stay on the queue after a write; MTU 65536 has its third byte set |

Every counter that would grow without bound has its bound in the guard of the
step (`Within`): the step that would pass the bound is not taken, all others
are.

## 6. Fairness

`link_handshake`, `sbfd_link`, `echo_v6` and `echo_fastpath` are the runs with
liveness properties.
`LinkSpec` assumes weak fairness of

* `Tick`: time passes;
* `Transmit(s)` and `Timeout(s)`: the event loop runs every timer that is due;
* `Deliver(s, role)`: the event loop calls the read callback of a socket that
  is readable and whose read is registered (`Readable(s)`, written out in
  place of `ENABLED`, which TLC evaluates two orders of magnitude slower
  here);
* `VrfEnable(s)` and `SessionEnable(s)`: a daemon that started opens its
  sockets, and a session that has none is enabled again;
* `Unreachable(s)`: a kernel without a socket for a datagram drops it.

bfdd is single threaded and its event loop runs every ready event before it
waits again, so an event that stays ready is served: weak fairness, and no
more.  Nothing is assumed of `Lose` and `Operate`: the link may lose nothing
or all it is allowed, the operator may give its commands at any moment or
never (`SessionsComeUp` excuses the behaviours in which a session is left
shut down).  Both are bounded, so that from some moment on the link delivers
and the configuration stays, which is when `SessionsComeUp`, `PollEnds` and
`TimersSettle` say what has to follow.

`SbfdSpec` assumes weak fairness of `ReflectorEnable` (the daemon of the
reflector starts), of `InitiatorSend(s)` (the transmit timer), of
`ReflectorReceive` for what is under way to the reflector and of
`InitiatorReceive` (a socket with something to read is read).  Nothing is
assumed of `SessionEnable` (`InitiatorComesUp` excuses a session that never
gets its socket), of the detection timer, which may expire at any moment, of
the operator, of `Lose`, or of the other initiators.

`FairSpec` of `BfdEcho` assumes weak fairness of `Forward(n)`, the forwarding
plane of a node, which returns what is addressed to its sender, and that a
daemon reads its echo socket while a packet addressed to it waits there and
the counters of the sessions the packet names have room (`CanRead`).  The
second is written out as `[]<>~CanRead(n, fam) \/ []<><<EchoRead(n, fam)>>_vars`:
`CanRead` implies that `EchoRead` is enabled, so this assumes no more than
weak fairness of `EchoRead` does, and TLC evaluates a state predicate in
place of the whole receive path on every step, which is several times
faster.
`EchoRead` is a read that takes a packet out of the network; a read that
only looks at a frame on its way to the peer is owed nothing.  Nothing is
assumed of the transmit timers, of `MacLearned`, of the operator, of the
kernel that opens the sockets, or of the host that injects packets.

The other runs check safety properties only, as invariants or as properties
of single steps; their counters end every behaviour, and no fairness is
assumed.  `eigrp_lifecycle` has none because what would be owed, that a
queued packet is written, is a promise of `eigrp_write`, which is not among
these sources: `Write` of the model is its effect on the queue only.

## 7. Findings and observations

Findings, each with a run that shows it:

1. **The TTL rule is chosen by the socket** (`gtsm_bypass`, line 987).  A
   packet that names a single-hop session and arrives on the multi-hop socket
   is held to `mh_ttl` only.
2. **MAC from another interface** (`mac_interface`, line 1000).  The peer's MAC
   is resolved on the interface of arrival and kept; the fast-path frame leaves
   on `bfd->ifp`.
3. **Short frames counted as echoes** (`echo_short_frame`, line 1157).  The
   length of the whole frame is compared with the size of the echo packet,
   which is then read at offset 42.
4. **Inner IPv4 behind a routing header** (`srv6_ipv4_srh`, line 2377).  The
   outer payload length and the routing header's next header are those of an
   inner IPv6 packet.
5. **UDP checksum zero over IPv6** (`srv6_zero_checksum`, line 2179).  A
   computed zero is sent as zero.

Observations the models carry without a run of their own:

* **The late Final.**  `bfd_recv_cb` ends a poll on any packet with the Final
  bit (line 1071).  When the timers of a session are changed a second time
  while the Final of the first poll is under way, that Final ends the second
  poll: the peer has put the first timers into use only, and the session
  transmits at the new interval while the peer detects with the old.  These
  states are among those of `link_handshake`, whose operator acts at any
  moment; stated as an invariant, the agreement of the two detection times
  fails after one command more than the first.  `TimersSettle` says what
  does hold: the next packets of the two sessions carry the timers in use and
  the disagreement ends.  RFC 5880 6.8.3 forbids the second change while a
  poll is in progress; whether `bfd.c` sees to it is outside these sources.
* **The detection time of the step that answers a Poll.**  `bfd_recv_cb`
  computes `detect_TO` from `cur_timers.required_min_rx` (line 1087) and
  calls `bs_final_handler` for a packet with the Poll bit after that (line
  1108).  If the handler brings a pending change of the timers into use, as
  the SBFD branch does by hand (lines 1059-1061), the detection timer that was
  started at line 1095 runs with the receive interval that has just been
  replaced, until the next packet is accepted.  Whether the handler computes
  the detection time again is in `bfd.c`; the model has it leave the time as
  it is, and `DetectTimeFollowsPacket` is stated for the packets without a
  Poll.
* `bfd_recv_cb` stores the local address, the MAC, the interface and the remote
  discriminator (lines 996-1020) before `bfd_check_auth` (line 1023): a packet
  with the A bit, which is always refused, has changed the session, where the
  specification has an authentication failure change nothing.
* On Linux `bp_echo_socket` gives up the echo socket with a warning when the
  filter or the bind fails (lines 1750-1767), where every other listening
  socket ends the process and the specification has every failure of the
  set-up do so.  The daemon goes on with `bg_echo = -1`.
* A session whose socket could not be opened stays in the session table: a
  packet of its peer brings it to INIT or UP while everything it sends fails
  (`sd = bs->sock`, line 113).  `SessionsComeUp` excuses these behaviours.
* `bp_peer_socket` and `bp_peer_socketv6` try the ports `BFD_SRCPORTINIT` to
  `BFD_SRCPORTMAX - 1` (`srcPort >= BFD_SRCPORTMAX` wraps before the port is
  used, line 1521): the upper constant itself is never bound.
* A build without `IPV6_HDRINCL` compiles `bp_peer_srh_socketv6` to a routine
  that always fails (`if (true)`, line 2121); `sbfd_link` with
  `HasHdrIncl = FALSE` passes with a session that never sends.
* The UDP checksum of a fast-path frame is computed over the length the UDP
  header declares, not over what was received (line 543).
* `bfd_pkt_checksum` copies the one address it is given into the source and
  the destination of the pseudo-header (lines 178-179, 186-187).  Sender and
  receiver of a fast-path echo both pass the IP source.  An echo of bfdd has
  its own address as source and as destination (lines 247-250), so the sum
  is the one of RFC 768 for it and bfdd accepts its own frames
  (`FastPathEchoComesHome`); a frame whose two addresses differ is refused
  when its sender summed over both.
* `stats.tx_ctrl_pkt` of an SBFD initiator is incremented in
  `_ptm_sbfd_init_send` (line 1905) and again in `ptm_sbfd_initiator_snd`
  (line 2009).
* `_ptm_sbfd_init_send` logs while `tx_fail_pkt <= 1` (line 1883), the first
  two failures in a row.
* The specification lists the remote timers among the fields stored before the
  authentication check; the code stores them after it (lines 1033-1037).  The
  model follows the code.
* An IPv4 SBFD session without segments is sent to the zeroed `dst_sin6`
  (line 2528).
* `eigrp_if_up` adds a route descriptor at every call and `eigrp_if_down`
  removes none (line 320).
* `eigrp_if_free` leaves the `eigrp_interface` in `ifp->info` and in the hash
  (line 442): zebra's next up message brings the interface back into the
  protocol, and a network statement added again finds `ifp->info` set.
* `eigrp_if_down` empties neither `obuf` nor `member_allrouters`: the last
  hello of `eigrp_if_free` is written when the interface next queues a
  packet, and an interface that comes back is taken for a member of the
  group it left (line 389 reads the flag).
* An `eigrp_interface` made while its interface is down has no `obuf`;
  `eigrp_if_delete_hook` (line 120) and the last hello of `eigrp_if_free`
  (line 431) pass the null pointer on.  What the routines of
  `eigrp_packet.c` do with it is outside these sources; a daemon that writes
  through it ends there.  `NetworkUnset` of the model has the steps of an
  interface with its `obuf` only: the other call has no state after it, and
  no property of `eigrp_lifecycle` says that it cannot be made.
* `eigrp_if_free` deletes the prefix with all its descriptors (line 439); with
  two interfaces in one network `RunningTracksLink` does not hold, and
  `eigrp_lifecycle` gives each interface its own.

## 8. Not modelled

* The arithmetic of `bfd_pkt_checksum`: `in_cksum_with_ph4` and
  `in_cksum_with_ph6` are code of `lib/`.  `BfdEcho` has the checksum as what
  it was summed over; the one's-complement sum itself is checked in
  `Srv6Encap` for the checksum of the SRv6 packet.
* The echo packet and the time stamp of the fast-path frame as bytes:
  `BfdCodec` has the control packet only.  The receive path reads one
  discriminator from an echo, at an offset the model keeps (`DISCR_END`).
* The authentication section of a control packet: `bfd_check_auth` refuses
  every packet with the A bit.
* The descriptor of `bp_sbfd_socket`: the routine is translated in
  `BfdSocket`, and nothing in these sources uses what it returns.
* The raw socket of an SBFD echo session in `BfdEcho` and the listening
  sockets of the initiator in `Sbfd`: these modules take them as given.
* A restart of a daemon in `BfdLink`.  With one restart of either daemon the
  state space has more than half a million states and did not end within
  half an hour.
* Demand mode and the echo state machine of `bfd.c`.
* Logging and the wording of `cp_debug`.
* The `hdrlen` of the routing header and the IPv4 header checksum: computed by
  code outside these sources.
* `eigrp_if_lookup_by_local_addr`, `eigrp_interface_cmp`,
  `eigrp_interface_hash`, `eigrp_del_if_params` and `eigrp_if_init`: they
  read the list of interfaces, free a string, or register the hooks once at
  start.  None changes state a property of `EigrpInterface` tells apart, and
  the model has no addresses to look up.
* `ptm_bfd_snd` as bytes: `BfdCodec` writes the packet the SBFD paths build;
  the control path also sets the C bit and the echo interval, which the
  packet of `BfdControl` does not carry, so its packets are records only.
* `nexthop.h`: the declarations of the nexthop library, its flag macros, the
  list macro `NEXTHOP_APPEND` and `_nexthop_hash_bytes`, an inline call of
  `jhash`.  Nothing in these sources calls them, the routines that change a
  nexthop are in `lib/nexthop.c`, and the specification says nothing of them:
  a module would be written from the names alone.

## 9. Plan

In the order of what they would add:

1. A multi-hop and an IPv4 instance of `BfdLink`, and a restart of a daemon on
   an instance without the operator.
2. The echo packet as bytes in `BfdCodec`, with the time stamp of the fast
   path, once `struct bfd_echo_pkt` is among the sources.
3. A sender that forges the reflector in `Sbfd`: an initiator takes the
   discriminator of any packet it accepts for that of its reflector.
4. `EigrpInterface` with interfaces that share a prefix and with the kernel's
   group membership, once the parts of eigrpd they depend on are among the
   sources.
