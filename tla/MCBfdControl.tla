---------------------------- MODULE MCBfdControl ----------------------------
(***************************************************************************)
(* Finite instances of BfdControl for TLC.                                 *)
(*                                                                         *)
(* One router with three interfaces: 1 and 2 in the default VRF (0), 3 in  *)
(* VRF 1.  The listening sockets are those of the default VRF, which with  *)
(* the VRF-lite backend receive for every VRF.  The peer is "peer"; "mitm" *)
(* is any other source address.                                            *)
(***************************************************************************)
EXTENDS BfdControl

MCIfaces      == {1, 2, 3}
MCIfVrf       == [i \in MCIfaces |-> IF i = 3 THEN 1 ELSE 0]
MCNoArpIfaces == {}
MCSockVrf     == 0

Fast == [desired_min_tx |-> 1, required_min_rx |-> 1]
Mild == [desired_min_tx |-> 2, required_min_rx |-> 3]
Slow == [desired_min_tx |-> 4, required_min_rx |-> 4]

MCTimerCfgs == {Fast, Mild}

Session(discr, iface, vrf, mhop, passive, mode, remote) ==
    [my_discr |-> discr, peer |-> "peer", local |-> NoAddr, ifname |-> iface,
     vrf |-> vrf, mhop |-> mhop, passive |-> passive, mh_ttl |-> 254,
     mode |-> mode, detect_mult |-> 3, timers |-> Fast,
     remote_discr |-> remote]

\* A single-hop session of the default VRF, bound to no interface.
CfgShop    == [s \in {"s1"} |-> Session(1, NoIf, 0, FALSE, FALSE, "BFD", 0)]

\* A passive single-hop session.
CfgPassiveShop == [s \in {"s1"} |-> Session(1, NoIf, 0, FALSE, TRUE, "BFD", 0)]

-----------------------------------------------------------------------------
(* Datagrams and packets.                                                  *)

Dg(len, ttl, info, src) ==
    [len |-> len, ttlval |-> ttl, pktinfo |-> info, src |-> src]

On(ifindex) == [addr |-> "local", ifindex |-> ifindex]

GoodDg == Dg(24, 255, On(1), "peer")

\* Datagrams that differ from the good one in one respect: a failed or short
\* read, a TTL that is missing, spent or out of range, no packet-info, an
\* unknown interface, another interface of the VRF, an interface of another
\* VRF, another sender.
OddDgs ==
    {Dg(-1, 255, On(1), "peer"), Dg(23, 255, On(1), "peer"),
     Dg(24, NoTtl, On(1), "peer"), Dg(24, 254, On(1), "peer"),
     Dg(24, 252, On(1), "peer"), Dg(24, 256, On(1), "peer"),
     Dg(24, 255, NoInfo, "peer"), Dg(24, 255, On(9), "peer"),
     Dg(24, 255, On(2), "peer"), Dg(24, 255, On(3), "peer"),
     Dg(24, 255, On(1), "mitm")}

Pkt(state, pbit, fbit, my, your, t) ==
    [ver |-> 1, state |-> state, len |-> 24, pbit |-> pbit, fbit |-> fbit,
     abit |-> FALSE, mbit |-> FALSE, detect_mult |-> 3,
     my_discr |-> my, remote_discr |-> your,
     desired_min_tx |-> t.desired_min_tx, required_min_rx |-> t.required_min_rx]

\* Every well-formed packet of the peer (discriminator 7) to the session.
PeerPkts ==
    {Pkt(st, p, f, 7, your, Fast) :
        st \in States, p \in BOOLEAN, f \in BOOLEAN, your \in {0, 1}}

\* The packets the odd datagrams carry.
BasePkts == {Pkt("DOWN", FALSE, FALSE, 7, 0, Fast), Pkt("UP", FALSE, FALSE, 7, 1, Fast)}

\* Packets that break one rule of the validation each, or name a session
\* that does not exist.
BrokenPkts ==
    UNION {{[b EXCEPT !.ver = 0], [b EXCEPT !.detect_mult = 0],
            [b EXCEPT !.len = 23], [b EXCEPT !.len = 25],
            [b EXCEPT !.mbit = TRUE], [b EXCEPT !.my_discr = 0],
            [b EXCEPT !.abit = TRUE], [b EXCEPT !.remote_discr = 5]} :
           b \in BasePkts}

\* Packets of a peer that changed its discriminator, its timers or its
\* multiplier.
ChangedPkts ==
    UNION {{[b EXCEPT !.my_discr = 9],
            [b EXCEPT !.desired_min_tx = 5, !.required_min_rx = 2],
            [b EXCEPT !.detect_mult = 2]} : b \in BasePkts}

\* What a peer that follows the protocol may send, in any order and number.
MCPeerArrivals ==
    {[dg |-> GoodDg, cp |-> p] : p \in PeerPkts \cup ChangedPkts}

\* The same with everything the validation has to refuse.
MCArrivals ==
    MCPeerArrivals
        \cup {[dg |-> GoodDg, cp |-> p] : p \in BrokenPkts}
        \cup {[dg |-> d, cp |-> p] : d \in OddDgs, p \in BasePkts}

=============================================================================
