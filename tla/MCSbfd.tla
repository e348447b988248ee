------------------------------- MODULE MCSbfd -------------------------------
(***************************************************************************)
(* One SBFD initiator, session s1 with discriminator 1, and a reflector    *)
(* with discriminator 7 at the address the session names as its peer.      *)
(***************************************************************************)
EXTENDS Sbfd

MCIfaces == {1, 2}
MCIfVrf  == [i \in MCIfaces |-> 0]

Fast == [desired_min_tx |-> 1, required_min_rx |-> 1]
Mild == [desired_min_tx |-> 2, required_min_rx |-> 3]
Slow == [desired_min_tx |-> 4, required_min_rx |-> 4]

MCTimerCfgs == {Fast, Mild}

MCCfg ==
    [s \in {"s1"} |->
       [my_discr |-> 1, peer |-> "peer", local |-> NoAddr, ifname |-> NoIf,
        vrf |-> 0, mhop |-> FALSE, passive |-> FALSE, mh_ttl |-> 254,
        mode |-> "SBFD_INIT", detect_mult |-> 3, timers |-> Fast,
        remote_discr |-> 7]]

\* The kernel of the reflector refuses nothing, or has no IPv6, or refuses
\* an option of bg_initv6.
MCKernelFaults == {{}, {"EAFNOSUPPORT"}, {"IPV6_PKTINFO"}}

\* The kernel of the initiator refuses nothing, or IPV6_HDRINCL.
MCPeerFaults == {{}, {"IPV6_HDRINCL"}}

Init6(src, demand, poll, my, your, len) ==
    [to |-> "reflector", of |-> Elsewhere, poll |-> poll,
     dg |-> [len |-> len, ttlval |-> 255, pktinfo |-> NoInfo, src |-> src],
     cp |-> [ver |-> 1, state |-> "DOWN", len |-> 24, pbit |-> poll,
             fbit |-> FALSE, dbit |-> demand, abit |-> FALSE, mbit |-> FALSE,
             detect_mult |-> 3, my_discr |-> my, remote_discr |-> your,
             desired_min_tx |-> 1, required_min_rx |-> 0]]

\* Packets of other initiators: one the reflector answers, and ones that
\* are short, lack the Demand bit or name no reflector.
MCInitArrivals ==
    { Init6("other", TRUE, FALSE, 5, 7, 24),
      Init6("other", TRUE, FALSE, 5, 7, 23),
      Init6("other", FALSE, FALSE, 5, 7, 24),
      Init6("other", TRUE, FALSE, 5, 8, 24) }

=============================================================================
