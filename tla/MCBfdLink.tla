----------------------------- MODULE MCBfdLink -----------------------------
(***************************************************************************)
(* Two daemons at the addresses "A" and "B" on one IPv6 link.  Session a   *)
(* of the daemon at "A" (discriminator 1) and session b of the daemon at   *)
(* "B" (discriminator 2) name each other as their peer; their detect        *)
(* multipliers differ.                                                     *)
(***************************************************************************)
EXTENDS BfdLink

MCIfaces == {1}
MCIfVrf  == [i \in MCIfaces |-> 0]

Fast == [desired_min_tx |-> 1, required_min_rx |-> 1]
Mild == [desired_min_tx |-> 2, required_min_rx |-> 3]
Slow == [desired_min_tx |-> 4, required_min_rx |-> 4]

MCTimerCfgs == {Fast, Mild}

MCPeer == [s \in {"a", "b"} |-> IF s = "a" THEN "b" ELSE "a"]
MCAddr == [s \in {"a", "b"} |-> IF s = "a" THEN "A" ELSE "B"]

\* The kernel of the daemon of a may refuse an option of the IPv6 listening
\* sockets; the kernel of the daemon of b may be one without IPv6, or refuse
\* the filter of the echo socket.
MCKernelFaults ==
    [s \in {"a", "b"} |->
       IF s = "a" THEN {{}, {"IPV6_V6ONLY"}}
       ELSE {{}, {"EAFNOSUPPORT"}, {"SO_ATTACH_FILTER"}}]

\* The kernel of the daemon of a may refuse the traffic class of a session
\* socket.
MCPeerFaults ==
    [s \in {"a", "b"} |-> IF s = "a" THEN {{}, {"IPV6_TCLASS"}} ELSE {{}}]

\* At the daemon of b the first source port is taken.
MCBusy == [s \in {"a", "b"} |-> IF s = "a" THEN {} ELSE {1}]

MCCfg ==
    [s \in {"a", "b"} |->
       [my_discr |-> IF s = "a" THEN 1 ELSE 2, peer |-> MCAddr[MCPeer[s]],
        local |-> NoAddr, ifname |-> NoIf, vrf |-> 0, mhop |-> FALSE,
        passive |-> FALSE, mh_ttl |-> 254, mode |-> "BFD",
        detect_mult |-> IF s = "a" THEN 3 ELSE 2,
        timers |-> Fast, remote_discr |-> 0]]

=============================================================================
