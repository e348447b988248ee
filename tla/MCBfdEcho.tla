----------------------------- MODULE MCBfdEcho -----------------------------
(***************************************************************************)
(* Two nodes, a and b, and the sessions, packets and bounds the echo runs  *)
(* choose from.                                                            *)
(***************************************************************************)
EXTENDS BfdEcho

MCNodes == {"a", "b"}

Session(node, peer, via, discr, ipv6, mode) ==
    [node |-> node, peer |-> peer, via |-> via, my_discr |-> discr,
     ipv6 |-> ipv6, mode |-> mode, detect_mult |-> 3,
     desired_min_echo_tx |-> 2, remote_detect_mult |-> 3, echo_xmt_TO |-> 5]

\* fp: an IPv4 session of a with a fast path through b.  a6 and b6: the two
\* ends of an IPv6 session.  echo: an SBFD echo session of a, whose packets
\* name a itself and travel through the segment endpoint b.
MCCfg ==
    [s \in {"fp", "a6", "b6", "echo"} |->
       CASE s = "fp"   -> Session("a", "b", "b", 1, FALSE, "BFD")
         [] s = "a6"   -> Session("a", "b", "b", 2, TRUE, "BFD")
         [] s = "b6"   -> Session("b", "a", "a", 3, TRUE, "BFD")
         [] s = "echo" -> Session("a", "a", "b", 4, TRUE, "SBFD_ECHO")]

\* What a host sends that knows how bfdd sums a fast-path echo.
From(fam, ttl, discr, rlen) ==
    [fam |-> fam, at |-> "a", ipsrc |-> "host", ipdst |-> "a", ttl |-> ttl,
     discr |-> discr, rlen |-> rlen, ip_ok |-> TRUE, udp_len |-> 8 + ECHO_SIZE,
     udp_check |-> bfd_pkt_checksum(8 + ECHO_SIZE, "host"), reflected |-> 0]

Whole == FP_OFFSET + ECHO_SIZE

\* Frames for bg_echo: a returning echo of session fp, and what differs
\* from it in one respect; the last carries the checksum of RFC 768, over
\* source and destination.
FullFrames ==
    { From("v4", FP_TTL, 1, Whole),
      From("v4", BFD_TTL_VAL, 1, Whole),
      From("v4", FP_TTL, 0, Whole),
      From("v4", FP_TTL, 9, Whole),
      From("v4", FP_TTL, 1, -1),
      [From("v4", FP_TTL, 1, Whole) EXCEPT !.ip_ok = FALSE],
      [From("v4", FP_TTL, 1, Whole) EXCEPT !.udp_check.dst = "a"] }

\* Frames shorter than an echo frame: the least the socket filter passes,
\* one that ends after the discriminator and declares no more, and a
\* minimum-size Ethernet frame.
ShortFrames ==
    { From("v4", FP_TTL, 1, FILTER_MIN),
      [From("v4", FP_TTL, 1, FP_OFFSET + DISCR_END)
         EXCEPT !.udp_len = 8 + DISCR_END, !.udp_check.len = 8 + DISCR_END],
      From("v4", FP_TTL, 1, 60) }

\* Datagrams for bg_echov6.
Datagrams ==
    { From("v6", BFD_TTL_VAL, 2, ECHO_SIZE),
      From("v6", FP_TTL, 2, ECHO_SIZE),
      From("v6", 1, 3, ECHO_SIZE),
      From("v6", FP_TTL, 4, ECHO_SIZE),
      From("v6", FP_TTL, 0, ECHO_SIZE),
      From("v6", FP_TTL, 9, ECHO_SIZE),
      From("v6", FP_TTL, 2, 10),
      From("v6", 0, 2, -1) }

MCFrames  == FullFrames \cup ShortFrames
MCForeign == MCFrames \cup Datagrams

\* What an earlier frame can have left in msgbuf.
MCResidue == {From("v4", FP_TTL, 1, Whole), From("v4", FP_TTL, 0, Whole)}

MCRtts == 0..2

\* The kernels of the IPv4 run: that of a refuses nothing, or the filter of
\* bg_echo, or gives no socket at all; that of b refuses nothing.
MCKernelFaultsV4 ==
    [n \in MCNodes |->
       IF n = "a" THEN {{}, {"SO_ATTACH_FILTER"}, {"socket"}} ELSE {{}}]

\* The kernels of the IPv6 run: each refuses nothing or has no IPv6.
MCKernelFaultsV6 == [n \in MCNodes |-> {{}, {"EAFNOSUPPORT"}}]

=============================================================================
