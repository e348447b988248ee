---------------------------- MODULE MCSrv6Encap ----------------------------
(***************************************************************************)
(* Srv6Encap for TLC: three addresses, every segment list of at most three *)
(* segments, and payloads chosen for the edges of the checksum.            *)
(***************************************************************************)
EXTENDS Srv6Encap

MCAddrs == {"a", "b", "c"}

\* Two bytes an address: all ones, a low one, a high bit.
MCAddrBytes == [x \in MCAddrs |->
                  CASE x = "a" -> <<255, 255>>
                    [] x = "b" -> <<0, 1>>
                    [] x = "c" -> <<128, 0>>]

\* No segment, one (no routing header), two and three (a routing header of
\* one and of two entries); a segment may repeat.
MCSegLists == BoundedSeq(MCAddrs, 3)

\* Empty, odd and even payloads; with the ports of the runs, <<211, 170>>
\* between the addresses "a" makes the folded sum carry a second time and
\* <<210, 170>> makes the sum 0xFFFF.
MCPayloads ==
    {<<>>, <<0>>, <<255>>, <<1, 2>>, <<211, 170>>, <<210, 170>>,
     <<255, 255, 255>>, <<0, 255, 1, 0>>}

=============================================================================
