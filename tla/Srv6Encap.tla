----------------------------- MODULE Srv6Encap -----------------------------
(***************************************************************************)
(* The SRv6-encapsulated raw send of bfdd/bfd_packet.c                     *)
(* (bp_raw_sbfd_red_send with its header builders bp_sbfd_encap_...) and   *)
(* the checksum routines it computes the UDP checksum with (checksum,      *)
(* udp4_checksum, udp6_checksum).                                          *)
(*                                                                         *)
(* These are algorithms on data: a packet is the sequence of its headers,  *)
(* each a record of the fields the code writes, and a buffer is a sequence *)
(* of bytes.  The host is little-endian, as a Linux build on x86 or arm64  *)
(* is: a 16-bit load of the bytes b1, b2 is b1 + 256 * b2, and htons puts  *)
(* the high byte first.  An address is AddrBytes[a], a few bytes where the *)
(* program has 4 or 16; a sum of 16-bit words asks only that it is an even *)
(* number of them.                                                         *)
(***************************************************************************)
EXTENDS Integers, Sequences, SequencesExt

CONSTANTS
    Addrs,       \* the addresses of sources, destinations and segments
    AddrBytes,   \* AddrBytes[a]: the bytes of address a
    NoAddr,      \* the unspecified address a zeroed sockaddr_in6 holds
    SegLists,    \* the segment lists a session may be configured with
    Payloads,    \* the payloads handed to the send routine
    SrcPort,     \* the UDP source port
    DstPort      \* the UDP destination port

VARIABLES
    args,   \* the arguments of the last call of bp_raw_sbfd_red_send
    out     \* what it made of them: ret, the sendmsg destination, the
            \* packet in sendbuf and total_len

vars == <<args, out>>

Families        == {"AF_INET", "AF_INET6"}
BFD_TTL_VAL     == 255
IPPROTO_IPIP    == 4
IPPROTO_UDP     == 17
IPPROTO_IPV6    == 41
IPPROTO_ROUTING == 43

\* sizeof of the structures the code lays out.
IP_HDR   == 20
IP6_HDR  == 40
UDP_HDR  == 8
SRH_HDR  == 8
IN6_ADDR == 16

Byte == 0..255

ASSUME /\ AddrBytes \in [Addrs -> Seq(Byte)]
       /\ \A a \in Addrs : Len(AddrBytes[a]) % 2 = 0
       /\ NoAddr \notin Addrs
       /\ \A l \in SegLists : l \in Seq(Addrs)
       /\ \A p \in Payloads : p \in Seq(Byte)
       /\ SrcPort \in 0..65535 /\ DstPort \in 0..65535

-----------------------------------------------------------------------------
(* The checksum routines.                                                  *)

\* htons followed by a store: the bytes of a 16-bit value in network order.
htons(n) == <<n \div 256, n % 256>>

\* The store of a 16-bit value as the host holds it.
HostBytes(n) == <<n % 256, n \div 256>>

\* The 16-bit values a buffer holds for a host that reads it two bytes at a
\* time, a byte left over read alone.
HostWords(buf) ==
    [i \in 1..((Len(buf) + 1) \div 2) |->
        buf[2 * i - 1] + (IF 2 * i <= Len(buf) THEN 256 * buf[2 * i] ELSE 0)]

\* Faulty variant: the carry is folded in once.
Fold_once(sum) ==
    ((sum % 65536) + (sum \div 65536)) % 65536

\* The 32-bit sum folded into 16 bits: while (sum >> 16) ...
RECURSIVE Fold(_)
Fold(sum) ==
    IF sum \div 65536 = 0 THEN sum ELSE Fold((sum % 65536) + (sum \div 65536))

\* checksum(): the sum of the words, folded, complemented and cut to 16
\* bits.  The sum is a uint32_t; the words of a buffer of IP_MAXPACKET
\* bytes do not overflow it.
checksum(buf) ==
    65535 - Fold(SumFunction(HostWords(buf)))

\* The zero byte that pads an odd payload to the next 16-bit boundary.
Pad(payload) == IF Len(payload) % 2 = 1 THEN <<0>> ELSE <<>>

\* Faulty variant: the zero field before the next header is two bytes.
udp6_checksum_short_zero(ip6h, udph, payload) ==
    checksum(FlattenSeq(<<AddrBytes[ip6h.src], AddrBytes[ip6h.dst], udph.len,
                          <<0, 0>>, <<ip6h.nxt>>,
                          udph.source, udph.dest, udph.len, <<0, 0>>,
                          payload, Pad(payload)>>))

\* udp6_checksum(): the pseudo-header as the code lays it out (the length
\* it calls 32 bits is the two bytes of udp_hdr.len), the UDP header with a
\* zero checksum, the payload and its padding.
udp6_checksum(ip6h, udph, payload) ==
    checksum(FlattenSeq(<<AddrBytes[ip6h.src], AddrBytes[ip6h.dst], udph.len,
                          <<0, 0, 0>>, <<ip6h.nxt>>,
                          udph.source, udph.dest, udph.len, <<0, 0>>,
                          payload, Pad(payload)>>))

\* udp4_checksum(): the same with the pseudo-header of IPv4.
udp4_checksum(iph, udph, payload) ==
    checksum(FlattenSeq(<<AddrBytes[iph.src], AddrBytes[iph.dst],
                          <<0>>, <<iph.nxt>>, udph.len,
                          udph.source, udph.dest, udph.len, <<0, 0>>,
                          payload, Pad(payload)>>))

-----------------------------------------------------------------------------
(* The header builders.  A header is a record: its kind, its addresses,    *)
(* the protocol it says follows (nxt) and the length it declares (plen).   *)

\* Faulty variant: the routing header is left out of the payload length.
bp_sbfd_encap_srh_ip6h_red_no_srh(sip, dip, seg_num, datalen, family) ==
    [kind |-> "ip6", src |-> sip, dst |-> dip, hlim |-> BFD_TTL_VAL,
     plen |-> (IF family = "AF_INET6" THEN IP6_HDR ELSE IP_HDR)
                  + UDP_HDR + datalen,
     nxt  |-> IF seg_num # 1 THEN IPPROTO_ROUTING
              ELSE IF family = "AF_INET6" THEN IPPROTO_IPV6 ELSE IPPROTO_IPIP]

\* bp_sbfd_encap_srh_ip6h_red(): the outer IPv6 header.  With one segment
\* the inner packet follows at once; with more, the routing header.
bp_sbfd_encap_srh_ip6h_red(sip, dip, seg_num, datalen, family) ==
    [kind |-> "ip6", src |-> sip, dst |-> dip, hlim |-> BFD_TTL_VAL,
     plen |-> IF seg_num = 1
              THEN (IF family = "AF_INET6" THEN IP6_HDR ELSE IP_HDR)
                       + UDP_HDR + datalen
              ELSE IP6_HDR + UDP_HDR + SRH_HDR + IN6_ADDR * (seg_num - 1)
                       + datalen,
     nxt  |-> IF seg_num # 1 THEN IPPROTO_ROUTING
              ELSE IF family = "AF_INET6" THEN IPPROTO_IPV6 ELSE IPPROTO_IPIP]

\* Faulty variant: segments[i] is taken one place too early in the list.
bp_sbfd_encap_srh_rth_red_shifted(segment_list, seg_num) ==
    [kind |-> "srh", nxt |-> IPPROTO_IPV6,
     segments_left |-> seg_num - 1, first_segment |-> seg_num - 2,
     segments |-> [i \in 0..(seg_num - 2) |-> segment_list[seg_num - 1 - i]]]

\* bp_sbfd_encap_srh_rth_red(): the routing header of the reduced mode, for
\* seg_num > 1.  segments is indexed from 0 as in the code; segment_list, a
\* sequence, from 1.
bp_sbfd_encap_srh_rth_red(segment_list, seg_num) ==
    [kind |-> "srh", nxt |-> IPPROTO_IPV6,
     segments_left |-> seg_num - 1, first_segment |-> seg_num - 2,
     segments |-> [i \in 0..(seg_num - 2) |-> segment_list[seg_num - i]]]

\* bp_sbfd_encap_inner_ip6h(): plen is what follows the header.
bp_sbfd_encap_inner_ip6h(sip, dip, datalen) ==
    [kind |-> "ip6", src |-> sip, dst |-> dip, hlim |-> BFD_TTL_VAL,
     plen |-> UDP_HDR + datalen, nxt |-> IPPROTO_UDP]

\* bp_sbfd_encap_inner_iph(): ip_len counts the header too.
bp_sbfd_encap_inner_iph(sip, dip, datalen) ==
    [kind |-> "ip4", src |-> sip, dst |-> dip, hlim |-> BFD_TTL_VAL,
     plen |-> IP_HDR + UDP_HDR + datalen, nxt |-> IPPROTO_UDP]

\* The ports and the length of the UDP header, before the checksum.
UdpFields(payload) ==
    [kind |-> "udp", source |-> htons(SrcPort), dest |-> htons(DstPort),
     len |-> htons(UDP_HDR + Len(payload))]

\* bp_sbfd_encap_udp6() and bp_sbfd_encap_udp4(): the UDP header with the
\* checksum of the inner header's kind, stored as the host holds it.
bp_sbfd_encap_udp(inner, payload) ==
    LET udph == UdpFields(payload)
        sum  == IF inner.kind = "ip6" THEN udp6_checksum(inner, udph, payload)
                ELSE udp4_checksum(inner, udph, payload)
    IN  [kind |-> "udp", source |-> udph.source, dest |-> udph.dest,
         len |-> udph.len, check |-> HostBytes(sum)]

\* The bytes a header takes in sendbuf.
Size(h) ==
    CASE h.kind = "ip6"  -> IP6_HDR
      [] h.kind = "ip4"  -> IP_HDR
      [] h.kind = "udp"  -> UDP_HDR
      [] h.kind = "srh"  -> SRH_HDR + IN6_ADDR * (h.first_segment + 1)
      [] h.kind = "data" -> Len(h.bytes)

\* Faulty variant: a routing header also for a single segment.
RoutingHeader_always(segment_list) ==
    IF Len(segment_list) > 0
    THEN <<bp_sbfd_encap_srh_rth_red(segment_list, Len(segment_list))>>
    ELSE <<>>

\* "case with srh header": a routing header when there is more than one
\* segment.
RoutingHeader(segment_list) ==
    IF Len(segment_list) > 1
    THEN <<bp_sbfd_encap_srh_rth_red(segment_list, Len(segment_list))>>
    ELSE <<>>

\* bp_raw_sbfd_red_send(): the outer header when there is a segment, the
\* routing header when there are more, the inner header of the family, the
\* UDP header and the payload; the destination of sendmsg is the first
\* segment, or, for IPv6 without segments, dip.  sent is whether sendmsg
\* took the packet.
bp_raw_sbfd_red_send(a, sent) ==
    LET seg_num == Len(a.segment_list)
        datalen == Len(a.data)
        outer == IF seg_num > 0
                 THEN <<bp_sbfd_encap_srh_ip6h_red(a.out_sip, a.segment_list[1],
                                                   seg_num, datalen, a.family)>>
                 ELSE <<>>
        srh   == RoutingHeader(a.segment_list)
        inner == IF a.family = "AF_INET6"
                 THEN bp_sbfd_encap_inner_ip6h(a.sip, a.dip, datalen)
                 ELSE bp_sbfd_encap_inner_iph(a.sip, a.dip, datalen)
        pkt   == outer \o srh \o
                 <<inner, bp_sbfd_encap_udp(inner, a.data),
                   [kind |-> "data", bytes |-> a.data]>>
    IN  [ret |-> IF sent THEN 0 ELSE -1,
         dst |-> IF seg_num > 0 THEN a.segment_list[1]
                 ELSE IF a.family = "AF_INET6" THEN a.dip ELSE NoAddr,
         pkt |-> pkt,
         total_len |-> SumFunction([i \in DOMAIN pkt |-> Size(pkt[i])])]

-----------------------------------------------------------------------------
(* The calls.                                                              *)

\* What _ptm_sbfd_init_send and _ptm_sbfd_echo_send pass: the family of the
\* session, its addresses, its segment list and the packet.
Calls ==
    [family : Families, out_sip : Addrs, sip : Addrs, dip : Addrs,
     segment_list : SegLists, data : Payloads]

\* One more call for the session: its family, addresses and segment list
\* stay, the packet is the next one.
RawSend ==
    \E data \in Payloads, sent \in BOOLEAN :
        /\ args' = [args EXCEPT !.data = data]
        /\ out' = bp_raw_sbfd_red_send(args', sent)

\* The first call, of a session configured in any way.
Init ==
    /\ args \in Calls
    /\ out \in {bp_raw_sbfd_red_send(args, sent) : sent \in BOOLEAN}

Next == RawSend

Spec == Init /\ [][Next]_vars

-----------------------------------------------------------------------------
(* What a receiver does (RFC 1071, RFC 768, RFC 8200, RFC 8754).           *)

\* The 16-bit words of a buffer in network order, an odd byte padded.
NetWords(buf) ==
    [i \in 1..((Len(buf) + 1) \div 2) |->
        256 * buf[2 * i - 1] + (IF 2 * i <= Len(buf) THEN buf[2 * i] ELSE 0)]

\* The one's-complement sum of 16-bit words, in closed form.
OnesComplementSum(words) ==
    LET total == SumFunction(words)
    IN  IF total = 0 THEN 0 ELSE ((total - 1) % 65535) + 1

\* The pseudo-header a receiver of the inner packet sums.
PseudoHeader(inner, udph) ==
    IF inner.kind = "ip6"
    THEN FlattenSeq(<<AddrBytes[inner.src], AddrBytes[inner.dst],
                      <<0, 0>>, udph.len, <<0, 0, 0, inner.nxt>> >>)
    ELSE FlattenSeq(<<AddrBytes[inner.src], AddrBytes[inner.dst],
                      <<0, inner.nxt>>, udph.len>>)

\* The path of a packet: each node it is addressed to, the node that finds
\* segments_left zero being the last.
RECURSIVE Route(_, _, _)
Route(dst, segments, left) ==
    IF left = 0 THEN <<dst>>
    ELSE <<dst>> \o Route(segments[left - 1], segments, left - 1)

\* The headers of the packet of the given kind.
Headers(pkt, kind) == SelectSeq(pkt, LAMBDA h : h.kind = kind)

\* The protocol number that announces a header.
Announces(h) ==
    CASE h.kind = "ip6" -> IPPROTO_IPV6
      [] h.kind = "ip4" -> IPPROTO_IPIP
      [] h.kind = "srh" -> IPPROTO_ROUTING
      [] h.kind = "udp" -> IPPROTO_UDP

\* The bytes of the packet from header i on.
Rest(pkt, i) == SumFunction([j \in i..Len(pkt) |-> Size(pkt[j])])

-----------------------------------------------------------------------------
(* Properties.                                                             *)

\* The type invariant: a packet ends with an inner header, a UDP header and
\* the payload, has an outer header exactly when there are segments and a
\* routing header exactly when there are more than one, and total_len is
\* the length of all of it.
TypeOK ==
    LET n == Len(args.segment_list)  pkt == out.pkt
    IN  /\ args \in Calls
        /\ out.ret \in {0, -1}
        /\ out.dst \in Addrs \cup {NoAddr}
        /\ Len(pkt) = 3 + (IF n > 0 THEN 1 ELSE 0) + (IF n > 1 THEN 1 ELSE 0)
        /\ Len(Headers(pkt, "srh")) = (IF n > 1 THEN 1 ELSE 0)
        /\ pkt[Len(pkt)].bytes = args.data
        /\ pkt[Len(pkt) - 1].kind = "udp"
        /\ \A i \in 1..2 : pkt[Len(pkt) - 1].check[i] \in Byte
        /\ out.total_len = Rest(pkt, 1)

\* The packet visits the segments in the order of the session's segment
\* list and ends at the last of them: the destination of the outer header
\* and the entries of the routing header bp_sbfd_encap_srh_rth_red writes in
\* reverse, followed as a segment endpoint follows them (decrement
\* segments_left, go to segments[segments_left]), give back segment_list;
\* with one segment there is no routing header, and sendmsg is handed the
\* first segment.
SegmentsVisitedInOrder ==
    LET srh == Headers(out.pkt, "srh")
    IN  args.segment_list # <<>> =>
          /\ out.dst = args.segment_list[1]
          /\ args.segment_list =
                IF srh = <<>> THEN <<out.pkt[1].dst>>
                ELSE Route(out.pkt[1].dst, srh[1].segments, srh[1].segments_left)
          /\ srh # <<>> =>
                DOMAIN srh[1].segments = 0..srh[1].first_segment

\* What udp4_checksum and udp6_checksum compute, a receiver verifies: the
\* one's-complement sum of the pseudo-header of RFC 768 or RFC 8200 (with
\* its 32-bit length), the UDP header as sent and the payload, taken in
\* network order, is 0xFFFF, although the code sums in host order, folds a
\* 32-bit sum and lays the IPv6 pseudo-header out two bytes short.
UdpChecksumVerifies ==
    LET pkt == out.pkt
        inner == pkt[Len(pkt) - 2]
        udph == pkt[Len(pkt) - 1]
        seen == FlattenSeq(<<PseudoHeader(inner, udph), udph.source, udph.dest,
                             udph.len, udph.check, args.data>>)
    IN  OnesComplementSum(NetWords(seen)) = 65535

\* A UDP checksum of zero says "no checksum", and over IPv6 a receiver
\* discards the datagram (RFC 8200 8.1: a computed zero is sent as 0xFFFF):
\* the inner IPv6 packet bp_sbfd_encap_udp6 completes never carries one.
Udp6ChecksumNeverZero ==
    LET pkt == out.pkt
    IN  pkt[Len(pkt) - 2].kind = "ip6" => pkt[Len(pkt) - 1].check # <<0, 0>>

\* Every header announces the header that follows it and declares the
\* length of what follows it: the next-header value is the protocol of the
\* next header, and the payload length of an IPv6 header, or the total
\* length of the IPv4 header, is the number of bytes that are there.  This
\* is what the layout of bp_raw_sbfd_red_send promises of an inner IPv4 or
\* IPv6 packet behind any segment list.
HeadersDescribePacket ==
    LET pkt == out.pkt
    IN  \A i \in 1..(Len(pkt) - 2) :
          /\ pkt[i].nxt = Announces(pkt[i + 1])
          /\ pkt[i].kind = "ip6" => pkt[i].plen = Rest(pkt, i + 1)
          /\ pkt[i].kind = "ip4" => pkt[i].plen = Rest(pkt, i)

\* The same of the packets the code frames as it should: an inner IPv6
\* packet behind any segment list, an inner IPv4 packet behind at most one
\* segment.
HeadersDescribePacketExceptIpv4Srh ==
    args.family = "AF_INET6" \/ Len(args.segment_list) <= 1
        => HeadersDescribePacket

=============================================================================
