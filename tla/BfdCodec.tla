------------------------------ MODULE BfdCodec ------------------------------
(***************************************************************************)
(* The BFD control packet as the bytes of struct bfd_pkt: what             *)
(* ptm_bfd_snd and ptm_sbfd_initiator_snd of bfdd/bfd_packet.c store in    *)
(* it, what bfd_recv_cb and the reflector read from it, and what           *)
(* ptm_bfd_reflector_process_init_packet rewrites in place before it sends *)
(* the buffer back.                                                        *)
(*                                                                         *)
(* The other modules hold a packet as a record of its fields.  The         *)
(* operators here say which bytes such a record stands for, so that a run  *)
(* can check that the record and the bytes agree on every packet it meets. *)
(* The bit macros are those of bfd.h and lib/zebra.h, with the layout of   *)
(* RFC 5880 4.1.                                                           *)
(***************************************************************************)
EXTENDS Integers, Sequences, Bitwise, FiniteSetsExt

\* (bfd.h) The bits of the flags byte below the two bits of the state, by
\* the field of the record that stands for each.
FlagBit ==
    [pbit |-> 32, fbit |-> 16, cbit |-> 8, abit |-> 4, dbit |-> 2, mbit |-> 1]

\* (bfd.h) The states as the wire numbers them.
StateCode == [ADM_DOWN |-> 0, DOWN |-> 1, INIT |-> 2, UP |-> 3]

\* (lib/zebra.h) One bit of a byte tested, raised and cleared.
CHECK_FLAG(v, f) == (v & f) # 0
SET_FLAG(v, f)   == v | f
UNSET_FLAG(v, f) == v & (255 - f)

\* (bfd.h) The version shares its byte with the diagnostic, the state its
\* byte with the flags; both are or-ed into what the byte holds.
BFD_SETVER(diag, val)    == diag | ((val & 7) * 32)
BFD_GETVER(diag)         == (diag \div 32) & 7
BFD_GETDIAG(diag)        == diag & 31
BFD_SETSTATE(flags, val) == flags | ((val * 64) & 192)
BFD_GETSTATE(flags)      == (flags \div 64) & 3

\* htonl followed by a store, and a load followed by ntohl: a 32-bit value
\* and its four bytes in network order.
htonl(n) == [i \in 1..4 |-> (n \div 256 ^ (4 - i)) % 256]
ntohl(b) == ((b[1] * 256 + b[2]) * 256 + b[3]) * 256 + b[4]

\* The 32-bit field of a buffer that starts after off bytes.
Word(buf, off) == SubSeq(buf, off + 1, off + 4)

\* The flags byte: the state, then a bit for every flag the record raises.
FlagsOf(p) ==
    FoldSet(LAMBDA f, flags : SET_FLAG(flags, FlagBit[f]),
            BFD_SETSTATE(0, StateCode[p.state]),
            {f \in DOMAIN FlagBit \cap DOMAIN p : p[f]})

\* struct bfd_pkt as ptm_sbfd_initiator_snd fills it for packet p of a session
\* whose local diagnostic is diag.  No echo interval is announced.
Wire(p, diag) ==
    <<BFD_SETVER(diag, p.ver), FlagsOf(p), p.detect_mult, p.len>>
      \o htonl(p.my_discr) \o htonl(p.remote_discr)
      \o htonl(p.desired_min_tx) \o htonl(p.required_min_rx) \o htonl(0)

\* What a receiver reads from the first 24 bytes of msgbuf.
Parsed(buf) ==
    [ver   |-> BFD_GETVER(buf[1]),
     state |-> CHOOSE st \in DOMAIN StateCode :
                   StateCode[st] = BFD_GETSTATE(buf[2]),
     pbit  |-> CHECK_FLAG(buf[2], FlagBit.pbit),
     fbit  |-> CHECK_FLAG(buf[2], FlagBit.fbit),
     abit  |-> CHECK_FLAG(buf[2], FlagBit.abit),
     dbit  |-> CHECK_FLAG(buf[2], FlagBit.dbit),
     mbit  |-> CHECK_FLAG(buf[2], FlagBit.mbit),
     detect_mult |-> buf[3], len |-> buf[4],
     my_discr       |-> ntohl(Word(buf, 4)),
     remote_discr   |-> ntohl(Word(buf, 8)),
     desired_min_tx |-> ntohl(Word(buf, 12)),
     required_min_rx |-> ntohl(Word(buf, 16))]

\* Faulty variant: Final is raised for a Poll and Poll is left as it came.
Reflected_keeps_poll(buf) ==
    LET up == BFD_SETSTATE(UNSET_FLAG(buf[2], FlagBit.dbit), StateCode.UP)
        flags == IF CHECK_FLAG(up, FlagBit.pbit)
                 THEN SET_FLAG(up, FlagBit.fbit) ELSE up
    IN  <<buf[1], flags, buf[3], buf[4]>>
          \o Word(buf, 8) \o Word(buf, 4) \o SubSeq(buf, 13, Len(buf))

\* The reflector's rewrite of msgbuf: the two discriminators change places
\* as they are, in network order; Demand is cleared, the state is Up, and a
\* Poll becomes a Final.  Every other byte goes back as it came.
Reflected(buf) ==
    LET up == BFD_SETSTATE(UNSET_FLAG(buf[2], FlagBit.dbit), StateCode.UP)
        flags == IF CHECK_FLAG(up, FlagBit.pbit)
                 THEN SET_FLAG(UNSET_FLAG(up, FlagBit.pbit), FlagBit.fbit)
                 ELSE up
    IN  <<buf[1], flags, buf[3], buf[4]>>
          \o Word(buf, 8) \o Word(buf, 4) \o SubSeq(buf, 13, Len(buf))

=============================================================================
