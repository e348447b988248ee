-------------------------- MODULE MCEigrpInterface --------------------------
(***************************************************************************)
(* EigrpInterface for TLC: two interfaces with a connected prefix each, a  *)
(* broadcast and a point-to-point one, and two values of the MTU, the      *)
(* second of which has a byte above the second.                            *)
(***************************************************************************)
EXTENDS EigrpInterface

MCIfaces == {"eth0", "ppp0"}

MCPrefix == [i \in MCIfaces |-> IF i = "eth0" THEN "net0" ELSE "net1"]

MCIfKind == [i \in MCIfaces |-> IF i = "ppp0" THEN "pointopoint" ELSE "other"]

\* The Ethernet link changes its bandwidth and its MTU; the other link
\* stays as it is.
MCLinks ==
    [i \in MCIfaces |->
        IF i = "eth0"
        THEN {[mtu |-> 1500, bandwidth |-> 10], [mtu |-> 1500, bandwidth |-> 100],
              [mtu |-> 65536, bandwidth |-> 100]}
        ELSE {[mtu |-> 1500, bandwidth |-> 10]}]

=============================================================================
