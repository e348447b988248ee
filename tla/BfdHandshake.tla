---------------------------- MODULE BfdHandshake ----------------------------
(***************************************************************************)
(* What two BFD sessions promise of their state (RFC 5880 6.2 and 6.8.6),  *)
(* whatever the implementation does with discriminators, timers, polls and *)
(* the validation of packets: a session changes state only as the state    *)
(* diagram allows for a packet that is on its way to it, by a timeout or   *)
(* by its operator, and every packet it sends announces the state it is in *)
(* when the step that sends it is over.                                    *)
(*                                                                         *)
(* The link keeps the order of what it carries and may lose any of it.     *)
(* BfdLink, which joins two instances of the packet engine, implements     *)
(* this specification.                                                     *)
(***************************************************************************)
EXTENDS Naturals, Sequences

CONSTANTS
    Ends,       \* the two sessions
    Peer,       \* Peer[e]: the session at the other end of the link
    MaxBurst    \* the most packets one received packet is answered with

VARIABLES
    st,         \* st[e]: the state of session e
    chan        \* chan[e]: the states announced to e and not yet heard

hvars == <<st, chan>>

SessionStates == {"ADM_DOWN", "DOWN", "INIT", "UP"}

ASSUME /\ Peer \in [Ends -> Ends]
       /\ \A e \in Ends : Peer[e] # e /\ Peer[Peer[e]] = e
       /\ MaxBurst \in Nat

\* The state diagram of RFC 5880 6.2: where a session in state s goes when
\* it hears that its peer is in state h.
Heard(s, h) ==
    CASE s = "DOWN" /\ h = "DOWN"                -> "INIT"
      [] s = "DOWN" /\ h = "INIT"                -> "UP"
      [] s = "INIT" /\ h \in {"INIT", "UP"}      -> "UP"
      [] s = "INIT" /\ h = "ADM_DOWN"            -> "DOWN"
      [] s = "UP"   /\ h \in {"ADM_DOWN", "DOWN"} -> "DOWN"
      [] OTHER                                   -> s

\* Session e goes to state new, is left with rest to hear, and announces
\* its new state at most most times.
Becomes(e, new, rest, most) ==
    \E n \in 0..most :
        /\ st' = [st EXCEPT ![e] = new]
        /\ chan' = [chan EXCEPT ![e] = rest,
                                ![Peer[e]] = @ \o [i \in 1..n |-> new]]

\* The periodic transmission; a session that is shut down is silent.
Announce(e) ==
    /\ st[e] # "ADM_DOWN"
    /\ Becomes(e, st[e], chan[e], 1)

\* A packet arrives: the session follows the state diagram, or discards the
\* packet, and may answer at once.
Hear(e) ==
    /\ chan[e] # <<>>
    /\ \E new \in {st[e], Heard(st[e], Head(chan[e]))} :
         Becomes(e, new, Tail(chan[e]), MaxBurst)

\* The link loses the packet that would arrive next.
Lose(e) ==
    /\ chan[e] # <<>>
    /\ chan' = [chan EXCEPT ![e] = Tail(@)]
    /\ UNCHANGED st

\* The detection time expires.
Timeout(e) ==
    /\ st[e] \in {"INIT", "UP"}
    /\ Becomes(e, "DOWN", chan[e], 1)

\* The operator shuts the session down, or enables it again.
AdminDown(e) ==
    /\ st[e] # "ADM_DOWN"
    /\ Becomes(e, "ADM_DOWN", chan[e], 1)

AdminUp(e) ==
    /\ st[e] = "ADM_DOWN"
    /\ Becomes(e, "DOWN", chan[e], 0)

Init ==
    /\ st = [e \in Ends |-> "DOWN"]
    /\ chan = [e \in Ends |-> <<>>]

Next ==
    \E e \in Ends :
        \/ Announce(e)
        \/ Hear(e)
        \/ Lose(e)
        \/ Timeout(e)
        \/ AdminDown(e)
        \/ AdminUp(e)

Spec == Init /\ [][Next]_hvars

=============================================================================
