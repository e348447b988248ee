--------------------------- MODULE EigrpInterface ---------------------------
(***************************************************************************)
(* The interfaces of eigrpd (eigrpd/eigrp_interface.c): the structure      *)
(* eigrp_interface that hangs off an interface of zebra (ifp->info), the   *)
(* hooks zebra's interface events run (eigrp_ifp_create, eigrp_ifp_up,     *)
(* eigrp_ifp_down, eigrp_ifp_destroy, eigrp_if_delete_hook) and the        *)
(* routines that bring an interface into and out of the protocol           *)
(* (eigrp_if_new, eigrp_if_up, eigrp_if_down, eigrp_if_free,               *)
(* eigrp_if_reset).                                                        *)
(*                                                                         *)
(* eigrpd is one thread: a hook, a command or a timer runs to its end, and *)
(* each is one action.  What the file calls in the rest of eigrpd (the     *)
(* packet queue, the write event, the neighbour table, the network         *)
(* command) is kept to what it does to the state of this file, and is      *)
(* marked as such where it is defined.                                     *)
(***************************************************************************)
EXTENDS Integers, Sequences, FiniteSets, SequencesExt

CONSTANTS
    Ifaces,         \* the interfaces zebra may announce
    Links,          \* Links[i]: the values [mtu, bandwidth] zebra tells of i
    Prefix,         \* Prefix[i]: the connected prefix of the address of i
    IfKind,         \* IfKind[i]: "pointopoint", "loopback" or "other"
    PassiveDefault, \* eigrp->passive_interface_default
    MaxObuf,        \* bound of the packets in ei->obuf in this model
    MaxNbr,         \* bound of the neighbours of an interface in this model
    NoEi            \* ifp->info == NULL

VARIABLES
    ifp,         \* ifp[i]: zebra's interface: its status and its link
    ei,          \* ei[i]: the eigrp_interface of ifp->info, or NoEi
    eifs,        \* eigrp->eifs: the interfaces in the hash of the process
    t_hello,     \* the interfaces whose hello event is with the event loop
    oi_write_q,  \* eigrp->oi_write_q: the interfaces with packets to write
    t_write,     \* eigrp->t_write: the write event is with the event loop
    topology     \* topology[p]: the route descriptors of prefix p; none when
                 \* the prefix is not in the topology table

vars == <<ifp, ei, eifs, t_hello, oi_write_q, t_write, topology>>

AllLinks   == UNION {Links[i] : i \in Ifaces}
Mtus       == {l.mtu : l \in AllLinks}
Bandwidths == {l.bandwidth : l \in AllLinks}
Networks == {Prefix[i] : i \in Ifaces}
Real     == {"down", "up"}
Status   == {"none", "shell"} \cup Real
IfTypes  == {"NONE", "POINTOPOINT", "LOOPBACK", "BROADCAST"}

ASSUME /\ \A i \in Ifaces : Links[i] # {}
       /\ AllLinks \subseteq [mtu : Nat, bandwidth : Nat]
       /\ Prefix \in [Ifaces -> Networks]
       /\ IfKind \in [Ifaces -> {"pointopoint", "loopback", "other"}]
       /\ PassiveDefault \in BOOLEAN
       /\ MaxObuf \in Nat /\ MaxNbr \in Nat

\* The daemon as one value, which the routines below take and give back.
D == [ifp |-> ifp, ei |-> ei, eifs |-> eifs, t_hello |-> t_hello,
      oi_write_q |-> oi_write_q, t_write |-> t_write, topology |-> topology]

\* No struct interface: what ifp[i] is before zebra or the configuration
\* names the interface and after if_delete.
Absent(i) == [status |-> "none", link |-> CHOOSE l \in Links[i] : TRUE]

-----------------------------------------------------------------------------
(* The rest of eigrpd, as far as this file calls it.                       *)

\* (eigrp_packet.c) A packet is pushed on ei->obuf, the interface joins
\* the write queue unless it is on it, and the write event is asked for.
Enqueue(d, i) ==
    [d EXCEPT !.ei[i].obuf = @ + 1,
              !.ei[i].on_write_q = TRUE,
              !.oi_write_q = IF d.ei[i].on_write_q THEN @ ELSE Append(@, i),
              !.t_write = TRUE]

\* (eigrp_hello.c) A hello is built and queued.
eigrp_hello_send(d, i) == Enqueue(d, i)

\* (eigrp_update.c) An update is queued on an interface with neighbours.
eigrp_update_send(d, i) ==
    IF d.ei[i].nbrs > 0 THEN Enqueue(d, i) ELSE d

\* (eigrp_packet.c) The write event: one packet of the first interface of
\* the queue is written; an interface whose obuf is empty leaves the queue,
\* and the event is asked for again while the queue is not empty.
eigrp_write(d) ==
    LET i    == Head(d.oi_write_q)
        left == Max({0, d.ei[i].obuf - 1})
        q    == IF left = 0 THEN Tail(d.oi_write_q) ELSE d.oi_write_q
    IN  [d EXCEPT !.ei[i].obuf = left, !.ei[i].on_write_q = (left # 0),
                  !.oi_write_q = q, !.t_write = (q # <<>>)]

-----------------------------------------------------------------------------
(* eigrp_interface.c                                                       *)

\* A new eigrp_interface: zeroed (no obuf, no type among the parameters,
\* not passive), the defaults of the parameters, and the bandwidth and MTU
\* the interface has now.
NewEi(f) ==
    [curr_mtu |-> f.link.mtu, curr_bandwidth |-> f.link.bandwidth,
     params_type |-> "NONE", passive |-> FALSE,
     fifo |-> FALSE, obuf |-> 0, on_write_q |-> FALSE,
     member_allrouters |-> FALSE, nbrs |-> 0]

\* The interface gets its eigrp_interface and joins the hash; one that has
\* it already keeps it as it is.
eigrp_if_new(d, i) ==
    IF d.ei[i] # NoEi
    THEN d
    ELSE [d EXCEPT !.ei[i] = NewEi(d.ifp[i]), !.eifs = @ \cup {i}]

\* Faulty variant: the structure is freed and left in the hash.
eigrp_if_delete_hook_in_hash(d, i) ==
    IF d.ei[i] = NoEi THEN d ELSE [d EXCEPT !.ei[i] = NoEi]

\* The neighbour table, the place in the hash and obuf go, and the
\* structure is freed.  The hello event and the write queue are not
\* looked at.
eigrp_if_delete_hook(d, i) ==
    IF d.ei[i] = NoEi
    THEN d
    ELSE [d EXCEPT !.ei[i] = NoEi, !.eifs = @ \ {i}]

eigrp_default_iftype(i) ==
    CASE IfKind[i] = "pointopoint" -> "POINTOPOINT"
      [] IfKind[i] = "loopback"    -> "LOOPBACK"
      [] OTHER                     -> "BROADCAST"

\* eigrp_if_update, which ends the hook, adds nothing to an interface that
\* has its eigrp_interface.
eigrp_ifp_create(d, i) ==
    IF d.ei[i] = NoEi
    THEN d
    ELSE [d EXCEPT !.ei[i].params_type = eigrp_default_iftype(i)]

\* Faulty variant: the three high bytes of the four.
eigrp_mtu_convert_high(host_mtu) ==
    << (host_mtu \div 16777216) % 256, (host_mtu \div 65536) % 256,
       (host_mtu \div 256) % 256 >>

\* Faulty variant: the middle byte keeps what is above it.
eigrp_mtu_convert_wide(host_mtu) ==
    << (host_mtu \div 65536) % 256, host_mtu \div 256, host_mtu % 256 >>

\* The three low bytes of the MTU, most significant first: bytes 1 to 3 of
\* htonl(host_mtu).
eigrp_mtu_convert(host_mtu) ==
    << (host_mtu \div 65536) % 256, (host_mtu \div 256) % 256,
       host_mtu % 256 >>

eigrp_if_stream_set(e) == [e EXCEPT !.fifo = TRUE]

\* Faulty variant: the flag stays set.
eigrp_if_stream_unset_flag(d, i) ==
    IF d.ei[i].on_write_q
    THEN LET q == RemoveFirst(d.oi_write_q, i)
         IN  [d EXCEPT !.oi_write_q = q,
                       !.t_write = IF q = <<>> THEN FALSE ELSE @]
    ELSE d

\* The interface leaves the write queue, and the write event is cancelled
\* when nobody is left on it.
eigrp_if_stream_unset(d, i) ==
    IF d.ei[i].on_write_q
    THEN LET q == RemoveFirst(d.oi_write_q, i)
         IN  [d EXCEPT !.oi_write_q = q,
                       !.t_write = IF q = <<>> THEN FALSE ELSE @,
                       !.ei[i].on_write_q = FALSE]
    ELSE d

eigrp_if_is_passive(e) == e.passive /\ PassiveDefault

\* The flag is set only if the join succeeded (ok) and cleared whatever
\* the leave returned.
eigrp_if_set_multicast(d, i, ok) ==
    LET e == d.ei[i]
    IN  CASE ~eigrp_if_is_passive(e) /\ ~e.member_allrouters /\ ok ->
                [d EXCEPT !.ei[i].member_allrouters = TRUE]
          [] eigrp_if_is_passive(e) /\ e.member_allrouters ->
                [d EXCEPT !.ei[i].member_allrouters = FALSE]
          [] OTHER -> d

\* The interface enters the protocol: obuf, the multicast group, the hello
\* event, and a route descriptor of its own for the connected prefix.  A
\* prefix that is new to the topology table is announced on every
\* interface of the hash, in the order of the hash (order); for a prefix
\* that is there the state machine of the prefix is run, which is outside
\* this file.
eigrp_if_up(d, i, ok, order) ==
    LET started == eigrp_if_set_multicast(
                       [d EXCEPT !.ei[i] = eigrp_if_stream_set(@)], i, ok)
        ne      == [ei |-> i, mtu |-> eigrp_mtu_convert(d.ifp[i].link.mtu)]
        added   == [started EXCEPT !.t_hello = @ \cup {i},
                                   !.topology[Prefix[i]] = @ \cup {ne}]
    IN  IF d.topology[Prefix[i]] = {}
        THEN FoldLeft(eigrp_update_send, added, order)
        ELSE added

\* Faulty variant: the neighbours stay.
eigrp_if_down_nbrs(d, i) ==
    eigrp_if_stream_unset([d EXCEPT !.t_hello = @ \ {i}], i)

\* The hello event is cancelled, the interface leaves the write queue and
\* its neighbours are deleted.  obuf keeps its packets, the topology table
\* its descriptors and the socket its group.
eigrp_if_down(d, i) ==
    [eigrp_if_stream_unset([d EXCEPT !.t_hello = @ \ {i}], i)
        EXCEPT !.ei[i].nbrs = 0]

\* Faulty variant: the connected prefix stays in the topology table.
eigrp_if_free_prefix(d, i, source) ==
    eigrp_if_down(IF source = "INTERFACE_DOWN_BY_VTY"
                  THEN eigrp_hello_send([d EXCEPT !.t_hello = @ \ {i}], i)
                  ELSE d, i)

\* The interface leaves the protocol: a last hello when the configuration
\* asked for it, the connected prefix leaves the topology table, and
\* eigrp_if_down.  The structure stays, in ifp->info and in the hash.
eigrp_if_free(d, i, source) ==
    LET said == IF source = "INTERFACE_DOWN_BY_VTY"
                THEN eigrp_hello_send([d EXCEPT !.t_hello = @ \ {i}], i)
                ELSE d
    IN  eigrp_if_down([said EXCEPT !.topology[Prefix[i]] = {}], i)

eigrp_if_reset(d, i, ok, order) ==
    IF d.ei[i] = NoEi
    THEN d
    ELSE eigrp_if_up(eigrp_if_down(d, i), i, ok, order)

\* A change of the bandwidth is taken over; a change of the MTU is taken
\* over and the interface reset, and that is all; otherwise eigrp_if_up.
eigrp_ifp_up(d, i, ok, order) ==
    LET f    == d.ifp[i].link
        seen == [d EXCEPT !.ei[i].curr_bandwidth = f.bandwidth,
                          !.ei[i].curr_mtu = f.mtu]
    IN  CASE d.ei[i] = NoEi          -> d
          [] d.ei[i] # NoEi /\ d.ei[i].curr_mtu # f.mtu
                                     -> eigrp_if_reset(seen, i, ok, order)
          [] OTHER                   -> eigrp_if_up(seen, i, ok, order)

eigrp_ifp_down(d, i) ==
    IF d.ei[i] = NoEi THEN d ELSE eigrp_if_down(d, i)

eigrp_ifp_destroy(d, i) ==
    IF d.ei[i] = NoEi THEN d ELSE eigrp_if_free(d, i, "INTERFACE_DOWN_BY_ZEBRA")

\* The eigrp_interface of the hash whose interface has the name, or none.
\* An interface is its name here, so the walk of the hash that compares the
\* names finds at most one.
eigrp_if_lookup_by_name(d, if_name) ==
    IF \E i \in d.eifs : i = if_name THEN d.ei[if_name] ELSE NoEi

-----------------------------------------------------------------------------
(* The actions.                                                            *)

\* The counters of the next state are within the bounds of the model.
Within(d) ==
    \A i \in Ifaces :
        d.ei[i] # NoEi => d.ei[i].obuf <= MaxObuf /\ d.ei[i].nbrs <= MaxNbr

Becomes(d) ==
    /\ Within(d)
    /\ ifp' = d.ifp /\ ei' = d.ei /\ eifs' = d.eifs /\ t_hello' = d.t_hello
    /\ oi_write_q' = d.oi_write_q /\ t_write' = d.t_write
    /\ topology' = d.topology

\* The daemon once zebra's message has set the interface's fields.
Told(i, status, link) ==
    [D EXCEPT !.ifp[i] = [status |-> status, link |-> link]]

\* (lib/if.c, hook if_real) zebra announces an interface.
ZebraCreate(i) ==
    /\ ifp[i].status \notin Real
    /\ \E link \in Links[i] :
         Becomes(eigrp_ifp_create(Told(i, "down", link), i))

\* (lib/if.c, hook if_up) zebra says the interface is up, with the MTU and
\* the bandwidth it has now; the message comes for an interface that is up
\* as well, when one of them changed.
ZebraUp(i) ==
    /\ ifp[i].status \in Real
    /\ \E link \in Links[i], ok \in BOOLEAN, order \in SetToSeqs(eifs) :
         Becomes(eigrp_ifp_up(Told(i, "up", link), i, ok, order))

\* (lib/if.c, hook if_down) zebra says the interface is down.
ZebraDown(i) ==
    /\ ifp[i].status = "up"
    /\ Becomes(eigrp_ifp_down(Told(i, "down", ifp[i].link), i))

\* (lib/if.c, hook if_unreal) zebra withdraws the interface, up or not;
\* the struct interface stays.
ZebraDestroy(i) ==
    /\ ifp[i].status \in Real
    /\ Becomes(eigrp_ifp_destroy(Told(i, "shell", ifp[i].link), i))

\* (lib/if.c, hook if_del) the struct interface of a withdrawn interface
\* is deleted.
IfDelete(i) ==
    /\ ifp[i].status = "shell"
    /\ Becomes([eigrp_if_delete_hook(D, i) EXCEPT !.ifp[i] = Absent(i)])

\* (eigrp_network.c) A network statement covers an address of an interface
\* that has no eigrp_interface; an operative interface is brought up.
NetworkSet(i) ==
    /\ ifp[i].status \in Real
    /\ ei[i] = NoEi
    /\ \E ok \in BOOLEAN, order \in SetToSeqs(eifs \cup {i}) :
         LET made == eigrp_if_new(D, i)
         IN  Becomes(IF ifp[i].status = "up"
                     THEN eigrp_if_up(made, i, ok, order)
                     ELSE made)

\* (eigrp_network.c) No network statement covers the interface any more.
\* eigrp_if_free queues its last hello without a look at ei->obuf (line
\* 431).  An interface that was never up has none, and the routine that
\* pushes on the queue is handed the null pointer: the daemon that writes
\* through it ends there and has no next state, so the steps of this action
\* are those of an interface with its obuf.
NetworkUnset(i) ==
    /\ i \in eifs
    /\ ei[i].fifo
    /\ Becomes(eigrp_if_free(D, i, "INTERFACE_DOWN_BY_VTY"))

\* (eigrp_hello.c) The hello event fires: a hello is queued and the event
\* is asked for again.
HelloTimer(i) ==
    /\ i \in t_hello
    /\ Becomes(eigrp_hello_send(D, i))

\* (eigrp_packet.c) The write event fires.
Write ==
    /\ t_write
    /\ oi_write_q # <<>>
    /\ Becomes(eigrp_write(D))

\* (eigrp_packet.c, eigrp_hello.c) A hello of a router not yet known
\* arrives on an interface that is up and has its eigrp_interface.  A
\* passive interface ignores it and leaves the group it was sent to; the
\* leave is asked of the kernel, whose answer is not looked at.
HelloReceived(i) ==
    /\ ifp[i].status = "up"
    /\ ei[i] # NoEi
    /\ Becomes(IF eigrp_if_is_passive(ei[i])
               THEN eigrp_if_set_multicast(D, i, TRUE)
               ELSE [D EXCEPT !.ei[i].nbrs = @ + 1])

\* (eigrp_cli.c) passive-interface, or its negation, for an interface the
\* process finds by its name.
SetPassive(i) ==
    /\ eigrp_if_lookup_by_name(D, i) # NoEi
    /\ Becomes([D EXCEPT !.ei[i].passive = ~@])

Init ==
    /\ ifp = [i \in Ifaces |-> Absent(i)]
    /\ ei = [i \in Ifaces |-> NoEi]
    /\ eifs = {}
    /\ t_hello = {}
    /\ oi_write_q = <<>>
    /\ t_write = FALSE
    /\ topology = [p \in Networks |-> {}]

Next ==
    \/ Write
    \/ \E i \in Ifaces :
         \/ ZebraCreate(i) \/ ZebraUp(i) \/ ZebraDown(i)
         \/ ZebraDestroy(i) \/ IfDelete(i)
         \/ NetworkSet(i) \/ NetworkUnset(i)
         \/ HelloTimer(i) \/ HelloReceived(i) \/ SetPassive(i)

Spec == Init /\ [][Next]_vars

-----------------------------------------------------------------------------
(* Properties.                                                             *)

Live == {i \in Ifaces : ei[i] # NoEi}

EiType ==
    [curr_mtu : Mtus, curr_bandwidth : Bandwidths, params_type : IfTypes,
     passive : BOOLEAN, fifo : BOOLEAN, obuf : 0..MaxObuf,
     on_write_q : BOOLEAN, member_allrouters : BOOLEAN, nbrs : 0..MaxNbr]

\* The type invariant; the MTU of a route descriptor is three bytes.
TypeOK ==
    /\ ifp \in [Ifaces -> [status : Status, link : AllLinks]]
    /\ ei \in [Ifaces -> EiType \cup {NoEi}]
    /\ eifs \subseteq Ifaces
    /\ t_hello \subseteq Ifaces
    /\ oi_write_q \in Seq(Ifaces)
    /\ t_write \in BOOLEAN
    /\ \A p \in Networks : \A ne \in topology[p] :
         ne.ei \in Ifaces /\ ne.mtu \in [1..3 -> 0..255]

\* Nothing points to an eigrp_interface that was freed.
\* eigrp_if_delete_hook frees the structure and takes it out of the hash
\* only: it cancels no hello event, leaves the write queue as it is and
\* touches no route descriptor.  That is safe because zebra withdraws an
\* interface (eigrp_ifp_destroy, and through it eigrp_if_free and
\* eigrp_if_down) before the interface is deleted, and nothing brings a
\* withdrawn interface back into the queue, the event loop or the topology
\* table.
NoDanglingInterface ==
    /\ eifs = Live
    /\ t_hello \subseteq Live
    /\ ToSet(oi_write_q) \subseteq Live
    /\ \A p \in Networks : \A ne \in topology[p] : ne.ei \in Live

\* The write queue, the flags and the write event agree: an interface is
\* on eigrp->oi_write_q, once, exactly if its on_write_q is set, it has a
\* packet in obuf then, and the write event is with the event loop exactly
\* if the queue is not empty.  eigrp_if_stream_unset takes an interface out
\* in the middle of that, and eigrp_if_free queues a hello a few lines
\* before eigrp_if_down takes the interface off the queue again.
WriteQueueConsistent ==
    /\ \A i \in Live :
         /\ ei[i].on_write_q <=> i \in ToSet(oi_write_q)
         /\ ei[i].on_write_q => ei[i].fifo /\ ei[i].obuf > 0
    /\ Cardinality(ToSet(oi_write_q)) = Len(oi_write_q)
    /\ t_write <=> oi_write_q # <<>>

\* An interface that is not up is out of the protocol: whatever order
\* zebra's events and the network commands came in, an eigrp_interface
\* whose interface is down or withdrawn has no hello event, no neighbours
\* and no place on the write queue (eigrp_ifp_down, eigrp_ifp_destroy,
\* eigrp_if_free, eigrp_if_down).
QuietUnlessUp ==
    \A i \in Live :
        ifp[i].status # "up"
            => i \notin t_hello /\ ei[i].nbrs = 0 /\ ~ei[i].on_write_q

\* The MTU three bytes stand for.
MtuOf(bytes) == bytes[1] * 65536 + bytes[2] * 256 + bytes[3]

\* An interface that says hello is in the topology table as its link is
\* now: its connected prefix has a route descriptor of the interface with
\* the MTU zebra last told, in the 24 bits the protocol carries, and
\* curr_mtu and curr_bandwidth are those of the interface.  eigrp_ifp_up
\* resets the interface when the MTU changed, eigrp_if_free takes the
\* prefix out and eigrp_if_up puts it back.
RunningTracksLink ==
    \A i \in t_hello :
        /\ ei[i].curr_mtu = ifp[i].link.mtu
        /\ ei[i].curr_bandwidth = ifp[i].link.bandwidth
        /\ \E ne \in topology[Prefix[i]] :
             ne.ei = i /\ MtuOf(ne.mtu) = ifp[i].link.mtu % 16777216

=============================================================================
