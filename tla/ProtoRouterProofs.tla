-------------------------- MODULE ProtoRouterProofs -------------------------
(***************************************************************************)
(* Proofs about ProtoRouter, for every network, range of public ports and  *)
(* identifiers, and timeout: no packet is left behind in the waiting       *)
(* queue, packets keep their order, the two tables keep what NatHandler    *)
(* promises, the flows that are installed agree with the NAT table, and no *)
(* entry of it outlives its flows.                                         *)
(***************************************************************************)
EXTENDS ProtoRouter, SequenceTheorems, TLAPS

-----------------------------------------------------------------------------
(* What handling an IP packet does to the state outside of the NAT table:  *)
(* it joins one queue, that of an address without an entry, or none.       *)
LEMMA HandleIpQueues ==
  ASSUME NEW pkt, handle_ip(pkt)
  PROVE  /\ arp_table' = arp_table
         /\ \/ UNCHANGED waiting_queue
            \/ \E a : ~Resolved(a) /\ enqueue_packet(a, pkt)
<1>1. ASSUME NEW a, AwaitArp(a, pkt)
      PROVE  arp_table' = arp_table /\ ~Resolved(a) /\ enqueue_packet(a, pkt)
  BY <1>1 DEF AwaitArp
<1>2. CASE UNCHANGED arpVars
  BY <1>2 DEF arpVars
<1>3. (\E a : AwaitArp(a, pkt)) \/ UNCHANGED arpVars
  BY DEF handle_ip, _handle_outgoing, _handle_incoming, IncomingEcho,
         _handle_private_to_private
<1> QED
  BY <1>1, <1>2, <1>3

(* ... and what it does to the NAT table: one of NatHandler's operations,  *)
(* or nothing.                                                             *)
LEMMA HandleIpTable ==
  ASSUME NEW pkt, handle_ip(pkt)
  PROVE  [NAT!Next]_(NAT!vars)
<1>1. CASE pkt \in Outgoing /\ \E k \in NAT!Keys : NAT!create_pat_entry(k)
  BY <1>1 DEF NAT!Next
<1>2. CASE pkt \in Incoming /\ NAT!get_reverse_entry(pkt.proto, pkt.dport)
  <2>1. pkt.proto \in Protocols /\ pkt.dport \in NAT!Ports
    BY <1>2 DEF Incoming, Header
  <2> QED
    BY <1>2, <2>1 DEF NAT!Next
<1>3. CASE UNCHANGED natVars
  BY <1>3 DEF natVars, NAT!vars
<1>4. ASSUME pkt \in Outgoing PROVE <<pkt.proto, pkt.src, pkt.sport>> \in NAT!Keys
  BY <1>4 DEF Outgoing, Header, NAT!Keys
<1> QED
  BY <1>1, <1>2, <1>3, <1>4 DEF handle_ip, _handle_outgoing, OpenSession,
       _handle_incoming, IncomingEcho, _handle_private_to_private

(* ... and to the ICMP table.                                              *)
LEMMA HandleIpEcho ==
  ASSUME NEW pkt, handle_ip(pkt)
  PROVE  [ICMP!Next]_(ICMP!icmpVars)
<1>1. CASE pkt \in EchoOut /\ ICMP!create_entry(pkt.src, pkt.sport)
  <2>1. pkt.src \in Hosts /\ pkt.sport \in Identifiers
    BY <1>1 DEF EchoOut, Header
  <2> QED
    BY <1>1, <2>1 DEF ICMP!Next
<1>2. CASE pkt \in EchoIn /\ ICMP!get_reverse_entry(pkt.dport)
  <2>1. pkt.dport \in ICMP!Table!Ports
    BY <1>2 DEF EchoIn, Header, ICMP!Table!Ports
  <2> QED
    BY <1>2, <2>1 DEF ICMP!Next
<1>3. CASE UNCHANGED icmpVars
  BY <1>3 DEF icmpVars, ICMP!icmpVars
<1> QED
  BY <1>1, <1>2, <1>3 DEF handle_ip, _handle_outgoing, _handle_incoming,
       IncomingEcho, _handle_private_to_private

-----------------------------------------------------------------------------
(* A queue that is joined: the others stay, and it only gets longer.       *)
LEMMA EnqueueExtends ==
  ASSUME NEW a, NEW pkt, enqueue_packet(a, pkt),
         \A b \in DOMAIN waiting_queue : waiting_queue[b] \in Seq(Packets),
         pkt \in Packets,
         NEW b \in DOMAIN waiting_queue
  PROVE  /\ b \in DOMAIN waiting_queue'
         /\ Len(waiting_queue[b]) =< Len(waiting_queue'[b])
         /\ waiting_queue[b] = SubSeq(waiting_queue'[b], 1, Len(waiting_queue[b]))
         /\ waiting_queue'[b] \in Seq(Packets)
<1> DEFINE P == Packets
           q == waiting_queue[b]
<1>1. q \in Seq(P) /\ pkt \in P
  OBVIOUS
<1>2. /\ b \in DOMAIN waiting_queue'
      /\ waiting_queue'[b] = IF b = a THEN Append(q, pkt) ELSE q
  BY DEF enqueue_packet, Waiting
<1> HIDE DEF P, q
<1>3. q = SubSeq(q, 1, Len(q))
  BY <1>1, SubSeqFull
<1>4. /\ Append(q, pkt) \in Seq(P)
      /\ Len(Append(q, pkt)) = Len(q) + 1
      /\ \A i \in 1..Len(q) : Append(q, pkt)[i] = q[i]
  BY <1>1, AppendProperties
<1>5. SubSeq(Append(q, pkt), 1, Len(q)) = q
  BY <1>1, SMT
<1> QED
  BY <1>1, <1>2, <1>3, <1>4, <1>5, SMT DEF P, q

-----------------------------------------------------------------------------
(* The inductive invariant of the waiting packets: the queues hold packets *)
(* that handle_ip can handle, and none belongs to a resolved address.      *)
QueueInv ==
  /\ \A a \in DOMAIN waiting_queue : waiting_queue[a] \in Seq(Packets)
  /\ resuming \in Seq(Packets)
  /\ NothingWaitsForKnown

(* Handling a packet keeps what QueueInv says of the queues.               *)
LEMMA HandleIpKeepsQueues ==
  ASSUME QueueInv, NEW pkt \in Packets, handle_ip(pkt)
  PROVE  /\ \A a \in DOMAIN waiting_queue' : waiting_queue'[a] \in Seq(Packets)
         /\ NothingWaitsForKnown'
<1> DEFINE P == Packets
<1>1. CASE UNCHANGED waiting_queue
  BY <1>1, HandleIpQueues DEF QueueInv, NothingWaitsForKnown
<1>2. ASSUME NEW a, ~Resolved(a), enqueue_packet(a, pkt)
      PROVE  /\ \A b \in DOMAIN waiting_queue' : waiting_queue'[b] \in Seq(P)
             /\ NothingWaitsForKnown'
  <2>1. DOMAIN waiting_queue' = DOMAIN waiting_queue \cup {a}
    BY <1>2 DEF enqueue_packet
  <2>2. ASSUME NEW b \in DOMAIN waiting_queue PROVE waiting_queue'[b] \in Seq(P)
    BY <1>2, EnqueueExtends DEF QueueInv
  <2>3. ASSUME a \notin DOMAIN waiting_queue PROVE waiting_queue'[a] \in Seq(P)
    <3>1. waiting_queue'[a] = Append(<<>>, pkt)
      BY <1>2, <2>3 DEF enqueue_packet, Waiting
    <3>2. pkt \in P
      OBVIOUS
    <3> HIDE DEF P
    <3>3. Append(<<>>, pkt) \in Seq(P)
      BY <3>2, EmptySeq, AppendProperties
    <3> QED
      BY <3>1, <3>3 DEF P
  <2>4. NothingWaitsForKnown'
    BY <1>2, <2>1, HandleIpQueues DEF QueueInv, NothingWaitsForKnown, Resolved
  <2> QED
    BY <2>1, <2>2, <2>3, <2>4
<1> QED
  BY <1>1, <1>2, HandleIpQueues

(* The invariant is inductive.                                             *)
LEMMA QueueInvInit == ASSUME Init PROVE QueueInv
<1>1. waiting_queue = <<>> /\ arp_table = <<>> /\ resuming = <<>>
  BY DEF Init, ArpInit
<1>2. DOMAIN waiting_queue = {}
  BY <1>1
<1> QED
  BY <1>1, <1>2 DEF QueueInv, NothingWaitsForKnown

(* Learning an address empties its queue, and resumes it as a whole.       *)
LEMMA HandleArpQueues ==
  ASSUME QueueInv, NEW a, handle_arp(a)
  PROVE  /\ QueueInv'
         /\ DOMAIN waiting_queue' = DOMAIN waiting_queue \ {a}
         /\ \A b \in DOMAIN waiting_queue' : waiting_queue'[b] = waiting_queue[b]
         /\ a \in DOMAIN waiting_queue => resuming' = waiting_queue[a]
<1>1. waiting_queue' = [b \in DOMAIN waiting_queue \ {a} |-> waiting_queue[b]]
  BY DEF handle_arp, dequeue_packets, Restrict
<1>2. DOMAIN arp_table' = Fresh \cup {a} /\ Fresh \subseteq DOMAIN arp_table
  BY DEF handle_arp, learn_arp_entry, Fresh
<1>3. resuming' = Waiting(a) /\ Waiting(a) \in Seq(Packets)
  BY DEF handle_arp, QueueInv, Waiting
<1> QED
  BY <1>1, <1>2, <1>3 DEF QueueInv, NothingWaitsForKnown, Waiting

(* Every step of the router keeps the invariant.                           *)
LEMMA QueueInvNext == ASSUME QueueInv, [Next]_vars PROVE QueueInv'
<1>1. ASSUME NEW pkt \in Packets, PacketIn(pkt) PROVE QueueInv'
  <2>1. handle_ip(pkt) /\ resuming' = resuming
    BY <1>1 DEF PacketIn
  <2> QED
    BY <2>1, HandleIpKeepsQueues DEF QueueInv
<1>2. ASSUME NEW a \in Addresses, handle_arp(a) PROVE QueueInv'
  BY <1>2, HandleArpQueues
<1>3. CASE ResumeNext
  <2> DEFINE P == Packets
  <2>1. resuming \in Seq(P) /\ resuming # <<>> /\ resuming' = Tail(resuming)
    BY <1>3 DEF ResumeNext, QueueInv
  <2>2. handle_ip(Head(resuming))
    BY <1>3 DEF ResumeNext
  <2> HIDE DEF P
  <2>3. Head(resuming) \in P /\ Tail(resuming) \in Seq(P)
    BY <2>1, HeadTailProperties
  <2> QED
    BY <2>1, <2>2, <2>3, HandleIpKeepsQueues DEF QueueInv, P
<1>4. ASSUME NEW m \in DOMAIN flows, Forward(m) PROVE QueueInv'
  BY <1>4 DEF Forward, arpVars, QueueInv, NothingWaitsForKnown
<1>5. CASE Tick
  BY <1>5 DEF Tick, ArpTick, QueueInv, NothingWaitsForKnown
<1>6. CASE UNCHANGED <<arpVars, resuming>>
  BY <1>6 DEF arpVars, QueueInv, NothingWaitsForKnown
<1> QED
  BY <1>1, <1>2, <1>3, <1>4, <1>5, <1>6 DEF Next, LoseRequest, vars

-----------------------------------------------------------------------------
(* No packet is left behind in the queue of an address that is resolved.   *)
THEOREM NothingLeftBehind == Spec => []NothingWaitsForKnown
<1>1. Init => QueueInv
  BY QueueInvInit
<1>2. QueueInv /\ [Next]_vars => QueueInv'
  BY QueueInvNext
<1>3. QueueInv => NothingWaitsForKnown
  BY DEF QueueInv
<1> QED
  BY <1>1, <1>2, <1>3, PTL DEF Spec

(* A queue that a step leaves alone satisfies WaitingInOrder.              *)
LEMMA QueueStays ==
  ASSUME QueueInv, UNCHANGED waiting_queue, NEW a \in DOMAIN waiting_queue
  PROVE  /\ a \in DOMAIN waiting_queue'
         /\ Len(waiting_queue[a]) =< Len(waiting_queue'[a])
         /\ waiting_queue[a] = SubSeq(waiting_queue'[a], 1, Len(waiting_queue[a]))
<1> DEFINE q == waiting_queue[a]
           P == Packets
<1>1. q \in Seq(P) /\ waiting_queue'[a] = q
  BY DEF QueueInv
<1> HIDE DEF q, P
<1>2. q = SubSeq(q, 1, Len(q)) /\ Len(q) \in Nat
  BY <1>1, SubSeqFull
<1> QED
  BY <1>1, <1>2 DEF q

(* Packets that wait for an address keep their order; none is lost and     *)
(* none is handled twice.                                                  *)
THEOREM KeepsOrder == Spec => WaitingInOrder
<1> USE DEF Extends, Resumes
<1>1. ASSUME QueueInv, [Next]_vars PROVE InOrder
  <2> USE DEF InOrder
  <2>1. ASSUME NEW pkt \in Packets, handle_ip(pkt),
               NEW a \in DOMAIN waiting_queue
        PROVE  Extends(a)
    <3>1. CASE UNCHANGED waiting_queue
      BY <1>1, <3>1, QueueStays
    <3>2. ASSUME NEW b, enqueue_packet(b, pkt) PROVE Extends(a)
      BY <1>1, <3>2, EnqueueExtends DEF QueueInv
    <3> QED
      BY <2>1, <3>1, <3>2, HandleIpQueues
  <2>2. ASSUME NEW pkt \in Packets, PacketIn(pkt) PROVE InOrder
    BY <2>1, <2>2 DEF PacketIn
  <2>3. ASSUME NEW a \in Addresses, handle_arp(a) PROVE InOrder
    <3>1. resuming = <<>>
      BY <2>3 DEF handle_arp
    <3>2. ASSUME NEW b \in DOMAIN waiting_queue, b # a PROVE Extends(b)
      <4> DEFINE q == waiting_queue[b]
                 P == Packets
      <4>1. q \in Seq(P) /\ b \in DOMAIN waiting_queue' /\ waiting_queue'[b] = q
        BY <1>1, <2>3, <3>2, HandleArpQueues DEF QueueInv
      <4> HIDE DEF q, P
      <4>2. q = SubSeq(q, 1, Len(q)) /\ Len(q) \in Nat
        BY <4>1, SubSeqFull
      <4> QED
        BY <4>1, <4>2 DEF q
    <3>3. a \in DOMAIN waiting_queue => Resumes(a)
      BY <1>1, <2>3, HandleArpQueues
    <3> QED
      BY <3>1, <3>2, <3>3
  <2>4. CASE ResumeNext
    <3> DEFINE P == Packets
    <3>1. resuming \in Seq(P) /\ resuming # <<>>
      BY <1>1, <2>4 DEF ResumeNext, QueueInv
    <3> HIDE DEF P
    <3>2. Head(resuming) \in P
      BY <3>1, HeadTailProperties
    <3> QED
      BY <2>1, <2>4, <3>2 DEF ResumeNext, P
  <2>5. CASE UNCHANGED <<waiting_queue, resuming>>
    BY <1>1, <2>5, QueueStays
  <2> QED
    BY <1>1, <2>2, <2>3, <2>4, <2>5
       DEF Next, Forward, LoseRequest, Tick, ArpTick, vars, arpVars
<1>2. QueueInv /\ [Next]_vars => [InOrder]_vars
  BY <1>1
<1>3. Init => QueueInv
  BY QueueInvInit
<1>4. QueueInv /\ [Next]_vars => QueueInv'
  BY QueueInvNext
<1> QED
  BY <1>2, <1>3, <1>4, PTL DEF Spec, WaitingInOrder

(* Every step of the router is an operation of its ICMP table, or leaves   *)
(* the table alone.                                                        *)
LEMMA IcmpStep == ASSUME [Next]_vars PROVE [ICMP!Next]_(ICMP!icmpVars)
<1>1. ASSUME NEW pkt, PacketIn(pkt) PROVE [ICMP!Next]_(ICMP!icmpVars)
  BY <1>1, HandleIpEcho DEF PacketIn
<1>2. CASE ResumeNext
  BY <1>2, HandleIpEcho DEF ResumeNext
<1>3. CASE Tick
  BY <1>3 DEF Tick, ICMP!Next
<1>4. CASE UNCHANGED icmpVars
  BY <1>4 DEF icmpVars, ICMP!icmpVars
<1> QED
  BY <1>1, <1>2, <1>3, <1>4 DEF Next, handle_arp, LoseRequest, Forward, vars

(* The same of its NAT table.                                              *)
LEMMA NatStep == ASSUME [Next]_vars PROVE [NAT!Next]_(NAT!vars)
<1>1. ASSUME NEW pkt, PacketIn(pkt) PROVE [NAT!Next]_(NAT!vars)
  BY <1>1, HandleIpTable DEF PacketIn
<1>2. CASE ResumeNext
  BY <1>2, HandleIpTable DEF ResumeNext
<1>3. CASE Tick
  BY <1>3 DEF Tick, NAT!Next
<1>4. CASE UNCHANGED natVars
  BY <1>4 DEF natVars, NAT!vars
<1> QED
  BY <1>1, <1>2, <1>3, <1>4 DEF Next, handle_arp, LoseRequest, Forward, vars

-----------------------------------------------------------------------------
(* The theorems about NatHandler, read in the two tables of the router.    *)
NATP == INSTANCE NatHandlerProofs
ICMPP == INSTANCE NatHandlerProofs WITH
  Protocols <- {"ICMP"}, PrivatePorts <- Identifiers,
  PAT_PORT_MIN <- ICMP_ID_MIN, PAT_PORT_MAX <- ICMP_ID_MAX,
  nat_table <- icmp_table, reverse_nat <- reverse_icmp,
  public_port_pool <- icmp_id_pool, answer <- icmp_answer

TablesInv == NATP!NatInv /\ ICMPP!NatInv

LEMMA SameOperations ==
  ASSUME NEW k, NEW pr, NEW p
  PROVE  /\ NAT!create_pat_entry(k) => NATP!create_pat_entry(k)
         /\ NAT!get_reverse_entry(pr, p) => NATP!get_reverse_entry(pr, p)
  BY Zenon DEF NAT!create_pat_entry, NAT!get_reverse_entry, NAT!ReturnEntry,
     NAT!NewEntry, NAT!NoPortLeft, NAT!Kept, NAT!Expired, NAT!ReapedTable,
     NAT!ReapedReverse, NAT!ReapedPool, NAT!Released, NAT!Restrict,
     NAT!IsLeast, NAT!Ports, NAT!ReverseKey, NATP!create_pat_entry,
     NATP!get_reverse_entry, NATP!ReturnEntry, NATP!NewEntry, NATP!NoPortLeft,
     NATP!Kept, NATP!Expired, NATP!ReapedTable, NATP!ReapedReverse,
     NATP!ReapedPool, NATP!Released, NATP!Restrict, NATP!IsLeast, NATP!Ports,
     NATP!ReverseKey

LEMMA SameNat == [NAT!Next]_(NAT!vars) => [NATP!Next]_(NATP!vars)
  BY SameOperations DEF NAT!Next, NATP!Next, NAT!Tick, NATP!Tick, NAT!vars, NATP!vars,
     NAT!Keys, NATP!Keys, NAT!Ports, NATP!Ports

LEMMA SameIcmp == [ICMP!Next]_(ICMP!icmpVars) => [ICMPP!Next]_(ICMPP!vars)
<1>1. ICMP!Next => ICMPP!Next
  <2>1. ASSUME NEW ip \in Hosts, NEW id \in Identifiers, ICMP!create_entry(ip, id)
        PROVE  ICMPP!Next
    <3>1. <<"ICMP", ip, id>> \in ICMPP!Keys
      BY DEF ICMPP!Keys
    <3>2. ICMPP!create_pat_entry(<<"ICMP", ip, id>>)
      BY <2>1, Zenon DEF ICMP!create_entry, ICMP!Table!create_pat_entry,
         ICMP!Table!ReturnEntry, ICMP!Table!NewEntry, ICMP!Table!NoPortLeft,
         ICMP!Table!Kept, ICMP!Table!Expired, ICMP!Table!ReapedTable,
         ICMP!Table!ReapedReverse, ICMP!Table!ReapedPool, ICMP!Table!Released,
         ICMP!Table!Restrict, ICMP!Table!IsLeast, ICMP!Table!Ports,
         ICMP!Table!ReverseKey, ICMPP!create_pat_entry, ICMPP!ReturnEntry,
         ICMPP!NewEntry, ICMPP!NoPortLeft, ICMPP!Kept, ICMPP!Expired,
         ICMPP!ReapedTable, ICMPP!ReapedReverse, ICMPP!ReapedPool,
         ICMPP!Released, ICMPP!Restrict, ICMPP!IsLeast, ICMPP!Ports,
         ICMPP!ReverseKey
    <3> QED
      BY <3>1, <3>2 DEF ICMPP!Next
  <2>2. ASSUME NEW id \in ICMP!Table!Ports, ICMP!get_reverse_entry(id)
        PROVE  ICMPP!Next
    <3>1. id \in ICMPP!Ports /\ "ICMP" \in {"ICMP"}
      BY DEF ICMP!Table!Ports, ICMPP!Ports
    <3>2. ICMPP!get_reverse_entry("ICMP", id)
      BY <2>2, Zenon DEF ICMP!get_reverse_entry, ICMP!Table!get_reverse_entry, ICMP!Table!Kept,
     ICMP!Table!Expired, ICMP!Table!ReapedTable, ICMP!Table!ReapedReverse,
     ICMP!Table!ReapedPool, ICMP!Table!Released, ICMP!Table!Restrict,
     ICMP!Table!Ports, ICMP!Table!ReverseKey, ICMPP!get_reverse_entry,
     ICMPP!Kept, ICMPP!Expired, ICMPP!ReapedTable, ICMPP!ReapedReverse,
     ICMPP!ReapedPool, ICMPP!Released, ICMPP!Restrict, ICMPP!Ports,
     ICMPP!ReverseKey
    <3> QED
      BY <3>1, <3>2 DEF ICMPP!Next
  <2>3. ICMP!Tick => ICMPP!Next
    BY DEF ICMP!Tick, ICMP!Table!Tick, ICMPP!Tick, ICMPP!Next
  <2> QED
    BY <2>1, <2>2, <2>3 DEF ICMP!Next
<1> QED
  BY <1>1 DEF ICMP!icmpVars, ICMPP!vars

(* The two tables are well-formed and agree with their pools in every      *)
(* state of the router.                                                    *)
LEMMA TablesInit == ASSUME Init PROVE TablesInv
<1>1. NATP!Init
  BY DEF Init, NAT!Init, NATP!Init, NAT!Ports, NATP!Ports
<1>2. ICMPP!Init
  BY DEF Init, ICMP!Init, ICMP!Table!Init, ICMPP!Init, ICMP!Table!Ports, ICMPP!Ports
<1>3. NATP!NatInv
  BY <1>1, NATP!InitNat, RouterPortsAssumption, EntryTimeoutAssumption
<1>4. ICMPP!NatInv
  BY <1>2, ICMPP!InitNat, IdentifiersAssumption, EntryTimeoutAssumption
<1> QED
  BY <1>3, <1>4 DEF TablesInv

LEMMA TablesNext == ASSUME TablesInv, [Next]_vars PROVE TablesInv'
<1>1. NATP!NatInv'
  BY NatStep, SameNat, NATP!NextPreserves, RouterPortsAssumption, EntryTimeoutAssumption
     DEF TablesInv
<1>2. ICMPP!NatInv'
  BY IcmpStep, SameIcmp, ICMPP!NextPreserves, IdentifiersAssumption, EntryTimeoutAssumption
     DEF TablesInv
<1> QED
  BY <1>1, <1>2 DEF TablesInv

-----------------------------------------------------------------------------
(* The shape of the ARP table and of the queues: only the hosts are in the *)
(* table, so that a packet to an address that no host has, the router's    *)
(* own among them, waits for ever.                                         *)
ArpInv ==
  /\ DOMAIN arp_table \subseteq Addresses
  /\ arp_table \in [DOMAIN arp_table -> 0..(ENTRY_TIMEOUT + 1)]
  /\ DOMAIN waiting_queue \subseteq Addresses \cup {PRIVATE_IP} \cup Silent
  /\ asked \subseteq Addresses
  /\ waiting_queue = [a \in DOMAIN waiting_queue |-> waiting_queue[a]]

(* A packet waits for an address of the network, for one that nobody has,  *)
(* or for the private gateway.                                             *)
Awaited == Addresses \cup {PRIVATE_IP} \cup Silent

LEMMA HandleIpAwaits ==
  ASSUME TablesInv', NEW pkt \in Packets, handle_ip(pkt)
  PROVE  \/ UNCHANGED <<arpVars, asked>>
         \/ \E a \in Awaited : AwaitArp(a, pkt)
<1> USE DEF Awaited
<1>1. ASSUME pkt \in Outgoing \cup EchoOut PROVE pkt.dst \in Addresses \cup Silent
  BY <1>1, AddressAssumption DEF Outgoing, EchoOut, Header
<1>2. ASSUME pkt \in Local PROVE pkt.dst \in Addresses \cup {PRIVATE_IP}
  <2>1. PICK q \in LocalPairs : pkt = LocalHeader(q[1], q[2])
    BY <1>2 DEF Local
  <2>2. pkt.dst = q[2] /\ q[2] \in Hosts \cup {PRIVATE_IP}
    BY <2>1, AddressAssumption DEF LocalHeader, Header
  <2> QED
    BY <2>2, AddressAssumption
<1>3. ASSUME NEW e \in answer' PROVE e.key[2] \in Addresses
  <2>1. e.key \in NATP!Keys
    BY <1>3 DEF TablesInv, NATP!NatInv, NATP!TypeOK
  <2> QED
    BY <2>1, AddressAssumption DEF NATP!Keys
<1>4. ASSUME NEW e \in icmp_answer' PROVE e.key[2] \in Addresses
  <2>1. e.key \in ICMPP!Keys
    BY <1>4 DEF TablesInv, ICMPP!NatInv, ICMPP!TypeOK
  <2> QED
    BY <2>1, AddressAssumption DEF ICMPP!Keys
<1>5. CASE _handle_outgoing(pkt)
  BY <1>1, <1>5 DEF _handle_outgoing
<1>6. CASE _handle_incoming(pkt)
  <2>1. CASE IncomingEcho(pkt)
    BY <1>4, <2>1 DEF IncomingEcho, arpVars
  <2>2. CASE ~IncomingEcho(pkt)
    BY <1>3, <1>6, <2>2 DEF _handle_incoming, arpVars
  <2> QED
    BY <2>1, <2>2
<1>7. CASE _handle_private_to_private(pkt)
  BY <1>2, <1>7 DEF _handle_private_to_private
<1> QED
  BY <1>5, <1>6, <1>7 DEF handle_ip

LEMMA ArpInvInit == ASSUME Init PROVE ArpInv
  BY DEF Init, ArpInit, ArpInv

LEMMA HandleIpKeepsArp ==
  ASSUME ArpInv, TablesInv', NEW pkt \in Packets, handle_ip(pkt) PROVE ArpInv'
<1>1. CASE UNCHANGED <<arpVars, asked>>
  BY <1>1 DEF ArpInv, arpVars
<1>2. ASSUME NEW a \in Awaited, AwaitArp(a, pkt) PROVE ArpInv'
  BY <1>2 DEF AwaitArp, enqueue_packet, ArpInv, Awaited
<1> QED
  BY <1>1, <1>2, HandleIpAwaits

LEMMA ArpInvNext ==
  ASSUME ArpInv, QueueInv, TablesInv', [Next]_vars PROVE ArpInv'
<1>1. ASSUME NEW pkt \in Packets, PacketIn(pkt) PROVE ArpInv'
  BY <1>1, HandleIpKeepsArp DEF PacketIn
<1>2. CASE ResumeNext
  <2> DEFINE P == Packets
  <2>1. resuming \in Seq(P) /\ resuming # <<>> /\ handle_ip(Head(resuming))
    BY <1>2 DEF ResumeNext, QueueInv
  <2> HIDE DEF P
  <2>2. Head(resuming) \in P
    BY <2>1, HeadTailProperties
  <2> QED
    BY <2>1, <2>2, HandleIpKeepsArp DEF P
<1>3. ASSUME NEW a \in Addresses, handle_arp(a) PROVE ArpInv'
  <2>1. /\ DOMAIN waiting_queue' = DOMAIN waiting_queue \ {a}
        /\ waiting_queue' = [b \in DOMAIN waiting_queue' |-> waiting_queue'[b]]
    BY <1>3 DEF handle_arp, dequeue_packets, Restrict
  <2>2. /\ DOMAIN arp_table' \subseteq Addresses
        /\ arp_table' \in [DOMAIN arp_table' -> 0..(ENTRY_TIMEOUT + 1)]
    BY <1>3, EntryTimeoutAssumption DEF handle_arp, learn_arp_entry, Fresh, ArpInv
  <2>3. asked' \subseteq Addresses
    BY <1>3 DEF handle_arp, ArpInv
  <2> QED
    BY <2>1, <2>2, <2>3 DEF ArpInv
<1>4. CASE Tick
  <2>1. arp_table' \in [DOMAIN arp_table -> 0..(ENTRY_TIMEOUT + 1)]
    BY <1>4, EntryTimeoutAssumption DEF Tick, ArpTick, Older, ArpInv
  <2> QED
    BY <1>4, <2>1 DEF Tick, ArpTick, ArpInv
<1>5. CASE UNCHANGED <<arpVars, asked>>
  BY <1>5 DEF ArpInv, arpVars
<1>6. ASSUME NEW a \in Addresses, LoseRequest(a) PROVE ArpInv'
  BY <1>6 DEF LoseRequest, ArpInv, arpVars
<1> QED
  BY <1>1, <1>2, <1>3, <1>4, <1>5, <1>6 DEF Next, Forward, vars

-----------------------------------------------------------------------------
(* The flows of the switch.                                                *)

LocalHeaders == {LocalHeader(a, b) : a \in Addresses, b \in Addresses}

(* A flow is the record that _install_flow makes. *)
FlowsInv ==
  /\ DOMAIN flows \subseteq Outgoing \cup Incoming \cup LocalHeaders
  /\ \A m \in DOMAIN flows :
       /\ flows[m] = [to |-> flows[m].to, idle |-> flows[m].idle]
       /\ flows[m].idle \in 0..ENTRY_TIMEOUT

(* A new set of flows: each of them is there, and all others stay. *)
LEMMA InstallFlow ==
  ASSUME NEW new, _install_flow(new)
  PROVE  /\ DOMAIN flows' = DOMAIN new \cup DOMAIN flows
         /\ \A m \in DOMAIN new : flows'[m] = [to |-> new[m], idle |-> 0]
         /\ \A m \in DOMAIN flows \ DOMAIN new : flows'[m] = flows[m]
  BY DEF _install_flow

(* Both flows of a session are what the table says, and answer each other. *)
LEMMA PairAgrees ==
  ASSUME FlowsInv, NEW k \in NAT!Keys, NEW p \in NAT!Ports, NEW r \in Remotes,
         NEW d \in RemotePorts, InstallPair(k, p, r, d),
         k \in DOMAIN nat_table', nat_table'[k].port = p,
         nat_table'[k].age =< ENTRY_TIMEOUT
  PROVE  FlowsInv' /\ NewFlowsAgree
<1> DEFINE out  == Header(k[1], k[2], k[3], r, d)
           outT == Header(k[1], PUBLIC_IP, p, r, d)
           in   == Header(k[1], r, d, PUBLIC_IP, p)
           inT  == Header(k[1], r, d, k[2], k[3])
           new  == [m \in {out, in} |-> IF m = out THEN outT ELSE inT]
<1>1. /\ k = <<k[1], k[2], k[3]>> /\ k[1] \in Protocols /\ k[1] # "IP"
      /\ k[2] \in Hosts /\ k[3] \in PrivatePorts /\ k[2] # r
  BY ProtocolsAssumption, AddressAssumption DEF NAT!Keys
<1>2. out # in
  BY <1>1 DEF Header
<1>3. DOMAIN new = {out, in} /\ new[out] = outT /\ new[in] = inT
  BY <1>2
<1>4. _install_flow(new)
  BY DEF InstallPair, OutMatch, InMatch
<1>5. /\ DOMAIN flows' = {out, in} \cup DOMAIN flows
      /\ flows'[out] = [to |-> outT, idle |-> 0]
      /\ flows'[in] = [to |-> inT, idle |-> 0]
      /\ \A m \in DOMAIN flows \ {out, in} : flows'[m] = flows[m]
  <2> HIDE DEF new, out, in, outT, inT
  <2> QED
    BY <1>3, <1>4, InstallFlow
<1> HIDE DEF new
<1>6. /\ out.proto = k[1] /\ <<out.proto, out.src, out.sport>> = k
      /\ outT = Header(out.proto, PUBLIC_IP, p, out.dst, out.dport)
      /\ in.proto = k[1] /\ in.dport = p
      /\ inT = Header(in.proto, in.src, in.sport, k[2], k[3])
      /\ Answering(outT) = in /\ Answering(inT) = out
      /\ Answering(out) = inT /\ Answering(in) = outT
  BY <1>1 DEF Header, Answering
<1>7. out \in Outgoing /\ in \in Incoming
  BY <1>1 DEF Outgoing, Incoming
<1> HIDE DEF out, outT, in, inT
<1>8. MatchesTable(out) /\ MatchesTable(in)
  BY <1>1, <1>5, <1>6 DEF MatchesTable
<1>9. NewFlowsAgree
  <2> SUFFICES ASSUME NEW m \in DOMAIN flows',
                      m \notin DOMAIN flows \/ flows'[m].to # flows[m].to
               PROVE  /\ MatchesTable(m)
                      /\ Answering(flows'[m].to) \in DOMAIN flows'
                      /\ flows'[Answering(flows'[m].to)].to = Answering(m)
    BY DEF NewFlowsAgree
  <2>1. m \in {out, in}
    BY <1>5
  <2>2. flows'[out].to = outT /\ flows'[in].to = inT
    BY <1>5
  <2> QED
    BY <1>5, <1>6, <1>8, <2>1, <2>2
<1>10. FlowsInv'
  <2>1. 0 \in 0..ENTRY_TIMEOUT
    BY EntryTimeoutAssumption
  <2>2. \A m \in {out, in} : /\ flows'[m] = [to |-> flows'[m].to, idle |-> flows'[m].idle]
                             /\ flows'[m].idle = 0
    BY <1>5
  <2>3. DOMAIN flows' \subseteq Outgoing \cup Incoming \cup LocalHeaders
    BY <1>5, <1>7 DEF FlowsInv
  <2>4. \A m \in DOMAIN flows' : m \in {out, in} \/ (m \in DOMAIN flows /\ flows'[m] = flows[m])
    BY <1>5
  <2> QED
    BY <2>1, <2>2, <2>3, <2>4 DEF FlowsInv
<1> QED
  BY <1>9, <1>10

(* The flows of traffic inside the private network rewrite nothing. *)
LEMMA LocalAgrees ==
  ASSUME ArpInv, FlowsInv, NEW pkt \in Local, Resolved(pkt.dst),
         _install_flow([m \in {pkt, LocalHeader(pkt.dst, pkt.src)} |-> m])
  PROVE  FlowsInv' /\ NewFlowsAgree
<1> DEFINE back == LocalHeader(pkt.dst, pkt.src)
<1>1. PICK q \in LocalPairs : pkt = LocalHeader(q[1], q[2])
  BY DEF Local
<1>2. q[1] \in Addresses /\ q[2] \in Addresses
  BY <1>1, AddressAssumption DEF ArpInv, Resolved, LocalHeader, Header
<1>3. /\ pkt.proto = "IP" /\ back.proto = "IP"
      /\ pkt.src = q[1] /\ pkt.dst = q[2]
      /\ Answering(pkt) = back /\ Answering(back) = pkt
  BY <1>1 DEF LocalHeader, Header, Answering
<1>4. pkt \in LocalHeaders /\ back \in LocalHeaders
  BY <1>1, <1>2, <1>3 DEF LocalHeaders
<1>5. /\ DOMAIN flows' = {pkt, back} \cup DOMAIN flows
      /\ \A m \in {pkt, back} : flows'[m] = [to |-> m, idle |-> 0]
      /\ \A m \in DOMAIN flows \ {pkt, back} : flows'[m] = flows[m]
  BY InstallFlow
<1> HIDE DEF back
<1>6. NewFlowsAgree
  BY <1>3, <1>5 DEF NewFlowsAgree, MatchesTable
<1>7. FlowsInv'
  <2>1. 0 \in 0..ENTRY_TIMEOUT
    BY EntryTimeoutAssumption
  <2>2. DOMAIN flows' \subseteq Outgoing \cup Incoming \cup LocalHeaders
    BY <1>4, <1>5 DEF FlowsInv
  <2>3. \A m \in DOMAIN flows' :
          m \in {pkt, back} \/ (m \in DOMAIN flows /\ flows'[m] = flows[m])
    BY <1>5
  <2> QED
    BY <1>5, <2>1, <2>2, <2>3 DEF FlowsInv
<1> QED
  BY <1>6, <1>7

(* What an operation of the NAT table answers is in the table, unexpired.  *)
LEMMA AnswerInTable ==
  ASSUME TablesInv, TablesInv',
         \/ \E k \in NAT!Keys : NAT!create_pat_entry(k)
         \/ \E pr \in Protocols, p \in NAT!Ports : NAT!get_reverse_entry(pr, p),
         NEW e \in answer'
  PROVE  /\ e.key \in NAT!Keys /\ e.port \in NAT!Ports
         /\ e.key \in DOMAIN nat_table'
         /\ nat_table'[e.key].port = e.port
         /\ nat_table'[e.key].age =< ENTRY_TIMEOUT
<1>1. \/ \E k \in NATP!Keys : NATP!create_pat_entry(k)
      \/ \E pr \in Protocols, p \in NATP!Ports : NATP!get_reverse_entry(pr, p)
  BY SameOperations DEF NAT!Keys, NATP!Keys, NAT!Ports, NATP!Ports
<1>2. /\ e.key \in DOMAIN nat_table'
      /\ nat_table'[e.key].port = e.port
      /\ nat_table'[e.key].age =< ENTRY_TIMEOUT
  BY <1>1, NATP!OperationStep, RouterPortsAssumption, EntryTimeoutAssumption DEF TablesInv
<1>3. e \in [key : NATP!Keys, port : NATP!Ports]
  BY DEF TablesInv, NATP!NatInv, NATP!TypeOK, NATP!Keys, NATP!Ports
<1> QED
  BY <1>2, <1>3 DEF NAT!Keys, NATP!Keys, NAT!Ports, NATP!Ports

(* The port an operation answers is the one it was asked for. *)
LEMMA AnswerIsAsked ==
  /\ \A k : NAT!create_pat_entry(k) => \A e \in answer' : e.key = k
  /\ \A pr, p : NAT!get_reverse_entry(pr, p) => \A e \in answer' : e.port = p
<1>1. ASSUME NEW k, NAT!create_pat_entry(k), NEW e \in answer' PROVE e.key = k
  <2>1. CASE NAT!ReturnEntry(k)
    BY <1>1, <2>1 DEF NAT!ReturnEntry
  <2>2. CASE NAT!NewEntry(k)
    BY <1>1, <2>2 DEF NAT!NewEntry
  <2>3. CASE NAT!NoPortLeft(k)
    BY <1>1, <2>3 DEF NAT!NoPortLeft
  <2> QED
    BY <1>1, <2>1, <2>2, <2>3 DEF NAT!create_pat_entry
<1>2. ASSUME NEW pr, NEW p, NAT!get_reverse_entry(pr, p), NEW e \in answer' PROVE e.port = p
  BY <1>2 DEF NAT!get_reverse_entry
<1> QED
  BY <1>1, <1>2

(* Handling an IP packet installs such flows or none. *)
LEMMA HandleIpFlows ==
  ASSUME TablesInv, TablesInv', ArpInv, FlowsInv, NEW pkt \in Packets, handle_ip(pkt)
  PROVE  FlowsInv' /\ NewFlowsAgree
<1>1. CASE UNCHANGED flows
  BY <1>1 DEF FlowsInv, NewFlowsAgree
<1>2. CASE /\ pkt \in Outgoing /\ Resolved(pkt.dst)
           /\ OpenSession(<<pkt.proto, pkt.src, pkt.sport>>, pkt.dst, pkt.dport)
  <2> DEFINE k == <<pkt.proto, pkt.src, pkt.sport>>
  <2>1. k \in NAT!Keys /\ pkt.dst \in Remotes /\ pkt.dport \in RemotePorts
    BY <1>2, AddressAssumption DEF Outgoing, Header, NAT!Keys, ArpInv, Resolved
  <2> HIDE DEF k
  <2>2. NAT!create_pat_entry(k)
    BY <1>2 DEF OpenSession, k
  <2>3. CASE ~UNCHANGED flows
    <3>1. PICK e \in answer' : InstallPair(k, e.port, pkt.dst, pkt.dport)
      BY <1>2, <2>3 DEF OpenSession, k
    <3>2. e.key = k
      BY <2>2, AnswerIsAsked
    <3>3. /\ e.port \in NAT!Ports /\ k \in DOMAIN nat_table'
          /\ nat_table'[k].port = e.port /\ nat_table'[k].age =< ENTRY_TIMEOUT
      BY <2>1, <2>2, <3>2, AnswerInTable
    <3> QED
      BY <2>1, <3>1, <3>3, PairAgrees
  <2> QED
    BY <1>1, <2>3
<1>3. CASE pkt \in Incoming /\ NAT!get_reverse_entry(pkt.proto, pkt.dport)
           /\ \E e \in answer' : InstallPair(e.key, pkt.dport, pkt.src, pkt.sport)
  <2>1. PICK e \in answer' : InstallPair(e.key, pkt.dport, pkt.src, pkt.sport)
    BY <1>3
  <2>2. /\ pkt.proto \in Protocols /\ pkt.dport \in NAT!Ports
        /\ pkt.src \in Remotes /\ pkt.sport \in RemotePorts
    BY <1>3 DEF Incoming, Header
  <2>3. e.port = pkt.dport
    BY <1>3, AnswerIsAsked
  <2>4. /\ e.key \in NAT!Keys /\ e.key \in DOMAIN nat_table'
        /\ nat_table'[e.key].port = pkt.dport /\ nat_table'[e.key].age =< ENTRY_TIMEOUT
    BY <1>3, <2>2, <2>3, AnswerInTable
  <2> QED
    BY <2>1, <2>2, <2>4, PairAgrees
<1>4. CASE /\ pkt \in Local /\ Resolved(pkt.dst)
           /\ _install_flow([m \in {pkt, LocalHeader(pkt.dst, pkt.src)} |-> m])
  BY <1>4, LocalAgrees
<1> QED
  BY <1>1, <1>2, <1>3, <1>4 DEF handle_ip, _handle_outgoing, _handle_incoming,
     IncomingEcho, _handle_private_to_private, AwaitArp

(* The invariant of tables and flows is inductive, and every step agrees.  *)
LEMMA FlowsNext ==
  ASSUME TablesInv, QueueInv, ArpInv, FlowsInv, [Next]_vars
  PROVE  FlowsInv' /\ NewFlowsAgree
<1>1. TablesInv'
  BY TablesNext
<1>2. ASSUME NEW pkt \in Packets, PacketIn(pkt) PROVE FlowsInv' /\ NewFlowsAgree
  BY <1>1, <1>2, HandleIpFlows DEF PacketIn
<1>3. CASE ResumeNext
  <2> DEFINE P == Packets
  <2>1. resuming \in Seq(P) /\ resuming # <<>> /\ handle_ip(Head(resuming))
    BY <1>3 DEF ResumeNext, QueueInv
  <2> HIDE DEF P
  <2>2. Head(resuming) \in P
    BY <2>1, HeadTailProperties
  <2> QED
    BY <1>1, <2>1, <2>2, HandleIpFlows DEF P
<1>4. ASSUME NEW m \in DOMAIN flows, Forward(m) PROVE FlowsInv' /\ NewFlowsAgree
  <2>1. /\ DOMAIN flows' = DOMAIN flows
        /\ \A n \in DOMAIN flows : flows'[n] = IF n = m THEN [flows[m] EXCEPT !.idle = 0]
                                               ELSE flows[n]
    BY <1>4 DEF Forward
  <2>2. flows'[m] = [to |-> flows[m].to, idle |-> 0]
    BY <2>1 DEF FlowsInv
  <2>3. 0 \in 0..ENTRY_TIMEOUT
    BY EntryTimeoutAssumption
  <2> QED
    BY <2>1, <2>2, <2>3 DEF FlowsInv, NewFlowsAgree
<1>5. CASE Tick
  <2>1. /\ DOMAIN flows' \subseteq DOMAIN flows
        /\ \A m \in DOMAIN flows' : /\ flows[m].idle < ENTRY_TIMEOUT
                                    /\ flows'[m] = [to |-> flows[m].to, idle |-> flows[m].idle + 1]
    BY <1>5 DEF Tick
  <2>2. \A m \in DOMAIN flows' : flows'[m].idle \in 0..ENTRY_TIMEOUT
    BY <2>1, EntryTimeoutAssumption DEF FlowsInv
  <2> QED
    BY <2>1, <2>2 DEF FlowsInv, NewFlowsAgree
<1>6. CASE UNCHANGED flows
  BY <1>6 DEF FlowsInv, NewFlowsAgree
<1> QED
  BY <1>2, <1>3, <1>4, <1>5, <1>6 DEF Next, handle_arp, LoseRequest, vars

RouterInv == TablesInv /\ QueueInv /\ ArpInv /\ FlowsInv

THEOREM RouterInvariant == Spec => []RouterInv
<1>1. Init => RouterInv
  <2>1. Init => FlowsInv
    BY DEF Init, FlowsInv
  <2> QED
    BY <2>1, TablesInit, QueueInvInit, ArpInvInit DEF RouterInv
<1>2. RouterInv /\ [Next]_vars => RouterInv'
  BY TablesNext, QueueInvNext, ArpInvNext, FlowsNext DEF RouterInv
<1> QED
  BY <1>1, <1>2, PTL DEF Spec

(* Type correctness of the router, its two tables and the switch: in every *)
(* state of the program TypeOK holds, for every network and timeout.       *)
THEOREM RouterTypeCorrect == Spec => []TypeOK
<1>1. RouterInv => TypeOK
  <2> SUFFICES ASSUME RouterInv PROVE TypeOK
    OBVIOUS
  <2> DEFINE P == Packets
  <2>1. NAT!TypeOK
    BY DEF RouterInv, TablesInv, NATP!NatInv, NATP!TypeOK, NAT!TypeOK, NAT!Keys,
       NATP!Keys, NAT!Ports, NATP!Ports, NAT!Ages, NATP!Ages
  <2>2. ICMP!Table!TypeOK
    BY DEF RouterInv, TablesInv, ICMPP!NatInv, ICMPP!TypeOK, ICMP!Table!TypeOK,
       ICMP!Table!Keys, ICMPP!Keys, ICMP!Table!Ports, ICMPP!Ports,
       ICMP!Table!Ages, ICMPP!Ages
  <2>3. /\ waiting_queue = [a \in DOMAIN waiting_queue |-> waiting_queue[a]]
        /\ \A a \in DOMAIN waiting_queue : waiting_queue[a] \in Seq(P)
        /\ resuming \in Seq(P)
    BY DEF RouterInv, ArpInv, QueueInv
  <2>4. waiting_queue \in [DOMAIN waiting_queue -> Seq(P)]
    <3> HIDE DEF P
    <3> QED
      BY <2>3
  <2>5. /\ DOMAIN flows \subseteq Outgoing \cup Incoming \cup LocalHeaders
        /\ \A m \in DOMAIN flows : flows[m].idle \in 0..ENTRY_TIMEOUT
    BY DEF RouterInv, FlowsInv
  <2>6. /\ DOMAIN arp_table \subseteq Addresses
        /\ arp_table \in [DOMAIN arp_table -> 0..(ENTRY_TIMEOUT + 1)]
        /\ DOMAIN waiting_queue \subseteq Addresses \cup {PRIVATE_IP} \cup Silent
        /\ asked \subseteq Addresses
    BY DEF RouterInv, ArpInv
  <2> QED
    BY <2>1, <2>2, <2>3, <2>4, <2>5, <2>6 DEF TypeOK, LocalHeaders
<1> QED
  BY <1>1, RouterInvariant, PTL

(* Flows are installed for the endpoint and the port of an unexpired entry *)
(* of the table, both ways at once (_install_flow and its callers).        *)
THEOREM FlowsAgree == Spec => InstalledFlowsAgree
<1>1. RouterInv /\ [Next]_vars => [NewFlowsAgree]_vars
  BY FlowsNext DEF RouterInv
<1> QED
  BY <1>1, RouterInvariant, PTL DEF Spec, InstalledFlowsAgree

-----------------------------------------------------------------------------
(* Entries of the NAT table that have not expired have their flows.  The   *)
(* inductive invariant adds why they still have them: these were idle for  *)
(* no longer than the entry is old, so that the switch, which counts up to *)
(* the same ENTRY_TIMEOUT, does not drop them before.                      *)
Paired(k, p, r, d, age) ==
  /\ {OutMatch(k, r, d), InMatch(k, p, r, d)} \subseteq DOMAIN flows
  /\ flows[OutMatch(k, r, d)].to = Header(k[1], PUBLIC_IP, p, r, d)
  /\ flows[InMatch(k, p, r, d)].to = Header(k[1], r, d, k[2], k[3])
  /\ \A m \in {OutMatch(k, r, d), InMatch(k, p, r, d)} : flows[m].idle =< age

LeaseInv ==
  \A k \in DOMAIN nat_table : nat_table[k].age =< ENTRY_TIMEOUT =>
    \E r \in Remotes, d \in RemotePorts :
      Paired(k, nat_table[k].port, r, d, nat_table[k].age)

(* The shape of the entries. *)
LEMMA EntryShape ==
  ASSUME TablesInv, NEW k \in DOMAIN nat_table
  PROVE  /\ k \in NAT!Keys /\ nat_table[k].port \in NAT!Ports /\ nat_table[k].age \in Nat
         /\ k = <<k[1], k[2], k[3]>> /\ k[1] \in Protocols /\ k[1] # "IP"
         /\ k[2] \in Hosts /\ k[3] \in PrivatePorts
<1>1. k \in NAT!Keys /\ nat_table[k].port \in NAT!Ports /\ nat_table[k].age \in Nat
  BY EntryTimeoutAssumption DEF TablesInv, NATP!NatInv, NATP!TypeOK, NATP!Keys, NAT!Keys,
     NATP!Ports, NAT!Ports, NATP!Ages
<1> QED
  BY <1>1, ProtocolsAssumption DEF NAT!Keys

(* A step that makes no entry and touches no flow keeps the invariant.     *)
LEMMA ReapKeepsLeases ==
  ASSUME LeaseInv, UNCHANGED flows,
         \A k \in DOMAIN nat_table' : k \in DOMAIN nat_table /\ nat_table'[k] = nat_table[k]
  PROVE  LeaseInv'
<1> SUFFICES ASSUME NEW k \in DOMAIN nat_table', nat_table'[k].age =< ENTRY_TIMEOUT
             PROVE  \E r \in Remotes, d \in RemotePorts :
                      Paired(k, nat_table[k].port, r, d, nat_table[k].age)'
  BY DEF LeaseInv
<1>1. PICK r \in Remotes, d \in RemotePorts :
        Paired(k, nat_table[k].port, r, d, nat_table[k].age)
  BY DEF LeaseInv
<1> QED
  BY <1>1 DEF Paired, OutMatch, InMatch

(* A pair of flows that is installed is right for its own entry, and takes *)
(* the place of no flow of another one: no other has its endpoint or port. *)
LEMMA InstallKeepsLeases ==
  ASSUME LeaseInv, TablesInv, TablesInv', NEW k \in DOMAIN nat_table',
         NEW r \in Remotes, NEW d \in RemotePorts,
         InstallPair(k, nat_table'[k].port, r, d),
         \A j \in DOMAIN nat_table' \ {k} :
           j \in DOMAIN nat_table /\ nat_table'[j] = nat_table[j]
  PROVE  LeaseInv'
<1> DEFINE p    == nat_table'[k].port
           out  == OutMatch(k, r, d)
           in   == InMatch(k, p, r, d)
           outT == Header(k[1], PUBLIC_IP, p, r, d)
           inT  == Header(k[1], r, d, k[2], k[3])
           new  == [m \in {out, in} |-> IF m = out THEN outT ELSE inT]
<1>1. \A j \in DOMAIN nat_table' :
        /\ j = <<j[1], j[2], j[3]>> /\ j[1] \in Protocols
        /\ j[2] \in Hosts /\ j[3] \in PrivatePorts
        /\ nat_table'[j].age \in Nat
  <2>1. NAT!Keys = Protocols \X Hosts \X PrivatePorts
    BY DEF NAT!Keys
  <2>2. \A j \in DOMAIN nat_table' : j \in NAT!Keys /\ nat_table'[j].age \in Nat
    BY EntryTimeoutAssumption DEF TablesInv, NATP!NatInv, NATP!TypeOK, NATP!Keys, NAT!Keys,
       NATP!Ages
  <2> QED
    BY <2>1, <2>2
<1>2. out # in
  BY <1>1, AddressAssumption DEF Header, OutMatch, InMatch
<1>3. DOMAIN new = {out, in} /\ new[out] = outT /\ new[in] = inT
  BY <1>2
<1>4. _install_flow(new)
  BY DEF InstallPair
<1>5. /\ DOMAIN flows' = {out, in} \cup DOMAIN flows
      /\ flows'[out] = [to |-> outT, idle |-> 0]
      /\ flows'[in] = [to |-> inT, idle |-> 0]
      /\ \A m \in DOMAIN flows \ {out, in} : flows'[m] = flows[m]
  <2> HIDE DEF new, out, in, outT, inT
  <2> QED
    BY <1>3, <1>4, InstallFlow
<1> HIDE DEF new
<1>6. ASSUME nat_table'[k].age =< ENTRY_TIMEOUT
      PROVE  Paired(k, nat_table[k].port, r, d, nat_table[k].age)'
  <2>1. nat_table'[k].age \in Nat
    BY <1>1
  <2> QED
    BY <1>5, <2>1 DEF Paired, OutMatch, InMatch
<1>7. ASSUME NEW j \in DOMAIN nat_table', j # k, nat_table'[j].age =< ENTRY_TIMEOUT
      PROVE  \E s \in Remotes, e \in RemotePorts :
               Paired(j, nat_table[j].port, s, e, nat_table[j].age)'
  <2>1. j \in DOMAIN nat_table /\ nat_table'[j] = nat_table[j]
    BY <1>7
  <2>2. PICK s \in Remotes, e \in RemotePorts :
          Paired(j, nat_table[j].port, s, e, nat_table[j].age)
    BY <1>7, <2>1 DEF LeaseInv
  <2> DEFINE q == nat_table[j].port
             jout == OutMatch(j, s, e)
             jin  == InMatch(j, q, s, e)
  <2>3. jout # out /\ jout # in
    BY <1>1, <1>7, AddressAssumption DEF OutMatch, InMatch, Header
  <2>4. q # p
    BY <1>7, <2>1 DEF TablesInv, NATP!NatInv, NATP!PortsPartitioned
  <2>5. jin # in /\ jin # out
    BY <1>1, <2>4, AddressAssumption DEF OutMatch, InMatch, Header
  <2>6. \A m \in {jout, jin} : m \in DOMAIN flows' /\ flows'[m] = flows[m]
    BY <1>5, <2>2, <2>3, <2>5 DEF Paired
  <2>7. Paired(j, q, s, e, nat_table[j].age)'
    BY <2>1, <2>2, <2>6 DEF Paired, OutMatch, InMatch
  <2> QED
    BY <2>7
<1> QED
  BY <1>6, <1>7 DEF LeaseInv

(* Handling an IP packet keeps the invariant.                              *)
LEMMA HandleIpLeases ==
  ASSUME LeaseInv, TablesInv, TablesInv', ArpInv, NEW pkt \in Packets, handle_ip(pkt)
  PROVE  LeaseInv'
<1>1. CASE UNCHANGED <<natVars, flows>>
  BY <1>1, ReapKeepsLeases DEF natVars
<1>2. CASE /\ pkt \in Outgoing /\ Resolved(pkt.dst)
           /\ OpenSession(<<pkt.proto, pkt.src, pkt.sport>>, pkt.dst, pkt.dport)
  <2> DEFINE k == <<pkt.proto, pkt.src, pkt.sport>>
  <2>1. k \in NAT!Keys /\ pkt.dst \in Remotes /\ pkt.dport \in RemotePorts
    BY <1>2, AddressAssumption DEF Outgoing, Header, NAT!Keys, ArpInv, Resolved
  <2> HIDE DEF k
  <2>2. NAT!create_pat_entry(k)
    BY <1>2 DEF OpenSession, k
  <2>3. \A j \in DOMAIN nat_table' \ {k} :
          j \in DOMAIN nat_table /\ nat_table'[j] = nat_table[j]
    BY <2>2 DEF NAT!create_pat_entry, NAT!ReturnEntry, NAT!NewEntry, NAT!NoPortLeft,
       NAT!ReapedTable, NAT!Restrict, NAT!Kept
  <2>4. CASE answer' = {} /\ UNCHANGED flows
    <3>1. NAT!NoPortLeft(k)
      BY <2>2, <2>4 DEF NAT!create_pat_entry, NAT!ReturnEntry, NAT!NewEntry
    <3>2. \A j \in DOMAIN nat_table' : j \in DOMAIN nat_table /\ nat_table'[j] = nat_table[j]
      BY <3>1 DEF NAT!NoPortLeft, NAT!ReapedTable, NAT!Restrict, NAT!Kept
    <3> QED
      BY <2>4, <3>2, ReapKeepsLeases
  <2>5. CASE \E e \in answer' : InstallPair(k, e.port, pkt.dst, pkt.dport)
    <3>1. PICK e \in answer' : InstallPair(k, e.port, pkt.dst, pkt.dport)
      BY <2>5
    <3>2. e.key = k
      BY <2>2, AnswerIsAsked
    <3>3. k \in DOMAIN nat_table' /\ nat_table'[k].port = e.port
      BY <2>1, <2>2, <3>2, AnswerInTable
    <3> QED
      BY <2>1, <2>3, <3>1, <3>3, InstallKeepsLeases
  <2> QED
    BY <1>2, <2>4, <2>5 DEF OpenSession, k
<1>3. CASE /\ pkt \in Incoming /\ NAT!get_reverse_entry(pkt.proto, pkt.dport)
           /\ \/ UNCHANGED flows
              \/ \E e \in answer' : InstallPair(e.key, pkt.dport, pkt.src, pkt.sport)
  <2>1. \A j \in DOMAIN nat_table' : j \in DOMAIN nat_table /\ nat_table'[j] = nat_table[j]
    BY <1>3 DEF NAT!get_reverse_entry, NAT!ReapedTable, NAT!Restrict, NAT!Kept
  <2>2. CASE UNCHANGED flows
    BY <2>1, <2>2, ReapKeepsLeases
  <2>3. CASE \E e \in answer' : InstallPair(e.key, pkt.dport, pkt.src, pkt.sport)
    <3>1. PICK e \in answer' : InstallPair(e.key, pkt.dport, pkt.src, pkt.sport)
      BY <2>3
    <3>2. /\ pkt.proto \in Protocols /\ pkt.dport \in NAT!Ports
          /\ pkt.src \in Remotes /\ pkt.sport \in RemotePorts
      BY <1>3 DEF Incoming, Header
    <3>3. e.port = pkt.dport
      BY <1>3, AnswerIsAsked
    <3>4. e.key \in DOMAIN nat_table' /\ nat_table'[e.key].port = pkt.dport
      BY <1>3, <3>2, <3>3, AnswerInTable
    <3> QED
      BY <2>1, <3>1, <3>2, <3>4, InstallKeepsLeases
  <2> QED
    BY <1>3, <2>2, <2>3
<1>4. CASE /\ pkt \in Local /\ UNCHANGED natVars
           /\ _install_flow([m \in {pkt, LocalHeader(pkt.dst, pkt.src)} |-> m])
  <2> DEFINE new == [m \in {pkt, LocalHeader(pkt.dst, pkt.src)} |-> m]
  <2>1. /\ DOMAIN flows \subseteq DOMAIN flows'
        /\ \A m \in DOMAIN flows \ DOMAIN new : flows'[m] = flows[m]
    BY <1>4, InstallFlow
  <2>2. \A m \in DOMAIN new : m.proto = "IP"
    BY <1>4 DEF Local, LocalHeader, Header
  <2> HIDE DEF new
  <2> SUFFICES ASSUME NEW k \in DOMAIN nat_table', nat_table'[k].age =< ENTRY_TIMEOUT
               PROVE  \E r \in Remotes, d \in RemotePorts :
                        Paired(k, nat_table[k].port, r, d, nat_table[k].age)'
    BY DEF LeaseInv
  <2>3. k \in DOMAIN nat_table /\ nat_table'[k] = nat_table[k]
    BY <1>4 DEF natVars
  <2>4. PICK r \in Remotes, d \in RemotePorts :
          Paired(k, nat_table[k].port, r, d, nat_table[k].age)
    BY <2>3 DEF LeaseInv
  <2>5. k[1] # "IP"
    BY <2>3, EntryShape
  <2>6. \A m \in {OutMatch(k, r, d), InMatch(k, nat_table[k].port, r, d)} :
          m \in DOMAIN flows' /\ flows'[m] = flows[m]
    BY <2>1, <2>2, <2>4, <2>5 DEF Paired, OutMatch, InMatch, Header
  <2> QED
    BY <2>3, <2>4, <2>6 DEF Paired, OutMatch, InMatch
<1>5. CASE _handle_outgoing(pkt)
  BY <1>1, <1>2, <1>5 DEF _handle_outgoing, AwaitArp
<1>6. CASE _handle_incoming(pkt)
  <2>1. CASE IncomingEcho(pkt)
    BY <1>1, <2>1 DEF IncomingEcho
  <2>2. CASE ~IncomingEcho(pkt)
    BY <1>3, <1>6, <2>2 DEF _handle_incoming, AwaitArp
  <2> QED
    BY <2>1, <2>2
<1>7. CASE _handle_private_to_private(pkt)
  BY <1>1, <1>4, <1>7 DEF _handle_private_to_private, AwaitArp
<1> QED
  BY <1>5, <1>6, <1>7 DEF handle_ip

(* Every step keeps the invariant.                                         *)
LEMMA LeaseNext ==
  ASSUME LeaseInv, RouterInv, RouterInv', [Next]_vars
  PROVE  LeaseInv'
<1> USE DEF RouterInv
<1>1. ASSUME NEW pkt \in Packets, PacketIn(pkt) PROVE LeaseInv'
  BY <1>1, HandleIpLeases DEF PacketIn
<1>2. CASE ResumeNext
  <2> DEFINE P == Packets
  <2>1. resuming \in Seq(P) /\ resuming # <<>> /\ handle_ip(Head(resuming))
    BY <1>2 DEF ResumeNext, QueueInv
  <2> HIDE DEF P
  <2>2. Head(resuming) \in P
    BY <2>1, HeadTailProperties
  <2> QED
    BY <2>1, <2>2, HandleIpLeases DEF P
<1>3. ASSUME NEW n \in DOMAIN flows, Forward(n) PROVE LeaseInv'
  <2>1. /\ DOMAIN flows' = DOMAIN flows /\ nat_table' = nat_table
        /\ \A m \in DOMAIN flows : /\ flows'[m].to = flows[m].to
                                   /\ flows'[m].idle \in {0, flows[m].idle}
    BY <1>3 DEF Forward, FlowsInv, natVars
  <2> SUFFICES ASSUME NEW k \in DOMAIN nat_table, nat_table[k].age =< ENTRY_TIMEOUT
               PROVE  \E r \in Remotes, d \in RemotePorts :
                        Paired(k, nat_table[k].port, r, d, nat_table[k].age)'
    BY <2>1 DEF LeaseInv
  <2>2. PICK r \in Remotes, d \in RemotePorts :
          Paired(k, nat_table[k].port, r, d, nat_table[k].age)
    BY DEF LeaseInv
  <2>3. nat_table[k].age \in Nat
    BY EntryShape
  <2> QED
    BY <2>1, <2>2, <2>3 DEF Paired, OutMatch, InMatch
<1>4. CASE Tick
  <2>1. /\ DOMAIN nat_table' = DOMAIN nat_table
        /\ \A k \in DOMAIN nat_table :
             /\ nat_table'[k].port = nat_table[k].port
             /\ nat_table'[k].age = IF nat_table[k].age > ENTRY_TIMEOUT
                                      THEN nat_table[k].age ELSE nat_table[k].age + 1
    BY <1>4 DEF Tick, NAT!Tick
  <2>2. \A m \in DOMAIN flows : flows[m].idle < ENTRY_TIMEOUT =>
          m \in DOMAIN flows' /\ flows'[m] = [to |-> flows[m].to, idle |-> flows[m].idle + 1]
    BY <1>4 DEF Tick
  <2> SUFFICES ASSUME NEW k \in DOMAIN nat_table, nat_table'[k].age =< ENTRY_TIMEOUT
               PROVE  \E r \in Remotes, d \in RemotePorts :
                        Paired(k, nat_table[k].port, r, d, nat_table[k].age)'
    BY <2>1 DEF LeaseInv
  <2>3. /\ nat_table[k].age \in Nat /\ nat_table[k].age < ENTRY_TIMEOUT
        /\ nat_table'[k].age = nat_table[k].age + 1
    BY <2>1, EntryShape, EntryTimeoutAssumption
  <2>4. PICK r \in Remotes, d \in RemotePorts :
          Paired(k, nat_table[k].port, r, d, nat_table[k].age)
    BY <2>3, EntryTimeoutAssumption DEF LeaseInv
  <2>5. \A m \in {OutMatch(k, r, d), InMatch(k, nat_table[k].port, r, d)} :
          /\ m \in DOMAIN flows'
          /\ flows'[m].to = flows[m].to
          /\ flows'[m].idle =< nat_table'[k].age
    <3>1. ASSUME NEW m \in {OutMatch(k, r, d), InMatch(k, nat_table[k].port, r, d)}
          PROVE  /\ m \in DOMAIN flows' /\ flows'[m].to = flows[m].to
                 /\ flows'[m].idle =< nat_table'[k].age
      <4>1. m \in DOMAIN flows /\ flows[m].idle =< nat_table[k].age
        BY <2>4 DEF Paired
      <4>2. flows[m].idle \in Nat
        BY <4>1, EntryTimeoutAssumption DEF FlowsInv
      <4>3. flows[m].idle < ENTRY_TIMEOUT
        BY <2>3, <4>1, <4>2, EntryTimeoutAssumption
      <4>4. flows'[m] = [to |-> flows[m].to, idle |-> flows[m].idle + 1] /\ m \in DOMAIN flows'
        BY <2>2, <4>1, <4>3
      <4> QED
        BY <2>3, <4>1, <4>2, <4>4
    <3> QED
      BY <3>1
  <2> QED
    BY <2>1, <2>4, <2>5 DEF Paired, OutMatch, InMatch
<1>5. CASE UNCHANGED <<natVars, flows>>
  BY <1>5, ReapKeepsLeases DEF natVars
<1> QED
  BY <1>1, <1>2, <1>3, <1>4, <1>5 DEF Next, handle_arp, LoseRequest, vars

(* No entry of the NAT table outlives its flows: while it is not expired,  *)
(* its endpoint has a flow to the public network and the answer has one    *)
(* back (_handle_outgoing, _handle_incoming and idle_timeout).             *)
THEOREM RouterLeasesHaveFlows == Spec => []LeasesHaveFlows
<1>1. Init => LeaseInv
  BY DEF Init, NAT!Init, LeaseInv
<1>2. RouterInv /\ RouterInv' /\ LeaseInv /\ [Next]_vars => LeaseInv'
  BY LeaseNext
<1>3. LeaseInv => LeasesHaveFlows
  BY DEF LeaseInv, LeasesHaveFlows, Paired
<1> QED
  BY <1>1, <1>2, <1>3, RouterInvariant, PTL DEF Spec

-----------------------------------------------------------------------------
(* What PortLeases promises holds of both tables of the router, public     *)
(* ports and ICMP identifiers, whatever packets come in whatever order:    *)
(* each is leased to one endpoint for ENTRY_TIMEOUT, answers find whoever  *)
(* holds it and nobody else, and a session is refused only when all are    *)
(* leased (nat_handler.py and icmp_handler.py as protorouter.py uses them). *)
THEOREM RouterLeases == Spec => NATP!ImplementsPortLeases /\ ICMPP!ImplementsPortLeases
<1>1. NATP!Spec => NATP!ImplementsPortLeases
  BY NATP!NatImplementsPortLeases, RouterPortsAssumption, EntryTimeoutAssumption
<1>2. ICMPP!Spec => ICMPP!ImplementsPortLeases
  BY ICMPP!NatImplementsPortLeases, IdentifiersAssumption, EntryTimeoutAssumption
<1>3. Init => NATP!Init /\ ICMPP!Init
  BY DEF Init, NAT!Init, NATP!Init, NAT!Ports, NATP!Ports,
     ICMP!Init, ICMP!Table!Init, ICMPP!Init, ICMP!Table!Ports, ICMPP!Ports
<1>4. [Next]_vars => [NATP!Next]_(NATP!vars) /\ [ICMPP!Next]_(ICMPP!vars)
  BY NatStep, SameNat, IcmpStep, SameIcmp
<1>5. Spec => NATP!Spec /\ ICMPP!Spec
  BY <1>3, <1>4, PTL DEF Spec, NATP!Spec, ICMPP!Spec
<1> QED
  BY <1>1, <1>2, <1>5, PTL

(* In every state of the router both pairs of tables are each other's      *)
(* inverse, and every public port and identifier is free or in exactly one *)
(* entry.                                                                  *)
THEOREM RouterTablesAgree ==
  Spec => [](/\ NATP!TablesAgree /\ NATP!PortsPartitioned
             /\ ICMPP!TablesAgree /\ ICMPP!PortsPartitioned)
<1>1. RouterInv => /\ NATP!TablesAgree /\ NATP!PortsPartitioned
                   /\ ICMPP!TablesAgree /\ ICMPP!PortsPartitioned
  BY DEF RouterInv, TablesInv, NATP!NatInv, ICMPP!NatInv
<1> QED
  BY <1>1, RouterInvariant, PTL
=============================================================================
