----------------------------- MODULE ProtoRouter ----------------------------
(***************************************************************************)
(* The SDN router of tp2 (protorouter.py): what the controller does with   *)
(* the packets the switch sends it, and the flows it installs in the       *)
(* switch.  It composes the NAT table (NatHandler), the ICMP table         *)
(* (IcmpHandler), the ARP table and its waiting packets (ArpHandler), and  *)
(* the flow table of the switch.                                           *)
(*                                                                         *)
(* Modelled are ARP, TCP, UDP and ICMP echo traffic between the private    *)
(* hosts and the public network, and the traffic inside the private one.   *)
(* A packet is its header: MAC addresses and switch ports follow from the  *)
(* addresses, payloads and checksums do not matter.  The controller        *)
(* handles one event at a time; the switch forwards packets, time passes,  *)
(* and ARP requests or their answers are lost, at any moment.              *)
(***************************************************************************)
EXTENDS ArpHandler, FiniteSets

CONSTANTS
  Protocols, Hosts, PrivatePorts,   \* as in NatHandler
  PAT_PORT_MIN, PAT_PORT_MAX,
  Remotes, RemotePorts,             \* the public network
  Silent,                           \* public addresses that no host has,
                                    \* the router's own among them
  Identifiers, ICMP_ID_MIN, ICMP_ID_MAX,   \* as in IcmpHandler
  LocalPairs,                       \* <<source, destination>> of the
                                    \* traffic inside the private network
  PUBLIC_IP, PRIVATE_IP,            \* the router's own addresses
  Lossy,                            \* may ARP requests be lost?
  MAX_WAITING                       \* bound: length of a queue that a new
                                    \* packet joins

ASSUME AddressAssumption ==
  /\ Addresses = Hosts \cup Remotes
  /\ Hosts \cap Remotes = {}
  /\ ({PUBLIC_IP, PRIVATE_IP} \cup Silent) \cap Addresses = {}
  /\ PRIVATE_IP \notin Silent
  /\ LocalPairs \subseteq Hosts \X (Hosts \cup {PRIVATE_IP})
ASSUME ProtocolsAssumption == Protocols \subseteq {"TCP", "UDP"}
ASSUME IdentifiersAssumption == ICMP_ID_MIN \in Int /\ ICMP_ID_MAX \in Int
ASSUME RouterPortsAssumption == PAT_PORT_MIN \in Int /\ PAT_PORT_MAX \in Int
ASSUME MaxWaitingAssumption == MAX_WAITING \in Nat
ASSUME LossyAssumption == Lossy \in BOOLEAN

VARIABLES
  nat_table, reverse_nat, public_port_pool, answer,   \* self.nat_handler
  icmp_table, reverse_icmp, icmp_id_pool, icmp_answer,   \* self.icmp_handler
  flows,      \* the switch: header -> [to, idle], the rewritten header and
              \* the time since the last packet that matched
  resuming,   \* the packets that handle_arp still has to resume
  asked       \* the network: hosts with an ARP request to answer

natVars == <<nat_table, reverse_nat, public_port_pool, answer>>
icmpVars == <<icmp_table, reverse_icmp, icmp_id_pool, icmp_answer>>
vars == <<arpVars, natVars, icmpVars, flows, resuming, asked>>

NAT == INSTANCE NatHandler
ICMP == INSTANCE IcmpHandler

Header(pr, src, sport, dst, dport) ==
  [proto |-> pr, src |-> src, sport |-> sport, dst |-> dst, dport |-> dport]

(* What private hosts send to the public network, to addresses there that  *)
(* somebody has or nobody, and what comes from it.                         *)
Outgoing == {Header(pr, h, s, r, d) : pr \in Protocols, h \in Hosts,
               s \in PrivatePorts, r \in Remotes \cup Silent, d \in RemotePorts}
Incoming == {Header(pr, r, d, PUBLIC_IP, p) : pr \in Protocols, r \in Remotes,
               d \in RemotePorts, p \in NAT!Ports}

(* Echo packets: their identifier stands where the ports of others are.    *)
EchoOut == {Header("ICMP", h, i, r, i) :
               h \in Hosts, i \in Identifiers, r \in Remotes \cup Silent}
EchoIn == {Header("ICMP", r, i, PUBLIC_IP, i) :
               r \in Remotes, i \in ICMP_ID_MIN..ICMP_ID_MAX}

(* Traffic between two private addresses: TCP, UDP and ICMP alike, whose   *)
(* ports are not looked at.  Other protocols are dropped (lines 185-187).  *)
LocalHeader(src, dst) == Header("IP", src, 0, dst, 0)
Local == {LocalHeader(p[1], p[2]) : p \in LocalPairs}

Packets == Outgoing \cup Incoming \cup EchoOut \cup EchoIn \cup Local

Init ==
  /\ ArpInit
  /\ NAT!Init
  /\ ICMP!Init
  /\ flows = <<>>
  /\ resuming = <<>>
  /\ asked = {}

-----------------------------------------------------------------------------
(* _install_flow: a flow for every match of new, with its translation; a   *)
(* flow with the same match is replaced.                                   *)
_install_flow(new) ==
  flows' = [m \in DOMAIN new \cup DOMAIN flows |->
              IF m \in DOMAIN new THEN [to |-> new[m], idle |-> 0] ELSE flows[m]]

(* The flows of the two directions of the session between the private      *)
(* endpoint k = <<protocol, host, port>>, mapped to public port p, and the *)
(* remote endpoint <<r, d>>: what they match ...                           *)
OutMatch(k, r, d) == Header(k[1], k[2], k[3], r, d)
InMatch(k, p, r, d) == Header(k[1], r, d, PUBLIC_IP, p)

(* Mutant of InstallPair: answers keep the public port.                    *)
InstallPairUntranslated(k, p, r, d) ==
  _install_flow([m \in {OutMatch(k, r, d), InMatch(k, p, r, d)} |->
    IF m = OutMatch(k, r, d) THEN Header(k[1], PUBLIC_IP, p, r, d)
                             ELSE Header(k[1], r, d, k[2], p)])

(* ... and what they rewrite it to.                                        *)
InstallPair(k, p, r, d) ==
  _install_flow([m \in {OutMatch(k, r, d), InMatch(k, p, r, d)} |->
    IF m = OutMatch(k, r, d) THEN Header(k[1], PUBLIC_IP, p, r, d)
                             ELSE Header(k[1], r, d, k[2], k[3])])

(* _resolve_mac and _resolve_mac_and_port, when there is no entry: the     *)
(* packet waits, and one ARP request is sent, which the host of the        *)
(* address hears, if there is one.                                         *)
AwaitArp(a, pkt) ==
  /\ ~Resolved(a)
  /\ enqueue_packet(a, pkt)
  /\ asked' = asked \cup ({a} \cap Addresses)
  /\ UNCHANGED <<arp_table, flows>>

(* A session of private endpoint k with the remote endpoint <<r, d>>: an   *)
(* entry and two flows, or nothing when no public port is left.            *)
OpenSession(k, r, d) ==
  /\ NAT!create_pat_entry(k)
  /\ \/ answer' = {} /\ UNCHANGED flows
     \/ \E e \in answer' : InstallPair(k, e.port, r, d)

(* Mutant of _handle_outgoing: first the entry, then the MAC.              *)
_handle_outgoing_early(pkt) ==
  /\ pkt \in Outgoing
  /\ NAT!create_pat_entry(<<pkt.proto, pkt.src, pkt.sport>>)
  /\ UNCHANGED icmpVars
  /\ \/ answer' = {} /\ UNCHANGED <<arpVars, flows, asked>>
     \/ answer' # {} /\ AwaitArp(pkt.dst, pkt)
     \/ \E e \in answer' :
          /\ Resolved(pkt.dst)
          /\ InstallPair(e.key, e.port, pkt.dst, pkt.dport)
          /\ UNCHANGED <<arpVars, asked>>

(* _handle_outgoing: first the MAC of the destination, then the entry.     *)
(* Echo packets get no flows, but are translated one by one.               *)
_handle_outgoing(pkt) ==
  \/ /\ pkt \in Outgoing \cup EchoOut
     /\ AwaitArp(pkt.dst, pkt)
     /\ UNCHANGED <<natVars, icmpVars>>
  \/ /\ pkt \in EchoOut /\ Resolved(pkt.dst)
     /\ ICMP!create_entry(pkt.src, pkt.sport)
     /\ UNCHANGED <<arpVars, natVars, flows, asked>>
  \/ /\ pkt \in Outgoing /\ Resolved(pkt.dst)
     /\ OpenSession(<<pkt.proto, pkt.src, pkt.sport>>, pkt.dst, pkt.dport)
     /\ UNCHANGED <<arpVars, icmpVars, asked>>

(* _handle_incoming: first the reverse entry, then the MAC of its host; a  *)
(* packet without an entry is dropped.                                     *)
IncomingEcho(pkt) ==
  /\ pkt \in EchoIn
  /\ ICMP!get_reverse_entry(pkt.dport)
  /\ UNCHANGED <<natVars, flows>>
  /\ \/ icmp_answer' = {} /\ UNCHANGED <<arpVars, asked>>
     \/ \E e \in icmp_answer' :
          \/ AwaitArp(e.key[2], pkt)
          \/ Resolved(e.key[2]) /\ UNCHANGED <<arpVars, asked>>

_handle_incoming(pkt) ==
  \/ IncomingEcho(pkt)
  \/ /\ pkt \in Incoming
     /\ NAT!get_reverse_entry(pkt.proto, pkt.dport)
     /\ \/ answer' = {} /\ UNCHANGED <<arpVars, flows, asked>>
        \/ \E e \in answer' :
             \/ AwaitArp(e.key[2], pkt)
             \/ /\ Resolved(e.key[2])
                /\ InstallPair(e.key, pkt.dport, pkt.src, pkt.sport)
                /\ UNCHANGED <<arpVars, asked>>
     /\ UNCHANGED icmpVars

(* _handle_private_to_private: forwarded as it is, and flows both ways.    *)
_handle_private_to_private(pkt) ==
  /\ pkt \in Local
  /\ \/ AwaitArp(pkt.dst, pkt)
     \/ /\ Resolved(pkt.dst)
        /\ _install_flow([m \in {pkt, LocalHeader(pkt.dst, pkt.src)} |-> m])
        /\ UNCHANGED <<arpVars, asked>>
  /\ UNCHANGED <<natVars, icmpVars>>

handle_ip(pkt) ==
  _handle_outgoing(pkt) \/ _handle_incoming(pkt) \/ _handle_private_to_private(pkt)

-----------------------------------------------------------------------------
(* The events of the controller.                                           *)

(* A packet that matches no flow of the switch comes to the controller.    *)
(* The last conjunct is the bound: it joins no queue that is full, and     *)
(* none comes while a queue is longer, by packets that had to wait again.  *)
PacketIn(pkt) ==
  /\ resuming = <<>>
  /\ pkt \notin DOMAIN flows
  /\ handle_ip(pkt)
  /\ UNCHANGED resuming
  /\ \A a \in DOMAIN waiting_queue' : Len(waiting_queue'[a]) =< MAX_WAITING

(* An ARP packet sent by the host of address a, a request of its own or    *)
(* the answer to the router's: it is learnt, and whatever waits for a is   *)
(* taken out of the queue ...                                              *)
handle_arp(a) ==
  /\ resuming = <<>>
  /\ learn_arp_entry(a)
  /\ dequeue_packets(a)
  /\ resuming' = Waiting(a)
  /\ asked' = asked \ {a}
  /\ UNCHANGED <<natVars, icmpVars, flows>>

(* What the router asked a for is lost, or the answer.                     *)
LoseRequest(a) ==
  /\ Lossy
  /\ a \in asked
  /\ asked' = asked \ {a}
  /\ UNCHANGED <<arpVars, natVars, icmpVars, flows, resuming>>

(* ... to be handled from the start, one packet after the other.           *)
ResumeNext ==
  /\ resuming # <<>>
  /\ handle_ip(Head(resuming))
  /\ resuming' = Tail(resuming)

(* A packet matches a flow: the switch rewrites and forwards it, and the   *)
(* controller does not see it.                                             *)
Forward(m) ==
  /\ m \in DOMAIN flows
  /\ flows' = [flows EXCEPT ![m].idle = 0]
  /\ UNCHANGED <<arpVars, natVars, icmpVars, resuming, asked>>

(* Time passes; the switch drops a flow that was idle for idle_timeout,    *)
(* which is ENTRY_TIMEOUT too.                                             *)
Tick ==
  /\ NAT!Tick
  /\ ICMP!Tick
  /\ ArpTick
  /\ LET active == {m \in DOMAIN flows : flows[m].idle < ENTRY_TIMEOUT} IN
     flows' = [m \in active |-> [to |-> flows[m].to, idle |-> flows[m].idle + 1]]
  /\ UNCHANGED <<resuming, asked>>

Next ==
  \/ \E pkt \in Packets : PacketIn(pkt)
  \/ \E a \in Addresses : handle_arp(a) \/ LoseRequest(a)
  \/ ResumeNext
  \/ \E m \in DOMAIN flows : Forward(m)
  \/ Tick

Spec == Init /\ [][Next]_vars

-----------------------------------------------------------------------------
(* The shape of the tables of the router; those of the NAT and ICMP tables *)
(* are NatHandler's own.                                                   *)
TypeOK ==
  /\ DOMAIN arp_table \subseteq Addresses
  /\ arp_table \in [DOMAIN arp_table -> 0..(ENTRY_TIMEOUT + 1)]
  /\ DOMAIN waiting_queue \subseteq Addresses \cup {PRIVATE_IP} \cup Silent
  /\ waiting_queue \in [DOMAIN waiting_queue -> Seq(Packets)]
  /\ resuming \in Seq(Packets)
  /\ asked \subseteq Addresses
  /\ DOMAIN flows \subseteq
       Outgoing \cup Incoming \cup {LocalHeader(a, b) : a \in Addresses, b \in Addresses}
  /\ \A m \in DOMAIN flows : flows[m].idle \in 0..ENTRY_TIMEOUT
  /\ NAT!TypeOK
  /\ ICMP!Table!TypeOK

(* No packet is left behind in the queue of an address that was resolved:  *)
(* a packet joins it only while there is no entry, learning an entry       *)
(* empties it, and only learning - never the reaping of another entry, nor *)
(* the resumption of a packet - can bring the address back.                *)
NothingWaitsForKnown == DOMAIN waiting_queue \cap DOMAIN arp_table = {}

(* The queue of address a gets longer at its end, or is resumed as a whole. *)
Extends(a) ==
  /\ a \in DOMAIN waiting_queue'
  /\ Len(waiting_queue[a]) =< Len(waiting_queue'[a])
  /\ waiting_queue[a] = SubSeq(waiting_queue'[a], 1, Len(waiting_queue[a]))
Resumes(a) == a \notin DOMAIN waiting_queue' /\ resuming' = waiting_queue[a]

InOrder ==
  /\ \A a \in DOMAIN waiting_queue : Extends(a) \/ Resumes(a)
  /\ resuming # <<>> => resuming' \in {resuming, Tail(resuming)}

(* Packets that wait for one address are handled in the order in which     *)
(* they came, none of them twice and none lost: its queue is extended or   *)
(* resumed, and what is being resumed shrinks from its front only.         *)
WaitingInOrder == [][InOrder]_vars

(* The packet that answers one with header h. *)
Answering(h) == Header(h.proto, h.dst, h.dport, h.src, h.sport)

(* The translation of the flow with match m is none, inside the private    *)
(* network, or the one the NAT table has, in an entry that is not expired. *)
MatchesTable(m) == IF m.proto = "IP" THEN flows'[m].to = m ELSE
  \E k \in DOMAIN nat_table' :
    /\ nat_table'[k].age =< ENTRY_TIMEOUT
    /\ \/ /\ k = <<m.proto, m.src, m.sport>>
          /\ flows'[m].to = Header(m.proto, PUBLIC_IP, nat_table'[k].port, m.dst, m.dport)
       \/ /\ m.dport = nat_table'[k].port
          /\ flows'[m].to = Header(m.proto, m.src, m.sport, k[2], k[3])

(* Every flow that a step makes or changes is right in this sense, and the *)
(* flow of its answers is there too.                                       *)
NewFlowsAgree ==
  \A m \in DOMAIN flows' :
    m \notin DOMAIN flows \/ flows'[m].to # flows[m].to =>
      /\ MatchesTable(m)
      /\ Answering(flows'[m].to) \in DOMAIN flows'
      /\ flows'[Answering(flows'[m].to)].to = Answering(m)

(* Flows are installed for an endpoint and the public port it holds at     *)
(* that moment - also for a packet that waited while the table changed -   *)
(* and both ways at once: the answer to a rewritten packet is rewritten to *)
(* the answer of the packet.                                               *)
InstalledFlowsAgree == [][NewFlowsAgree]_vars

(* No public port is leased to a session that the switch does not know:    *)
(* as long as an entry of the NAT table has not expired, some packet of    *)
(* its endpoint, and the answer to it, are translated by the switch        *)
(* accordingly.  Entries are made with their flows, also for packets that  *)
(* waited, and die with them at the latest (tp2/main.tex:312); flows that  *)
(* are replaced, refreshed or dropped never leave a live entry without.    *)
LeasesHaveFlows ==
  \A k \in DOMAIN nat_table : nat_table[k].age =< ENTRY_TIMEOUT =>
    \E r \in Remotes, d \in RemotePorts :
      LET p == nat_table[k].port IN
      /\ {OutMatch(k, r, d), InMatch(k, p, r, d)} \subseteq DOMAIN flows
      /\ flows[OutMatch(k, r, d)].to = Header(k[1], PUBLIC_IP, p, r, d)
      /\ flows[InMatch(k, p, r, d)].to = Header(k[1], r, d, k[2], k[3])

-----------------------------------------------------------------------------
(* Liveness: a host answers an ARP request that was not lost.  Strong      *)
(* fairness, because an answer may come while the controller is busy with  *)
(* other events; it handles them in the order in which they come.          *)
Fairness ==
  /\ WF_vars(ResumeNext)
  /\ \A a \in Addresses : SF_vars(a \in asked /\ handle_arp(a))

LiveSpec == Spec /\ Fairness

(* The packets whose handler resolves the address they are sent to.        *)
Outbound == {pkt \in Outgoing \cup EchoOut \cup Local : pkt.dst \in Addresses}

(* Packet pkt is in some queue, or in the list that is being resumed.      *)
Waits(pkt) ==
  \/ \E i \in DOMAIN resuming : resuming[i] = pkt
  \/ \E a \in DOMAIN waiting_queue : \E i \in DOMAIN waiting_queue[a] :
       waiting_queue[a][i] = pkt

(* Every packet for a host is handled in the end, and never for good put   *)
(* back to wait; and no queue of a host keeps what it holds.  (An answer   *)
(* from outside may move to the queue of another host, when the port it is *)
(* sent to changed hands while it waited.)                                 *)
WaitingEnds ==
  /\ \A pkt \in Outbound : Waits(pkt) ~> ~Waits(pkt)
  /\ \A a \in Addresses : (a \in DOMAIN waiting_queue) ~> (a \notin DOMAIN waiting_queue)

-----------------------------------------------------------------------------
(* What the repository says and the code does not do.                      *)

(* tp2/main.tex:558: each session has a public port of its own, which      *)
(* "permite demultiplexar correctamente las respuestas".  Packets of two   *)
(* private endpoints never reach the same remote endpoint from the same    *)
(* public port.                                                            *)
RepliesDemultiplexed ==
  \A m, n \in DOMAIN flows :
    m \in Outgoing /\ n \in Outgoing /\ flows[m].to = flows[n].to => m = n
=============================================================================
