----------------------------- MODULE ArpHandler -----------------------------
(***************************************************************************)
(* The ARP table of the SDN router and the packets that wait for an entry  *)
(* of it (tp2, handlers/arp_handler.py).  ProtoRouter EXTENDS this module  *)
(* and calls its operations.                                               *)
(*                                                                         *)
(* An entry is abstracted to its age, counted as in NatHandler: hosts keep *)
(* their MAC and their port of the switch, so that what an entry says      *)
(* about its address never changes.                                        *)
(***************************************************************************)
EXTENDS Integers, Sequences, Functions

CONSTANTS
  Addresses,      \* the addresses that answer ARP requests
  ENTRY_TIMEOUT

ASSUME EntryTimeoutAssumption == ENTRY_TIMEOUT \in Nat

VARIABLES
  arp_table,      \* address -> age of its entry
  waiting_queue   \* address -> the packets that wait for it, oldest first

arpVars == <<arp_table, waiting_queue>>

Older(age) == IF age > ENTRY_TIMEOUT THEN age ELSE age + 1

ArpInit ==
  /\ arp_table = <<>>
  /\ waiting_queue = <<>>

(* get_mac, get_port: the age of the entry is not looked at. *)
Resolved(a) == a \in DOMAIN arp_table

(* _reap_arp_table. *)
Fresh == {a \in DOMAIN arp_table : arp_table[a] =< ENTRY_TIMEOUT}

(* Mutant of learn_arp_entry: only what is known already is refreshed. *)
learn_arp_entry_refresh(a) ==
  arp_table' = [b \in Fresh |-> IF b = a THEN 0 ELSE arp_table[b]]

learn_arp_entry(a) ==
  arp_table' = [b \in Fresh \cup {a} |-> IF b = a THEN 0 ELSE arp_table[b]]

Waiting(a) == IF a \in DOMAIN waiting_queue THEN waiting_queue[a] ELSE <<>>

(* Mutant of enqueue_packet: every packet begins a list of its own. *)
enqueue_packet_anew(a, pkt) ==
  waiting_queue' = [b \in DOMAIN waiting_queue \cup {a} |->
    IF b = a THEN <<pkt>> ELSE waiting_queue[b]]

enqueue_packet(a, pkt) ==
  waiting_queue' = [b \in DOMAIN waiting_queue \cup {a} |->
    IF b = a THEN Append(Waiting(a), pkt) ELSE waiting_queue[b]]

(* Mutant of dequeue_packets: the list is read and stays in the queue. *)
dequeue_packets_kept(a) == UNCHANGED waiting_queue

dequeue_packets(a) ==
  waiting_queue' = Restrict(waiting_queue, DOMAIN waiting_queue \ {a})

(* Time passes. *)
ArpTick ==
  /\ arp_table' = [a \in DOMAIN arp_table |-> Older(arp_table[a])]
  /\ UNCHANGED waiting_queue
=============================================================================
