---------------------------- MODULE IcmpHandler ----------------------------
(***************************************************************************)
(* The table of ICMP sessions of the SDN router (handlers/icmp_handler.py). *)
(* The class is the NAT handler line by line, with the identifier of an    *)
(* echo packet in the place of the port and without the protocol in its    *)
(* keys; so its table is an instance of NatHandler, with one protocol.     *)
(***************************************************************************)
CONSTANTS
  Hosts,
  Identifiers,    \* the identifiers the hosts choose
  ICMP_ID_MIN, ICMP_ID_MAX, ENTRY_TIMEOUT

VARIABLES
  icmp_table,     \* <<"ICMP", private_ip, private_id>> -> [port, age], where
                  \* port is the public_id
  reverse_icmp,   \* <<"ICMP", public_id>> -> key
  icmp_id_pool,
  icmp_answer     \* what the last operation returned

icmpVars == <<icmp_table, reverse_icmp, icmp_id_pool, icmp_answer>>

Table == INSTANCE NatHandler WITH
  Protocols <- {"ICMP"}, PrivatePorts <- Identifiers,
  PAT_PORT_MIN <- ICMP_ID_MIN, PAT_PORT_MAX <- ICMP_ID_MAX,
  nat_table <- icmp_table, reverse_nat <- reverse_icmp,
  public_port_pool <- icmp_id_pool, answer <- icmp_answer

Init == Table!Init

create_entry(ip, id) == Table!create_pat_entry(<<"ICMP", ip, id>>)
get_reverse_entry(id) == Table!get_reverse_entry("ICMP", id)
Tick == Table!Tick

Next ==
  \/ \E ip \in Hosts, id \in Identifiers : create_entry(ip, id)
  \/ \E id \in Table!Ports : get_reverse_entry(id)
  \/ Tick

Spec == Init /\ [][Next]_icmpVars
=============================================================================
