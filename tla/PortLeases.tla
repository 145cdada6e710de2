----------------------------- MODULE PortLeases -----------------------------
(***************************************************************************)
(* What the NAT/PAT table promises the router: a public port is leased to  *)
(* one owner at a time, for ENTRY_TIMEOUT, whoever else asks for one; the  *)
(* owner of a port can be looked up while its lease lasts and no longer;   *)
(* and a lease is refused only while every port is leased.                 *)
(*                                                                         *)
(* A lease ends by itself when its time is over.  There is no pool of free *)
(* ports, no reverse table, and nothing is ever reaped: those are how      *)
(* NatHandler keeps the promise, and it is shown to implement this module. *)
(***************************************************************************)
EXTENDS Naturals

CONSTANTS
  Owners,          \* private endpoints: tuples that start with a protocol
  Protocols,
  Ports,
  ENTRY_TIMEOUT

VARIABLES
  leases,          \* owner -> [port, age]
  answer           \* what the last request was told: at most one [key, port]

vars == <<leases, answer>>

Init == leases = <<>> /\ answer = {}

Leased(p) == \E k \in DOMAIN leases : leases[k].port = p

(* Owner k is told the port it has, and its lease is not renewed. *)
Remind(k) ==
  /\ k \in DOMAIN leases
  /\ answer' = {[key |-> k, port |-> leases[k].port]}
  /\ UNCHANGED leases

(* Owner k gets some port that nobody has. *)
Grant(k) ==
  /\ k \notin DOMAIN leases
  /\ \E p \in {q \in Ports : ~Leased(q)} :
       /\ leases' = [j \in DOMAIN leases \cup {k} |->
            IF j = k THEN [port |-> p, age |-> 0] ELSE leases[j]]
       /\ answer' = {[key |-> k, port |-> p]}

(* Owner k gets none, because none is left. *)
Refuse(k) ==
  /\ k \notin DOMAIN leases
  /\ \A p \in Ports : Leased(p)
  /\ answer' = {}
  /\ UNCHANGED leases

(* Whoever has port p for protocol pr. *)
LookUp(pr, p) ==
  /\ answer' = {[key |-> k, port |-> p] :
                  k \in {j \in DOMAIN leases : j[1] = pr /\ leases[j].port = p}}
  /\ UNCHANGED leases

(* Time passes, and the leases that are ENTRY_TIMEOUT old are over. *)
Tick ==
  /\ LET lasting == {k \in DOMAIN leases : leases[k].age < ENTRY_TIMEOUT} IN
     leases' = [k \in lasting |-> [port |-> leases[k].port, age |-> leases[k].age + 1]]
  /\ UNCHANGED answer

Next ==
  \/ \E k \in Owners : Remind(k) \/ Grant(k) \/ Refuse(k)
  \/ \E pr \in Protocols, p \in Ports : LookUp(pr, p)
  \/ Tick

Spec == Init /\ [][Next]_vars
=============================================================================
