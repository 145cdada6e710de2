----------------------------- MODULE NatHandler -----------------------------
(***************************************************************************)
(* The NAT/PAT table of the SDN router (tp2, handlers/nat_handler.py): the *)
(* table from private to public endpoints, its reverse, and the pool of    *)
(* public ports they are drawn from.                                       *)
(*                                                                         *)
(* Time is counted in steps, and an entry carries its age, `time.time()`   *)
(* minus its timestamp, counted up to the first value past ENTRY_TIMEOUT:  *)
(* older entries are treated alike.  The timestamp of a reverse entry is   *)
(* written and never read, and the public address is always PUBLIC_IP;     *)
(* neither is modelled.                                                    *)
(***************************************************************************)
EXTENDS Integers, FiniteSets, Functions

CONSTANTS
  Protocols,      \* "TCP", "UDP"
  Hosts,          \* private addresses
  PrivatePorts,   \* the hosts' own ports
  PAT_PORT_MIN, PAT_PORT_MAX,
  ENTRY_TIMEOUT

ASSUME PortsAssumption == PAT_PORT_MIN \in Int /\ PAT_PORT_MAX \in Int
ASSUME TimeoutAssumption == ENTRY_TIMEOUT \in Nat

VARIABLES
  nat_table,         \* nat_key -> [port, age]
  reverse_nat,       \* <<protocol, public port>> -> nat_key
  public_port_pool,  \* the public ports not in use
  answer             \* what the last operation returned: at most one
                     \* [key, port], the endpoints to translate between

vars == <<nat_table, reverse_nat, public_port_pool, answer>>

Ports == PAT_PORT_MIN..PAT_PORT_MAX
Keys == Protocols \X Hosts \X PrivatePorts
Ages == 0..(ENTRY_TIMEOUT + 1)

(* The reverse key of nat_key k when it is mapped to public port p. *)
ReverseKey(k, p) == <<k[1], p>>

Init ==
  /\ nat_table = <<>>
  /\ reverse_nat = <<>>
  /\ public_port_pool = Ports
  /\ answer = {}

-----------------------------------------------------------------------------
(* _reap_nat_table: the entries older than ENTRY_TIMEOUT leave both tables *)
(* and their ports go back to the pool.                                    *)

(* Mutant of Expired: >= in the place of >. *)
ExpiredEarly == {k \in DOMAIN nat_table : nat_table[k].age >= ENTRY_TIMEOUT}

Expired == {k \in DOMAIN nat_table : nat_table[k].age > ENTRY_TIMEOUT}
Kept == DOMAIN nat_table \ Expired

ReapedTable == Restrict(nat_table, Kept)
(* Mutant of ReapedReverse: the reverse entries stay. *)
ReapedReverseStays == reverse_nat

ReapedReverse ==
  Restrict(reverse_nat,
    DOMAIN reverse_nat \ {ReverseKey(k, nat_table[k].port) : k \in Expired})

(* release_public_port: a port outside of the range is not put back. *)
Released == {nat_table[k].port : k \in Expired} \cap Ports
(* Mutant of ReapedPool: the ports are not put back. *)
ReapedPoolLeaks == public_port_pool

ReapedPool == public_port_pool \cup Released

(* min(self.public_port_pool) *)
IsLeast(p, S) == p \in S /\ \A q \in S : p =< q

-----------------------------------------------------------------------------
(* create_pat_entry: the entry the key has - as it is, its timestamp too - *)
(* or, if a port is left, a new one in both tables.                        *)

ReturnEntry(k) ==
  /\ k \in Kept
  /\ nat_table' = ReapedTable
  /\ reverse_nat' = ReapedReverse
  /\ public_port_pool' = ReapedPool
  /\ answer' = {[key |-> k, port |-> nat_table[k].port]}

NewEntry(k) ==
  /\ k \notin Kept
  /\ \E p \in ReapedPool :
       /\ IsLeast(p, ReapedPool)
       /\ nat_table' = [j \in Kept \cup {k} |->
            IF j = k THEN [port |-> p, age |-> 0] ELSE nat_table[j]]
       /\ reverse_nat' = [r \in DOMAIN ReapedReverse \cup {ReverseKey(k, p)} |->
            IF r = ReverseKey(k, p) THEN k ELSE ReapedReverse[r]]
       /\ public_port_pool' = ReapedPool \ {p}
       /\ answer' = {[key |-> k, port |-> p]}

NoPortLeft(k) ==
  /\ k \notin Kept
  /\ ReapedPool = {}
  /\ nat_table' = ReapedTable
  /\ reverse_nat' = ReapedReverse
  /\ public_port_pool' = ReapedPool
  /\ answer' = {}

create_pat_entry(k) == ReturnEntry(k) \/ NewEntry(k) \/ NoPortLeft(k)

(* Mutant of get_reverse_entry: it does not reap. *)
get_reverse_entry_unreaped(pr, p) ==
  /\ answer' = IF <<pr, p>> \in DOMAIN reverse_nat
                 THEN {[key |-> reverse_nat[<<pr, p>>], port |-> p]}
                 ELSE {}
  /\ UNCHANGED <<nat_table, reverse_nat, public_port_pool>>

(* get_reverse_entry: reap, then look the public endpoint up. *)
get_reverse_entry(pr, p) ==
  /\ nat_table' = ReapedTable
  /\ reverse_nat' = ReapedReverse
  /\ public_port_pool' = ReapedPool
  /\ answer' = IF <<pr, p>> \in DOMAIN ReapedReverse
                 THEN {[key |-> reverse_nat[<<pr, p>>], port |-> p]}
                 ELSE {}

(* Time passes. *)
Tick ==
  /\ nat_table' = [k \in DOMAIN nat_table |->
       [port |-> nat_table[k].port,
        age |-> IF nat_table[k].age > ENTRY_TIMEOUT
                  THEN nat_table[k].age ELSE nat_table[k].age + 1]]
  /\ UNCHANGED <<reverse_nat, public_port_pool, answer>>

Next ==
  \/ \E k \in Keys : create_pat_entry(k)
  \/ \E pr \in Protocols, p \in Ports : get_reverse_entry(pr, p)
  \/ Tick

Spec == Init /\ [][Next]_vars

-----------------------------------------------------------------------------
(* The shape of the tables.                                                *)
TypeOK ==
  /\ DOMAIN nat_table \subseteq Keys
  /\ nat_table \in [DOMAIN nat_table -> [port : Ports, age : Ages]]
  /\ DOMAIN reverse_nat \subseteq Protocols \X Ports
  /\ reverse_nat \in [DOMAIN reverse_nat -> Keys]
  /\ public_port_pool \subseteq Ports
  /\ answer \subseteq [key : Keys, port : Ports]

(* The two tables are each other's inverse: a reply to the public endpoint *)
(* of an entry finds the private endpoint that owns it, and no reverse     *)
(* entry outlives its entry.                                               *)
TablesAgree ==
  /\ \A k \in DOMAIN nat_table :
       /\ ReverseKey(k, nat_table[k].port) \in DOMAIN reverse_nat
       /\ reverse_nat[ReverseKey(k, nat_table[k].port)] = k
  /\ \A r \in DOMAIN reverse_nat :
       /\ reverse_nat[r] \in DOMAIN nat_table
       /\ r = ReverseKey(reverse_nat[r], nat_table[reverse_nat[r]].port)

(* A public port is in the pool or in exactly one entry, of any protocol:  *)
(* reaping and allocating lose no port and hand none out twice.            *)
PortsPartitioned ==
  /\ public_port_pool \cap {nat_table[k].port : k \in DOMAIN nat_table} = {}
  /\ public_port_pool \cup {nat_table[k].port : k \in DOMAIN nat_table} = Ports
  /\ \A j, k \in DOMAIN nat_table : nat_table[j].port = nat_table[k].port => j = k

(* Whatever an operation answers comes from an entry that is in the table  *)
(* and not expired when it is given: no stale translation is used.  Every  *)
(* step but Tick is an operation.                                          *)
AnswersAreFresh ==
  [][~Tick => \A a \in answer' :
       /\ a.key \in DOMAIN nat_table'
       /\ nat_table'[a.key].port = a.port
       /\ nat_table'[a.key].age =< ENTRY_TIMEOUT]_vars

(* An endpoint keeps its public port for ENTRY_TIMEOUT: until then no step *)
(* takes it away or gives it to another.                                   *)
PortKeptUntilTimeout ==
  [][\A k \in DOMAIN nat_table : nat_table[k].age =< ENTRY_TIMEOUT =>
       k \in DOMAIN nat_table' /\ nat_table'[k].port = nat_table[k].port]_vars

(* A new session is refused only when every public port is held by an      *)
(* entry that has not expired: expired ones are reaped first.              *)
RefusedOnlyWhenFull ==
  [][\A k \in Keys : NoPortLeft(k) =>
       \A p \in Ports : \E j \in DOMAIN nat_table' :
         nat_table'[j].port = p /\ nat_table'[j].age =< ENTRY_TIMEOUT]_vars
-----------------------------------------------------------------------------
(* The table keeps what PortLeases promises.  Its entries that have not    *)
(* expired are the leases: that the others stay in it until some operation *)
(* reaps them is not to be seen, neither in an answer nor in a refusal.    *)
Leases == INSTANCE PortLeases WITH Owners <- Keys, leases <- ReapedTable

ImplementsPortLeases == Leases!Spec
=============================================================================
