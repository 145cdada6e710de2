-------------------------- MODULE NatHandlerProofs --------------------------
(***************************************************************************)
(* Proofs about NatHandler, for every set of endpoints, every range of     *)
(* public ports and every timeout.  TypeOK, TablesAgree and                *)
(* PortsPartitioned are inductive only together: that a reaped entry takes *)
(* the right reverse entry with it needs that no two entries share a port. *)
(***************************************************************************)
EXTENDS NatHandler, TLAPS

NatInv == TypeOK /\ TablesAgree /\ PortsPartitioned

-----------------------------------------------------------------------------
(* What _reap_nat_table leaves behind: the entries that have not expired,  *)
(* exactly their reverse entries, and every other port in the pool.        *)
LEMMA Reaped ==
  ASSUME NatInv
  PROVE  /\ DOMAIN ReapedTable = Kept
         /\ \A k \in Kept : ReapedTable[k] = nat_table[k]
         /\ \A k \in Kept :
              /\ ReverseKey(k, nat_table[k].port) \in DOMAIN ReapedReverse
              /\ ReapedReverse[ReverseKey(k, nat_table[k].port)] = k
         /\ \A r \in DOMAIN ReapedReverse :
              /\ ReapedReverse[r] \in Kept
              /\ ReapedReverse[r] = reverse_nat[r]
              /\ r = ReverseKey(ReapedReverse[r], nat_table[ReapedReverse[r]].port)
         /\ DOMAIN ReapedReverse \subseteq DOMAIN reverse_nat
         /\ ReapedPool \cap {nat_table[k].port : k \in Kept} = {}
         /\ ReapedPool \cup {nat_table[k].port : k \in Kept} = Ports
<1> USE DEF NatInv
<1>1. DOMAIN ReapedTable = Kept /\ \A k \in Kept : ReapedTable[k] = nat_table[k]
  BY DEF ReapedTable, Restrict
<1> DEFINE gone == {ReverseKey(k, nat_table[k].port) : k \in Expired}
<1>2. /\ DOMAIN ReapedReverse = DOMAIN reverse_nat \ gone
      /\ \A r \in DOMAIN ReapedReverse : ReapedReverse[r] = reverse_nat[r]
  BY DEF ReapedReverse, Restrict
<1>3. Kept \cup Expired = DOMAIN nat_table /\ Kept \cap Expired = {}
  BY DEF Kept, Expired
<1>4. ASSUME NEW k \in Kept
      PROVE  /\ ReverseKey(k, nat_table[k].port) \in DOMAIN ReapedReverse
             /\ ReapedReverse[ReverseKey(k, nat_table[k].port)] = k
  <2>1. /\ ReverseKey(k, nat_table[k].port) \in DOMAIN reverse_nat
        /\ reverse_nat[ReverseKey(k, nat_table[k].port)] = k
    BY <1>3 DEF TablesAgree
  <2>2. ReverseKey(k, nat_table[k].port) \notin gone
    BY <1>3 DEF PortsPartitioned, ReverseKey
  <2> QED
    BY <1>2, <2>1, <2>2
<1>5. ASSUME NEW r \in DOMAIN ReapedReverse
      PROVE  /\ reverse_nat[r] \in Kept
             /\ r = ReverseKey(reverse_nat[r], nat_table[reverse_nat[r]].port)
  BY <1>2, <1>3 DEF TablesAgree
<1>6. /\ ReapedPool \cap {nat_table[k].port : k \in Kept} = {}
      /\ ReapedPool \cup {nat_table[k].port : k \in Kept} = Ports
  BY <1>3 DEF ReapedPool, Released, PortsPartitioned
<1> QED
  BY <1>1, <1>2, <1>4, <1>5, <1>6

(* An operation that only reaps: whatever it answers from the table left.  *)
LEMMA ReapPreserves ==
  ASSUME NatInv,
         nat_table' = ReapedTable, reverse_nat' = ReapedReverse,
         public_port_pool' = ReapedPool,
         answer' \subseteq [key : Keys, port : Ports]
  PROVE  NatInv'
<1> USE DEF NatInv
<1>1. Kept \subseteq DOMAIN nat_table
  BY DEF Kept
<1>2. nat_table' \in [DOMAIN nat_table' -> [port : Ports, age : Ages]]
  BY <1>1 DEF ReapedTable, Restrict, TypeOK
<1>3. TypeOK'
  <2>1. reverse_nat' \in [DOMAIN reverse_nat' -> Keys]
    BY DEF ReapedReverse, Restrict, TypeOK
  <2> QED
    BY <1>1, <1>2, <2>1, Reaped DEF TypeOK
<1>4. TablesAgree'
  BY Reaped DEF TablesAgree
<1>5. PortsPartitioned'
  BY <1>1, Reaped DEF PortsPartitioned
<1> QED
  BY <1>3, <1>4, <1>5

(* A new entry takes a port that nobody has.                               *)
LEMMA NewEntryPreserves ==
  ASSUME NatInv, NEW k \in Keys, NewEntry(k)
  PROVE  NatInv'
<1>1. PICK p \in ReapedPool :
        /\ nat_table' = [j \in Kept \cup {k} |->
             IF j = k THEN [port |-> p, age |-> 0] ELSE nat_table[j]]
        /\ reverse_nat' = [r \in DOMAIN ReapedReverse \cup {ReverseKey(k, p)} |->
             IF r = ReverseKey(k, p) THEN k ELSE ReapedReverse[r]]
        /\ public_port_pool' = ReapedPool \ {p}
        /\ answer' = {[key |-> k, port |-> p]}
  BY DEF NewEntry
<1>2. k \notin Kept /\ Kept \subseteq DOMAIN nat_table
  BY DEF NewEntry, Kept
<1>3. p \in Ports /\ p \notin {nat_table[j].port : j \in Kept}
  BY Reaped
<1>4. /\ DOMAIN nat_table' = Kept \cup {k}
      /\ nat_table'[k] = [port |-> p, age |-> 0]
      /\ \A j \in Kept : nat_table'[j] = nat_table[j]
  BY <1>1, <1>2
<1>5. ReverseKey(k, p) \notin DOMAIN ReapedReverse
  BY <1>3, Reaped DEF ReverseKey
<1>6. /\ DOMAIN reverse_nat' = DOMAIN ReapedReverse \cup {ReverseKey(k, p)}
      /\ reverse_nat'[ReverseKey(k, p)] = k
      /\ \A r \in DOMAIN ReapedReverse : reverse_nat'[r] = ReapedReverse[r]
  BY <1>1, <1>5
<1>7. TypeOK'
  <2>1. 0 \in Ages
    BY TimeoutAssumption DEF Ages
  <2>2. nat_table' \in [DOMAIN nat_table' -> [port : Ports, age : Ages]]
    BY <1>1, <1>2, <1>3, <2>1 DEF NatInv, TypeOK
  <2>3. ReverseKey(k, p) \in Protocols \X Ports
    BY <1>3 DEF ReverseKey, Keys
  <2>4. reverse_nat' \in [DOMAIN reverse_nat' -> Keys]
    <3>1. \A r \in DOMAIN ReapedReverse : ReapedReverse[r] \in Keys
      BY <1>2, Reaped DEF NatInv, TypeOK
    <3> QED
      BY <1>1, <3>1
  <2>5. DOMAIN reverse_nat' \subseteq Protocols \X Ports
    BY <1>6, <2>3, Reaped DEF NatInv, TypeOK
  <2>6. public_port_pool' \subseteq Ports /\ answer' \subseteq [key : Keys, port : Ports]
    BY <1>1, <1>3, Reaped
  <2>7. DOMAIN nat_table' \subseteq Keys
    BY <1>2, <1>4 DEF NatInv, TypeOK
  <2> QED
    BY <2>2, <2>4, <2>5, <2>6, <2>7 DEF TypeOK
<1>8. TablesAgree'
  <2>1. ASSUME NEW j \in DOMAIN nat_table'
        PROVE  /\ ReverseKey(j, nat_table'[j].port) \in DOMAIN reverse_nat'
               /\ reverse_nat'[ReverseKey(j, nat_table'[j].port)] = j
    BY <1>4, <1>6, Reaped
  <2>2. ASSUME NEW r \in DOMAIN reverse_nat'
        PROVE  /\ reverse_nat'[r] \in DOMAIN nat_table'
               /\ r = ReverseKey(reverse_nat'[r], nat_table'[reverse_nat'[r]].port)
    BY <1>4, <1>6, Reaped
  <2> QED
    BY <2>1, <2>2 DEF TablesAgree
<1>9. PortsPartitioned'
  <2>1. {nat_table'[j].port : j \in DOMAIN nat_table'}
          = {nat_table[j].port : j \in Kept} \cup {p}
    BY <1>4
  <2>2. /\ public_port_pool' \cap {nat_table'[j].port : j \in DOMAIN nat_table'} = {}
        /\ public_port_pool' \cup {nat_table'[j].port : j \in DOMAIN nat_table'} = Ports
    BY <1>1, <1>3, <2>1, Reaped
  <2>3. \A i, j \in DOMAIN nat_table' : nat_table'[i].port = nat_table'[j].port => i = j
    BY <1>2, <1>3, <1>4 DEF NatInv, PortsPartitioned
  <2> QED
    BY <2>2, <2>3 DEF PortsPartitioned
<1> QED
  BY <1>7, <1>8, <1>9 DEF NatInv

(* Time changes only the ages.                                             *)
LEMMA TickPreserves == ASSUME NatInv, Tick PROVE NatInv'
<1> USE DEF NatInv, Tick
<1>1. /\ DOMAIN nat_table' = DOMAIN nat_table
      /\ \A k \in DOMAIN nat_table : nat_table'[k].port = nat_table[k].port
  OBVIOUS
<1>2. TypeOK'
  <2>1. ASSUME NEW k \in DOMAIN nat_table
        PROVE  nat_table'[k] \in [port : Ports, age : Ages]
    <3>1. nat_table[k].port \in Ports /\ nat_table[k].age \in Ages
      BY DEF TypeOK
    <3> QED
      BY <3>1, TimeoutAssumption DEF Ages
  <2> QED
    BY <2>1 DEF TypeOK
<1>3. TablesAgree'
  BY <1>1 DEF TablesAgree
<1>4. PortsPartitioned'
  <2>1. {nat_table'[k].port : k \in DOMAIN nat_table'}
          = {nat_table[k].port : k \in DOMAIN nat_table}
    BY <1>1
  <2> QED
    BY <1>1, <2>1 DEF PortsPartitioned
<1> QED
  BY <1>2, <1>3, <1>4

(* The tables are empty at first, and every port is in the pool. *)
LEMMA InitNat == ASSUME Init PROVE NatInv
  BY DEF Init, NatInv, TypeOK, TablesAgree, PortsPartitioned

(* Every operation keeps the invariant.                                    *)
LEMMA NextPreserves == ASSUME NatInv, [Next]_vars PROVE NatInv'
<1>1. CASE \E k \in Keys : ReturnEntry(k)
  <2>1. PICK k \in Keys : ReturnEntry(k)
    BY <1>1
  <2>2. nat_table[k].port \in Ports
    BY <2>1 DEF ReturnEntry, Kept, NatInv, TypeOK
  <2> QED
    BY <2>1, <2>2, ReapPreserves DEF ReturnEntry
<1>2. CASE \E k \in Keys : NewEntry(k)
  BY <1>2, NewEntryPreserves
<1>3. CASE \E k \in Keys : NoPortLeft(k)
  BY <1>3, ReapPreserves DEF NoPortLeft
<1>4. CASE \E pr \in Protocols, p \in Ports : get_reverse_entry(pr, p)
  <2>1. PICK pr \in Protocols, p \in Ports : get_reverse_entry(pr, p)
    BY <1>4
  <2>2. <<pr, p>> \in DOMAIN ReapedReverse => reverse_nat[<<pr, p>>] \in Keys
    BY Reaped DEF NatInv, TypeOK
  <2> QED
    BY <2>1, <2>2, ReapPreserves DEF get_reverse_entry
<1>5. CASE Tick
  BY <1>5, TickPreserves
<1>6. CASE UNCHANGED vars
  BY <1>6 DEF vars, NatInv, TypeOK, TablesAgree, PortsPartitioned
<1> QED
  BY <1>1, <1>2, <1>3, <1>4, <1>5, <1>6 DEF Next, create_pat_entry

(* The tables stay each other's inverse and the ports stay partitioned     *)
(* between the pool and the entries, whatever expires when.                *)
THEOREM NatInvariant == Spec => []NatInv
<1>1. Init => NatInv
  BY InitNat
<1>2. NatInv /\ [Next]_vars => NatInv'
  BY NextPreserves
<1> QED
  BY <1>1, <1>2, PTL DEF Spec

(* The tables and the pool keep their types.                               *)
THEOREM NatTypeCorrect == Spec => []TypeOK
  BY NatInvariant, PTL DEF NatInv

(* A reply to the public endpoint of an entry finds the private endpoint   *)
(* that owns it (create_pat_entry, _reap_nat_table).                       *)
THEOREM NatTablesAgree == Spec => []TablesAgree
  BY NatInvariant, PTL DEF NatInv

(* No public port is lost or given to two endpoints at a time              *)
(* (allocate_public_port, release_public_port).                            *)
THEOREM NatPortsPartitioned == Spec => []PortsPartitioned
  BY NatInvariant, PTL DEF NatInv

-----------------------------------------------------------------------------
(* What an operation does to the table: every kept entry stays as it is,   *)
(* and what it answers is an entry of the table that has not expired.      *)
LEMMA OperationStep ==
  ASSUME NatInv,
         \/ \E k \in Keys : create_pat_entry(k)
         \/ \E pr \in Protocols, p \in Ports : get_reverse_entry(pr, p)
  PROVE  /\ \A k \in Kept : k \in DOMAIN nat_table' /\ nat_table'[k] = nat_table[k]
         /\ \A a \in answer' : /\ a.key \in DOMAIN nat_table'
                               /\ nat_table'[a.key].port = a.port
                               /\ nat_table'[a.key].age =< ENTRY_TIMEOUT
<1>1. /\ Kept \subseteq DOMAIN nat_table
      /\ \A k \in Kept : nat_table[k].age =< ENTRY_TIMEOUT
  <2>1. \A k \in DOMAIN nat_table : nat_table[k].age \in Nat
    BY TimeoutAssumption DEF NatInv, TypeOK, Ages
  <2> QED
    BY <2>1, TimeoutAssumption DEF Kept, Expired
<1>2. CASE \E k \in Keys : ReturnEntry(k) \/ NoPortLeft(k)
  BY <1>1, <1>2, Reaped DEF ReturnEntry, NoPortLeft
<1>3. CASE \E k \in Keys : NewEntry(k)
  <2>1. PICK k \in Keys : NewEntry(k)
    BY <1>3
  <2>2. PICK p \in ReapedPool :
        /\ nat_table' = [j \in Kept \cup {k} |->
             IF j = k THEN [port |-> p, age |-> 0] ELSE nat_table[j]]
        /\ answer' = {[key |-> k, port |-> p]}
    BY <2>1 DEF NewEntry
  <2>3. k \notin Kept /\ 0 =< ENTRY_TIMEOUT
    BY <2>1, TimeoutAssumption DEF NewEntry
  <2> QED
    BY <2>2, <2>3
<1>4. CASE \E pr \in Protocols, p \in Ports : get_reverse_entry(pr, p)
  <2>1. PICK pr \in Protocols, p \in Ports : get_reverse_entry(pr, p)
    BY <1>4
  <2>2. nat_table' = ReapedTable
    BY <2>1 DEF get_reverse_entry
  <2>3. CASE <<pr, p>> \in DOMAIN ReapedReverse
    <3>1. /\ reverse_nat[<<pr, p>>] \in Kept
          /\ nat_table[reverse_nat[<<pr, p>>]].port = p
      BY <2>3, Reaped DEF ReverseKey
    <3> QED
      BY <1>1, <2>1, <2>2, <2>3, <3>1, Reaped DEF get_reverse_entry
  <2>4. CASE <<pr, p>> \notin DOMAIN ReapedReverse
    BY <2>1, <2>2, <2>4, Reaped DEF get_reverse_entry
  <2> QED
    BY <2>3, <2>4
<1> QED
  BY <1>2, <1>3, <1>4 DEF create_pat_entry

(* What an operation answers comes from an entry that has not expired      *)
(* (create_pat_entry and get_reverse_entry reap before they look).         *)
THEOREM NatAnswersAreFresh == Spec => AnswersAreFresh
<1>1. ASSUME NatInv, Next, ~Tick
      PROVE  \A a \in answer' : /\ a.key \in DOMAIN nat_table'
                                /\ nat_table'[a.key].port = a.port
                                /\ nat_table'[a.key].age =< ENTRY_TIMEOUT
  BY <1>1, OperationStep DEF Next
<1> QED
  BY <1>1, NatInvariant, PTL DEF Spec, AnswersAreFresh

(* An endpoint keeps its public port for ENTRY_TIMEOUT.                    *)
THEOREM NatPortKept == Spec => PortKeptUntilTimeout
<1>1. ASSUME NatInv, [Next]_vars, NEW k \in DOMAIN nat_table,
             nat_table[k].age =< ENTRY_TIMEOUT
      PROVE  k \in DOMAIN nat_table' /\ nat_table'[k].port = nat_table[k].port
  <2>1. k \in Kept
    <3>1. nat_table[k].age \in Int
      BY <1>1, TimeoutAssumption DEF NatInv, TypeOK, Ages
    <3> QED
      BY <1>1, <3>1, TimeoutAssumption DEF Kept, Expired
  <2>2. CASE Tick
    BY <2>2 DEF Tick
  <2>3. CASE UNCHANGED vars
    BY <2>3 DEF vars
  <2>4. CASE ~Tick /\ ~UNCHANGED vars
    BY <1>1, <2>1, <2>4, OperationStep DEF Next
  <2> QED
    BY <2>2, <2>3, <2>4
<1>2. NatInv /\ [Next]_vars =>
        [\A k \in DOMAIN nat_table : nat_table[k].age =< ENTRY_TIMEOUT =>
           k \in DOMAIN nat_table' /\ nat_table'[k].port = nat_table[k].port]_vars
  BY <1>1
<1> QED
  BY <1>2, NatInvariant, PTL DEF Spec, PortKeptUntilTimeout

(* A new session is refused only when every public port is held by an      *)
(* entry that has not expired.                                             *)
THEOREM NatRefusedOnlyWhenFull == Spec => RefusedOnlyWhenFull
<1>1. ASSUME NatInv, NEW k \in Keys, NoPortLeft(k), NEW p \in Ports
      PROVE  \E j \in DOMAIN nat_table' :
               nat_table'[j].port = p /\ nat_table'[j].age =< ENTRY_TIMEOUT
  <2>1. PICK j \in Kept : nat_table[j].port = p
    BY <1>1, Reaped DEF NoPortLeft
  <2>2. nat_table[j].age =< ENTRY_TIMEOUT
    <3>1. j \in DOMAIN nat_table /\ ~(nat_table[j].age > ENTRY_TIMEOUT)
      BY DEF Kept, Expired
    <3>2. nat_table[j].age \in Int
      BY <1>1, <3>1, TimeoutAssumption DEF NatInv, TypeOK, Ages
    <3> QED
      BY <3>1, <3>2, TimeoutAssumption
  <2>3. j \in DOMAIN nat_table' /\ nat_table'[j] = nat_table[j]
    BY <1>1, Reaped DEF NoPortLeft
  <2> QED
    BY <2>1, <2>2, <2>3
<1>2. NatInv => [\A k \in Keys : NoPortLeft(k) =>
                   \A p \in Ports : \E j \in DOMAIN nat_table' :
                     nat_table'[j].port = p /\ nat_table'[j].age =< ENTRY_TIMEOUT]_vars
  BY <1>1
<1> QED
  BY <1>2, NatInvariant, PTL DEF Spec, RefusedOnlyWhenFull
-----------------------------------------------------------------------------
(* The refinement of PortLeases, under the mapping that hides the expired  *)
(* entries.  The leases are the kept entries ...                           *)
LEMMA LeasesAreKept ==
  ASSUME NatInv
  PROVE  /\ ReapedTable = [k \in Kept |-> nat_table[k]]
         /\ Kept = {k \in DOMAIN nat_table : nat_table[k].age =< ENTRY_TIMEOUT}
         /\ \A k \in Kept : nat_table[k].age \in Nat
<1>1. \A k \in DOMAIN nat_table : nat_table[k].age \in Nat
  BY TimeoutAssumption DEF NatInv, TypeOK, Ages
<1>2. Kept = {k \in DOMAIN nat_table : nat_table[k].age =< ENTRY_TIMEOUT}
  BY <1>1, TimeoutAssumption DEF Kept, Expired
<1> QED
  BY <1>1, <1>2 DEF ReapedTable, Restrict

(* ... and after an operation there are no others: every operation reaps   *)
(* first, and the entry it may add is new.                                 *)
LEMMA OperationReaps ==
  ASSUME NatInv,
         \/ nat_table' = ReapedTable
         \/ \E k \in Keys, p \in Ports :
              nat_table' = [j \in Kept \cup {k} |->
                IF j = k THEN [port |-> p, age |-> 0] ELSE nat_table[j]],
         NatInv'
  PROVE  ReapedTable' = nat_table'
<1>1. /\ \A k \in Kept : k \in DOMAIN nat_table /\ ReapedTable[k] = nat_table[k]
      /\ DOMAIN ReapedTable = Kept
      /\ \A k \in Kept : nat_table[k].age =< ENTRY_TIMEOUT
  BY LeasesAreKept
<1>2. \A k \in DOMAIN nat_table' : nat_table'[k].age =< ENTRY_TIMEOUT
  <2>1. CASE nat_table' = ReapedTable
    BY <1>1, <2>1
  <2>2. CASE nat_table' # ReapedTable
    <3>1. PICK k \in Keys, p \in Ports :
            nat_table' = [j \in Kept \cup {k} |->
              IF j = k THEN [port |-> p, age |-> 0] ELSE nat_table[j]]
      BY <2>2
    <3>2. 0 =< ENTRY_TIMEOUT
      BY TimeoutAssumption
    <3> QED
      BY <1>1, <3>1, <3>2
  <2> QED
    BY <2>1, <2>2
<1>3. \A k \in DOMAIN nat_table' : nat_table'[k].age \in Nat
  BY TimeoutAssumption DEF NatInv, TypeOK, Ages
<1>4. Kept' = DOMAIN nat_table'
  BY <1>2, <1>3, TimeoutAssumption DEF Kept, Expired
<1>5. nat_table' = [k \in DOMAIN nat_table' |-> nat_table'[k]]
  BY DEF NatInv, TypeOK
<1> QED
  BY <1>4, <1>5 DEF ReapedTable, Restrict

(* Each operation grants, refuses or looks up as PortLeases does.          *)
LEMMA OperationLeases ==
  ASSUME NatInv, NatInv',
         \/ \E k \in Keys : create_pat_entry(k)
         \/ \E pr \in Protocols, p \in Ports : get_reverse_entry(pr, p)
  PROVE  Leases!Next
<1>1. /\ DOMAIN ReapedTable = Kept
      /\ \A k \in Kept : ReapedTable[k] = nat_table[k]
  BY Reaped
<1>2. ASSUME NEW k \in Keys, ReturnEntry(k) PROVE Leases!Remind(k)
  <2>1. ReapedTable' = ReapedTable
    BY <1>2, OperationReaps DEF ReturnEntry
  <2> QED
    BY <1>1, <1>2, <2>1 DEF ReturnEntry, Leases!Remind
<1>3. ASSUME NEW k \in Keys, NewEntry(k) PROVE Leases!Grant(k)
  <2>1. PICK p \in ReapedPool :
        /\ nat_table' = [j \in Kept \cup {k} |->
             IF j = k THEN [port |-> p, age |-> 0] ELSE nat_table[j]]
        /\ answer' = {[key |-> k, port |-> p]}
    BY <1>3 DEF NewEntry
  <2>2. p \in Ports /\ ~Leases!Leased(p)
    BY <1>1, Reaped DEF Leases!Leased
  <2>3. ReapedTable' = nat_table'
    BY <2>1, <2>2, OperationReaps
  <2>4. ReapedTable' = [j \in DOMAIN ReapedTable \cup {k} |->
          IF j = k THEN [port |-> p, age |-> 0] ELSE ReapedTable[j]]
    BY <1>1, <2>1, <2>3
  <2>5. k \notin DOMAIN ReapedTable
    BY <1>1, <1>3 DEF NewEntry
  <2> QED
    BY <2>1, <2>2, <2>4, <2>5 DEF Leases!Grant
<1>4. ASSUME NEW k \in Keys, NoPortLeft(k) PROVE Leases!Refuse(k)
  <2>1. ReapedTable' = ReapedTable
    BY <1>4, OperationReaps DEF NoPortLeft
  <2>2. \A p \in Ports : Leases!Leased(p)
    BY <1>1, <1>4, Reaped DEF NoPortLeft, Leases!Leased
  <2> QED
    BY <1>1, <1>4, <2>1, <2>2 DEF NoPortLeft, Leases!Refuse
<1>5. ASSUME NEW pr \in Protocols, NEW p \in Ports, get_reverse_entry(pr, p)
      PROVE  Leases!LookUp(pr, p)
  <2>1. ReapedTable' = ReapedTable
    BY <1>5, OperationReaps DEF get_reverse_entry
  <2> DEFINE owners == {j \in DOMAIN ReapedTable : j[1] = pr /\ ReapedTable[j].port = p}
  <2>2. ASSUME <<pr, p>> \in DOMAIN ReapedReverse
        PROVE  owners = {reverse_nat[<<pr, p>>]}
    <3>1. \A j \in Kept : \A k \in Kept : nat_table[j].port = nat_table[k].port => j = k
      BY DEF NatInv, PortsPartitioned, Kept
    <3> QED
      BY <1>1, <2>2, <3>1, Reaped DEF ReverseKey
  <2>3. ASSUME <<pr, p>> \notin DOMAIN ReapedReverse
        PROVE  owners = {}
    BY <1>1, <2>3, Reaped DEF ReverseKey
  <2>4. answer' = {[key |-> k, port |-> p] : k \in owners}
    BY <1>5, <2>2, <2>3 DEF get_reverse_entry
  <2> QED
    BY <2>1, <2>4 DEF Leases!LookUp
<1> QED
  BY <1>2, <1>3, <1>4, <1>5 DEF create_pat_entry, Leases!Next

(* An entry that ages past ENTRY_TIMEOUT is, as a lease, over.             *)
LEMMA TickLeases == ASSUME NatInv, NatInv', Tick PROVE Leases!Tick
<1>1. /\ DOMAIN ReapedTable = Kept
      /\ \A k \in Kept : ReapedTable[k] = nat_table[k]
      /\ Kept = {k \in DOMAIN nat_table : nat_table[k].age =< ENTRY_TIMEOUT}
  BY Reaped, LeasesAreKept
<1>2. /\ DOMAIN nat_table' = DOMAIN nat_table
      /\ \A k \in DOMAIN nat_table :
           nat_table'[k] = [port |-> nat_table[k].port,
                            age |-> IF nat_table[k].age > ENTRY_TIMEOUT
                                      THEN nat_table[k].age ELSE nat_table[k].age + 1]
  BY DEF Tick
<1>3. \A k \in DOMAIN nat_table : nat_table[k].age \in Nat
  BY TimeoutAssumption DEF NatInv, TypeOK, Ages
<1>4. Kept' = {k \in Kept : nat_table[k].age < ENTRY_TIMEOUT}
  BY <1>1, <1>2, <1>3, TimeoutAssumption DEF Kept, Expired
<1>5. ReapedTable' = [k \in Kept' |-> nat_table'[k]]
  BY DEF ReapedTable, Restrict, Kept
<1>6. ASSUME NEW k \in Kept'
      PROVE  nat_table'[k] = [port |-> ReapedTable[k].port, age |-> ReapedTable[k].age + 1]
  BY <1>1, <1>2, <1>3, <1>4, TimeoutAssumption
<1>7. {k \in DOMAIN ReapedTable : ReapedTable[k].age < ENTRY_TIMEOUT} = Kept'
  BY <1>1, <1>4
<1>8. ReapedTable' = [k \in Kept' |->
        [port |-> ReapedTable[k].port, age |-> ReapedTable[k].age + 1]]
  BY <1>5, <1>6
<1> QED
  BY <1>7, <1>8 DEF Tick, Leases!Tick

(* The NAT table implements PortLeases: each endpoint holds a public port  *)
(* of its own for ENTRY_TIMEOUT, replies find whoever holds the port and   *)
(* nobody else, and an endpoint is refused only when no port is free -     *)
(* whenever _reap_nat_table gets to run (nat_handler.py).                  *)
THEOREM NatImplementsPortLeases == Spec => ImplementsPortLeases
<1>1. Init => Leases!Init
  BY DEF Init, Leases!Init, ReapedTable, Restrict, Kept
<1>2. ASSUME NatInv, NatInv', [Next]_vars PROVE [Leases!Next]_(Leases!vars)
  <2>1. CASE UNCHANGED vars
    BY <2>1 DEF vars, Leases!vars, ReapedTable, Kept, Expired
  <2>2. CASE Tick
    BY <1>2, <2>2, TickLeases DEF Leases!Next
  <2>3. CASE ~Tick /\ ~UNCHANGED vars
    BY <1>2, <2>3, OperationLeases DEF Next
  <2> QED
    BY <2>1, <2>2, <2>3
<1> QED
  BY <1>1, <1>2, NatInvariant, PTL DEF Spec, ImplementsPortLeases, Leases!Spec
=============================================================================
