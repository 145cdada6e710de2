------------------------- MODULE PacketHeaderProofs -------------------------
(***************************************************************************)
(* Theorems about PacketHeader, for fields of any range.                   *)
(***************************************************************************)
EXTENDS PacketHeader, TLAPS

-----------------------------------------------------------------------------
(* Arithmetic: a number made of a high and a low part gives both back.     *)

(* A smaller factor gives a smaller product. *)
LEMMA ProductMonotonic ==
  ASSUME NEW L \in Nat \ {0}, NEW a \in Int, NEW q \in Int, a < q
  PROVE  a * L + L =< q * L
  <1>1. (a + 1) * L =< q * L
    <2>1. q - (a + 1) \in Nat
      OBVIOUS
    <2>2. (q - (a + 1)) * L >= 0
      BY <2>1, SMT
    <2> QED
      BY <2>2, SMT
  <1> QED
    BY <1>1, SMT

(* Dividing a * L + b by L, with b below L. *)
LEMMA DivMod ==
  ASSUME NEW L \in Nat \ {0}, NEW a \in Nat, NEW b \in 0..(L - 1)
  PROVE  (a * L + b) \div L = a /\ (a * L + b) % L = b
  <1> DEFINE x == a * L + b
             q == x \div L
  <1>1. x \in Nat /\ a * L \in Nat
    BY SMT
  <1>2. q \in Int /\ x = q * L + (x % L) /\ x % L \in 0..(L - 1)
    BY <1>1, SMT
  <1> HIDE DEF q
  <1>3. ~(a < q)
    BY <1>1, <1>2, ProductMonotonic, SMT
  <1>4. ~(q < a)
    BY <1>1, <1>2, ProductMonotonic, SMT
  <1>5. q = a
    BY <1>2, <1>3, <1>4
  <1> QED
    BY <1>1, <1>2, <1>5 DEF q

-----------------------------------------------------------------------------
(* parse_info_bytes undoes _compose_info_field, for every packet whose     *)
(* payload is shorter than the range of the length; and INFO fits.         *)
THEOREM InfoRoundTrip ==
  ASSUME NEW p \in Packets
  PROVE  /\ _compose_info_field(p) \in Infos
         /\ parse_info_bytes(_compose_info_field(p)) =
              [type |-> p.type, op |-> p.op, protocol |-> p.protocol,
               length |-> Len(p.data)]
  <1> DEFINE L == LENGTHS
             t == p.type
             o == p.op
             c == p.protocol
             n == Len(p.data)
             info == _compose_info_field(p)
  <1>1. /\ L \in Nat \ {0} /\ TYPES \in Nat
        /\ t \in 0..(TYPES - 1) /\ o \in 0..1 /\ c \in 0..1
        /\ n \in 0..(L - 1)
    BY RangesAssumption, PayloadsAssumption DEF Packets
  <1>2. info = t * (4 * L) + o * (2 * L) + c * L + (n % L)
    BY DEF _compose_info_field
  <1>3. parse_info_bytes(info) =
          [type |-> (info \div (4 * L)) % TYPES, op |-> (info \div (2 * L)) % 2,
           protocol |-> (info \div L) % 2, length |-> info % L]
    BY DEF parse_info_bytes
  <1>4. Infos = 0..(4 * L * TYPES - 1)
    BY DEF Infos
  <1> HIDE DEF L, t, o, c, n, info
  <1>5. n % L = n
    BY <1>1, SMT
  <1>6. /\ info = (4 * t + 2 * o + c) * L + n
        /\ info = (2 * t + o) * (2 * L) + (c * L + n)
        /\ info = t * (4 * L) + (o * (2 * L) + c * L + n)
    <2>1. CASE o = 0 /\ c = 0
      BY <1>1, <1>2, <1>5, <2>1, SMT
    <2>2. CASE o = 0 /\ c = 1
      BY <1>1, <1>2, <1>5, <2>2, SMT
    <2>3. CASE o = 1 /\ c = 0
      BY <1>1, <1>2, <1>5, <2>3, SMT
    <2>4. CASE o = 1 /\ c = 1
      BY <1>1, <1>2, <1>5, <2>4, SMT
    <2> QED
      BY <1>1, <2>1, <2>2, <2>3, <2>4
  <1>7. /\ c * L + n \in 0..(2 * L - 1)
        /\ o * (2 * L) + c * L + n \in 0..(4 * L - 1)
    BY <1>1, SMT
  <1>8. /\ info \div L = 4 * t + 2 * o + c
        /\ info % L = n
    BY <1>1, <1>6, DivMod
  <1>9. info \div (2 * L) = 2 * t + o
    <2>1. 2 * L \in Nat \ {0} /\ 2 * t + o \in Nat
      BY <1>1
    <2> QED
      BY <1>6, <1>7, <2>1, DivMod
  <1>10. info \div (4 * L) = t
    <2>1. 4 * L \in Nat \ {0} /\ t \in Nat
      BY <1>1
    <2> QED
      BY <1>6, <1>7, <2>1, DivMod
  <1>11. /\ (4 * t + 2 * o + c) % 2 = c
         /\ (2 * t + o) % 2 = o
         /\ t % TYPES = t
    BY <1>1, SMT
  <1>12. info \in 0..(4 * L * TYPES - 1)
    <2>1. t * (4 * L) + 4 * L =< TYPES * (4 * L)
      <3>1. 4 * L \in Nat \ {0} /\ t \in Int /\ TYPES \in Int /\ t < TYPES
        BY <1>1
      <3> QED
        BY <3>1, ProductMonotonic
    <2>2. TYPES * (4 * L) = 4 * L * TYPES
      BY <1>1, SMT
    <2>3. t * (4 * L) \in Nat
      BY <1>1, SMT
    <2> QED
      BY <1>1, <1>6, <1>7, <2>1, <2>2, <2>3, SMT
  <1> QED
    BY <1>3, <1>4, <1>8, <1>9, <1>10, <1>11, <1>12 DEF L, t, o, c, n, info

(* from_bytes undoes to_bytes. *)
LEMMA BytesRoundTrip ==
  ASSUME NEW p \in Packets
  PROVE  /\ to_bytes(p).info \in Infos
         /\ to_bytes(p) # Short
         /\ from_bytes(to_bytes(p)) = p
  <1>1. /\ to_bytes(p).info = _compose_info_field(p)
        /\ to_bytes(p).seq = p.seq /\ to_bytes(p).data = p.data
        /\ to_bytes(p).crc = <<_compose_info_field(p), p.seq, p.data>>
    BY DEF to_bytes, crc32
  <1>2. to_bytes(p) # Short
    <2>1. DOMAIN to_bytes(p) # DOMAIN Short
      BY DEF to_bytes, Short
    <2> QED
      BY <2>1
  <1>3. compare_checksum(to_bytes(p))
    BY <1>1 DEF compare_checksum, crc32
  <1>4. SubSeq(p.data, 1, Len(p.data)) = p.data
    BY PayloadsAssumption DEF Packets
  <1>5. from_bytes(to_bytes(p)) =
          [type |-> p.type, op |-> p.op, protocol |-> p.protocol,
           seq |-> p.seq, data |-> p.data]
    <2> DEFINE info == parse_info_bytes(to_bytes(p).info)
    <2>1. /\ info.type = p.type /\ info.op = p.op
          /\ info.protocol = p.protocol /\ info.length = Len(p.data)
      BY <1>1, InfoRoundTrip
    <2>2. from_bytes(to_bytes(p)) =
            [type |-> info.type, op |-> info.op, protocol |-> info.protocol,
             seq |-> p.seq, data |-> SubSeq(p.data, 1, info.length)]
      BY <1>1, <1>2, <1>3 DEF from_bytes
    <2> HIDE DEF info
    <2> QED
      BY <1>4, <2>1, <2>2
  <1> QED
    BY <1>1, <1>2, <1>5, InfoRoundTrip DEF Packets

-----------------------------------------------------------------------------
(* A datagram on its way, damaged or not, has the checksum of the packet   *)
(* that was sent; so what passes the test is what was sent.                *)
Wire(i, c, s, d) == [info |-> i, crc |-> c, seq |-> s, data |-> d]

OnItsWay ==
  /\ sent \in Packets
  /\ \E i \in Infos, s \in Nat, d \in Payloads :
       datagram = Wire(i, crc32(to_bytes(sent)), s, d)

HeaderInv ==
  /\ choice \in {"stop_and_wait", "selective_repeat"}
  /\ sent \in Packets \cup {Nothing}
  /\ sent \in Packets => sent.protocol = protocol_id(choice)
  /\ datagram \in {Nothing, Short} \/ OnItsWay
  /\ result \in Errors \/ (sent \in Packets /\ result = sent)

(* Datagrams are neither Nothing nor Short. *)
LEMMA WireIsLong ==
  ASSUME NEW i, NEW c, NEW s, NEW d
  PROVE  Wire(i, c, s, d) \notin {Nothing, Short}
  <1>1. "data" \in DOMAIN Wire(i, c, s, d)
    BY DEF Wire
  <1>2. "data" \notin DOMAIN Nothing /\ "data" \notin DOMAIN Short
    BY DEF Nothing, Error, Short
  <1> QED
    BY <1>1, <1>2

(* The datagram of a packet, as it is sent. *)
LEMMA SentIsWire ==
  ASSUME NEW p \in Packets
  PROVE  /\ to_bytes(p) = Wire(_compose_info_field(p), crc32(to_bytes(p)), p.seq, p.data)
         /\ crc32(to_bytes(p)) = <<_compose_info_field(p), p.seq, p.data>>
         /\ _compose_info_field(p) \in Infos
         /\ p.seq \in Nat /\ p.data \in Payloads
  <1>1. p.seq \in Nat /\ p.data \in Payloads
    BY RangesAssumption DEF Packets
  <1> QED
    BY <1>1, InfoRoundTrip DEF to_bytes, crc32, Wire

(* from_bytes raises, or gives back what was sent. *)
LEMMA FromBytes ==
  ASSUME HeaderInv, datagram # Nothing
  PROVE  from_bytes(datagram) \in Errors
           \/ (sent \in Packets /\ from_bytes(datagram) = sent)
  <1>1. CASE datagram = Short
    BY <1>1 DEF from_bytes, Errors
  <1>2. CASE OnItsWay
    <2>1. PICK i \in Infos, s \in Nat, d \in Payloads :
            datagram = Wire(i, crc32(to_bytes(sent)), s, d)
      BY <1>2 DEF OnItsWay
    <2>2. sent \in Packets
      BY <1>2 DEF OnItsWay
    <2>3. datagram # Short
      BY <2>1, WireIsLong
    <2>4. CASE ~compare_checksum(datagram)
      BY <2>3, <2>4 DEF from_bytes, Errors
    <2>5. CASE compare_checksum(datagram)
      <3>1. crc32(to_bytes(sent)) = <<i, s, d>>
        BY <2>1, <2>5 DEF compare_checksum, crc32, Wire
      <3>2. datagram = to_bytes(sent)
        BY <2>1, <2>2, <3>1, SentIsWire
      <3> QED
        BY <2>2, <3>2, BytesRoundTrip
    <2> QED
      BY <2>4, <2>5
  <1> QED
    BY <1>1, <1>2 DEF HeaderInv

LEMMA HeaderInvInit == Init => HeaderInv
  <1>1. Nothing \notin Packets
    <2>1. "data" \notin DOMAIN Nothing
      BY DEF Nothing, Error
    <2> QED
      BY <2>1 DEF Packets
  <1> QED
    BY <1>1 DEF Init, HeaderInv, Errors, Nothing

LEMMA HeaderInvNext == HeaderInv /\ [Next]_vars => HeaderInv'
  <1> SUFFICES ASSUME HeaderInv, [Next]_vars PROVE HeaderInv'
    OBVIOUS
  <1>1. ASSUME NEW p \in Packets, Send(p) PROVE HeaderInv'
    <2>1. sent' = p /\ datagram' = to_bytes(p) /\ result' = Nothing
          /\ choice' = choice /\ p.protocol = protocol_id(choice)
      BY <1>1 DEF Send
    <2>2. OnItsWay'
      BY <2>1, SentIsWire DEF OnItsWay
    <2> QED
      BY <2>1, <2>2 DEF HeaderInv, Errors, Nothing, protocol_id
  <1>2. CASE SendTooFar
    BY <1>2 DEF SendTooFar, HeaderInv, Errors, OnItsWay
  <1>3. CASE Damage
    <2>1. OnItsWay /\ UNCHANGED <<choice, sent, result>>
      BY <1>3 DEF Damage, HeaderInv
    <2>2. PICK i \in Infos, s \in Nat, d \in Payloads :
            datagram = Wire(i, crc32(to_bytes(sent)), s, d)
      BY <2>1 DEF OnItsWay
    <2>3. ASSUME datagram' # Short
          PROVE  \E j \in Infos, r \in Nat, e \in Payloads :
                   datagram' = Wire(j, crc32(to_bytes(sent)), r, e)
      <3>1. CASE \E j \in Infos : datagram' = [datagram EXCEPT !.info = j]
        BY <2>2, <3>1 DEF Wire
      <3>2. CASE \E r \in 0..(SEQS - 1) : datagram' = [datagram EXCEPT !.seq = r]
        BY <2>2, <3>2, RangesAssumption DEF Wire
      <3>3. CASE \E e \in Payloads : datagram' = [datagram EXCEPT !.data = e]
        BY <2>2, <3>3 DEF Wire
      <3> QED
        BY <1>3, <2>3, <3>1, <3>2, <3>3 DEF Damage
    <2>4. datagram' = Short \/ OnItsWay'
      BY <2>1, <2>3 DEF OnItsWay
    <2> QED
      BY <2>1, <2>4 DEF HeaderInv, protocol_id
  <1>4. CASE Receive
    <2>1. datagram # Nothing /\ result' = from_bytes(datagram)
          /\ datagram' = Nothing /\ UNCHANGED <<choice, sent>>
      BY <1>4 DEF Receive
    <2> QED
      BY <2>1, FromBytes DEF HeaderInv, protocol_id
  <1>5. CASE UNCHANGED vars
    BY <1>5 DEF vars, HeaderInv, OnItsWay, protocol_id
  <1> QED
    BY <1>1, <1>2, <1>3, <1>4, <1>5 DEF Next

THEOREM HeaderInvariant == Spec => []HeaderInv
  BY HeaderInvInit, HeaderInvNext, PTL DEF Spec

-----------------------------------------------------------------------------
(* Types, for fields of any range. *)
THEOREM HeaderTypeCorrect == Spec => []TypeOK
  <1>1. HeaderInv => TypeOK
    <2> SUFFICES ASSUME HeaderInv PROVE TypeOK
      OBVIOUS
    <2>1. datagram \notin {Nothing, Short} => datagram.info \in Infos
      BY DEF HeaderInv, OnItsWay, Wire
    <2> QED
      BY <2>1 DEF HeaderInv, TypeOK
  <1> QED
    BY <1>1, HeaderInvariant, PTL

(* No packet is taken for another one. *)
THEOREM HeaderReceivedIsSent == Spec => []ReceivedIsSent
  <1>1. HeaderInv => ReceivedIsSent
    BY DEF HeaderInv, ReceivedIsSent
  <1> QED
    BY <1>1, HeaderInvariant, PTL

(* The server runs the protocol of its client. *)
THEOREM HeaderSameProtocol == Spec => []SameProtocol
  <1>1. HeaderInv => SameProtocol
    BY DEF HeaderInv, SameProtocol, protocol_factory_create, protocol_id
  <1> QED
    BY <1>1, HeaderInvariant, PTL

(* What arrives as it was sent is received. *)
THEOREM HeaderIntactIsReceived == Spec => IntactIsReceived
  <1> DEFINE A == datagram # Nothing /\ datagram = to_bytes(sent) /\ datagram' = Nothing
                    => result' = sent
  <1>1. HeaderInv /\ [Next]_vars => [A]_vars
    <2> SUFFICES ASSUME HeaderInv, Next, datagram # Nothing,
                        datagram = to_bytes(sent), datagram' = Nothing
                 PROVE  result' = sent
      OBVIOUS
    <2>1. Receive
      <3>1. ASSUME NEW p \in Packets, Send(p) PROVE FALSE
        BY <3>1 DEF Send
      <3>2. ~SendTooFar
        BY DEF SendTooFar
      <3>3. ASSUME Damage PROVE FALSE
        <4>1. OnItsWay
          BY <3>3 DEF Damage, HeaderInv
        <4>2. PICK i \in Infos, s \in Nat, d \in Payloads :
                datagram = Wire(i, crc32(to_bytes(sent)), s, d)
          BY <4>1 DEF OnItsWay
        <4>3. Short # Nothing
          <5>1. "info" \in DOMAIN Short /\ "info" \notin DOMAIN Nothing
            BY DEF Short, Nothing, Error
          <5> QED
            BY <5>1
        <4>4. "data" \in DOMAIN datagram' /\ "data" \notin DOMAIN Nothing
          BY <3>3, <4>2, <4>3 DEF Damage, Wire, Nothing, Error
        <4> QED
          BY <4>4
      <3> QED
        BY <3>1, <3>2, <3>3 DEF Next
    <2>2. sent \in Packets
      <3>1. "data" \in DOMAIN to_bytes(sent) /\ "data" \notin DOMAIN Short
        BY DEF to_bytes, Short
      <3>2. datagram # Short
        BY <3>1
      <3> QED
        BY <3>2 DEF HeaderInv, OnItsWay
    <2> QED
      BY <2>1, <2>2, BytesRoundTrip DEF Receive
  <1>2. A <=> (datagram # Nothing /\ datagram = to_bytes(sent) /\ datagram' = Nothing
                 => result' = sent)
    OBVIOUS
  <1> HIDE DEF A
  <1>3. Spec => [][A]_vars
    BY <1>1, HeaderInvariant, PTL DEF Spec
  <1> QED
    BY <1>3 DEF IntactIsReceived, A
=============================================================================
