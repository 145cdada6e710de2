---------------------------- MODULE PacketHeader ----------------------------
(***************************************************************************)
(* How a packet of tp1 becomes a datagram and a packet again               *)
(* (common/packet.py), and how either end chooses the protocol object      *)
(* (common/protocol_factory.py): the client by its option, the server by   *)
(* the first packet.                                                       *)
(*                                                                         *)
(* INFO is a number of 32 bits: shifting past a field is multiplying by    *)
(* its range, and masking is the remainder.                                *)
(***************************************************************************)
EXTENDS Integers, Sequences

CONSTANTS
  TYPES,       \* range of the field for the packet type, 2^3
  LENGTHS,     \* range of the field for the payload length, 2^27
  SEQS,        \* range of the sequence number, 2^32
  Payloads     \* what packets may carry

ASSUME RangesAssumption == TYPES \in Nat /\ LENGTHS \in Nat \ {0} /\ SEQS \in Nat
ASSUME PayloadsAssumption == \A d \in Payloads : d \in Seq(Nat) /\ Len(d) < LENGTHS

VARIABLES
  choice,     \* the protocol the client was started with
  sent,       \* the packet it sent last
  datagram,   \* what is in the network
  result      \* what was made of it: a packet, or an exception

vars == <<choice, sent, datagram, result>>

Packets == [type : 0..(TYPES - 1), op : 0..1, protocol : 0..1,
            seq : 0..(SEQS - 1), data : Payloads]

Error(e) == [error |-> e]
Nothing == Error("nothing")
Errors == {Error(e) : e \in {"nothing", "ValueError", "ChecksumError", "struct.error"}}

(* protocol_id_from_choice and the constants of the two classes. *)
protocol_id(c) == IF c = "stop_and_wait" THEN 0 ELSE 1

(* Mutant of protocol_factory_create: what is not 1 is the default. *)
protocol_factory_create_default(p) == "selective_repeat"

protocol_factory_create(p) ==
  CASE p.protocol = 0 -> "stop_and_wait"
    [] p.protocol = 1 -> "selective_repeat"

-----------------------------------------------------------------------------
Infos == 0..(4 * LENGTHS * TYPES - 1)

(* Mutant of _compose_info_field: protocol and operation share a bit. *)
_compose_info_field_overlaps(p) ==
  p.type * (4 * LENGTHS) + p.op * LENGTHS + p.protocol * LENGTHS + (Len(p.data) % LENGTHS)

_compose_info_field(p) ==
  p.type * (4 * LENGTHS) + p.op * (2 * LENGTHS) + p.protocol * LENGTHS
    + (Len(p.data) % LENGTHS)

parse_info_bytes(info) ==
  [type     |-> (info \div (4 * LENGTHS)) % TYPES,
   op       |-> (info \div (2 * LENGTHS)) % 2,
   protocol |-> (info \div LENGTHS) % 2,
   length   |-> info % LENGTHS]

(* zlib.crc32 of a datagram with 0 in the place of its checksum; taken to  *)
(* miss no damage.                                                         *)
crc32(raw) == <<raw.info, raw.seq, raw.data>>

to_bytes(p) ==
  LET raw == [info |-> _compose_info_field(p), seq |-> p.seq, data |-> p.data]
  IN  [info |-> raw.info, crc |-> crc32(raw), seq |-> raw.seq, data |-> raw.data]

compare_checksum(raw) == raw.crc = crc32(raw)

(* A datagram shorter than a header. *)
Short == [info |-> 0]

(* Mutant of from_bytes: the length of the header is taken off again. *)
from_bytes_cuts(raw) ==
  IF raw = Short THEN Error("ValueError")
  ELSE IF ~compare_checksum(raw) THEN Error("ChecksumError")
  ELSE LET info == parse_info_bytes(raw.info) IN
    [type |-> info.type, op |-> info.op, protocol |-> info.protocol,
     seq |-> raw.seq, data |-> SubSeq(raw.data, 1, info.length - 1)]

from_bytes(raw) ==
  IF raw = Short THEN Error("ValueError")
  ELSE IF ~compare_checksum(raw) THEN Error("ChecksumError")
  ELSE LET info == parse_info_bytes(raw.info) IN
    [type |-> info.type, op |-> info.op, protocol |-> info.protocol,
     seq |-> raw.seq, data |-> SubSeq(raw.data, 1, info.length)]

-----------------------------------------------------------------------------
Init ==
  /\ choice \in {"stop_and_wait", "selective_repeat"}
  /\ sent = Nothing
  /\ datagram = Nothing
  /\ result = Nothing

(* A packet is made and sent. *)
Send(p) ==
  /\ datagram = Nothing
  /\ p.protocol = protocol_id(choice)
  /\ sent' = p
  /\ datagram' = to_bytes(p)
  /\ result' = Nothing
  /\ UNCHANGED choice

(* compose counts without a limit: struct.pack raises when the number has  *)
(* more than 32 bits.                                                      *)
SendTooFar ==
  /\ datagram = Nothing
  /\ sent \in Packets /\ sent.seq + 1 = SEQS
  /\ result' = Error("struct.error")
  /\ UNCHANGED <<choice, sent, datagram>>

(* A datagram is damaged on its way - one of its fields, or the bytes of   *)
(* its payload - or cut.                                                   *)
Damage ==
  /\ datagram \notin {Nothing, Short}
  /\ \/ datagram' = Short
     \/ \E i \in Infos : datagram' = [datagram EXCEPT !.info = i]
     \/ \E s \in 0..(SEQS - 1) : datagram' = [datagram EXCEPT !.seq = s]
     \/ \E d \in Payloads : datagram' = [datagram EXCEPT !.data = d]
  /\ UNCHANGED <<choice, sent, result>>

Receive ==
  /\ datagram # Nothing
  /\ result' = from_bytes(datagram)
  /\ datagram' = Nothing
  /\ UNCHANGED <<choice, sent>>

Next ==
  \/ \E p \in Packets : Send(p)
  \/ SendTooFar
  \/ Damage
  \/ Receive

Spec == Init /\ [][Next]_vars

-----------------------------------------------------------------------------
(* Types; INFO never needs more than its 32 bits. *)
TypeOK ==
  /\ choice \in {"stop_and_wait", "selective_repeat"}
  /\ sent \in Packets \cup {Nothing}
  /\ result \in Packets \cup Errors
  /\ datagram \notin {Nothing, Short} =>
       datagram.info \in Infos

(* from_bytes undoes to_bytes, field by field, or raises: no packet is     *)
(* taken for another one, whatever happens to its datagram.                *)
ReceivedIsSent == result \in Errors \/ result = sent

(* A datagram that arrives as it was sent is not refused. *)
IntactIsReceived ==
  [][datagram # Nothing /\ datagram = to_bytes(sent) /\ datagram' = Nothing =>
       result' = sent]_vars

(* Both ends of a session run the same protocol. *)
SameProtocol == result \notin Errors => protocol_factory_create(result) = choice
=============================================================================
