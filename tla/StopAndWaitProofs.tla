------------------------- MODULE StopAndWaitProofs --------------------------
(***************************************************************************)
(* Proofs about StopAndWait, for every set of file sizes and every limit   *)
(* MAX_FILE_SIZE: it implements SelectiveRepeat with a window of one       *)
(* packet, its two ends stay in step, and a download's thread is never     *)
(* ended by a retransmission.                                              *)
(***************************************************************************)
EXTENDS StopAndWait, SequenceTheorems, TLAPS

-----------------------------------------------------------------------------
(* The theorems about SelectiveRepeat, read in the state of StopAndWait.   *)
SRP == INSTANCE SelectiveRepeatProofs WITH
  WINDOW_SIZE <- 1,
  window <- pending,
  expired <- IF late THEN pending ELSE {},
  snd_expected <- IF pending = {} THEN seq_num ELSE seq_num - 1,
  buffer <- <<>>

(* What is left to say of the protocol object: its two attributes agree,   *)
(* and its timer runs for a packet only.                                   *)
ObjectInv ==
  /\ waiting_ack = (pending # {})
  /\ late \in BOOLEAN
  /\ late => pending # {}

(* The inductive invariant: that of SelectiveRepeat under the mapping, and *)
(* the object's.                                                           *)
SAWInv == SRP!IInv /\ ObjectInv

(* The step ends no download's thread by an exception. *)
ThreadStays == DownloadThreadSurvives => DownloadThreadSurvives'

-----------------------------------------------------------------------------
(* Both instances of SelectiveRepeat take the same steps. *)
LEMMA SameInit == SR!Init => SRP!Init
  BY Zenon DEF SR!Init, SR!SessionInit, SR!Syn, SR!Packet, SR!NoData,
     SRP!Init, SRP!SessionInit, SRP!Syn, SRP!Packet, SRP!NoData

LEMMA SameNext == SR!Next => SRP!Next
  BY Zenon DEF SR!Next, SR!ClientNext, SR!ServerNext, SR!TimerExpires,
     SR!Expire, SR!ClientHandshakeTimeout, SR!ClientRecvSynAck,
     SR!ClientCloseFin, SR!ClientTimeout, SR!ClientRecvAck,
     SR!ClientRecvData, SR!ClientClose, SR!ServerRecvSyn,
     SR!ServerRecvAckInit, SR!ServerCloseFin, SR!ServerTimeout,
     SR!ServerRecvAck, SR!ServerRecvData, SR!ServerClose,
     SR!ServerInactivity, SR!NetworkLoses, SR!Lose, SR!HandshakeTimeout,
     SR!RecvSyn, SR!ServerRecvClose, SR!ServerRecvCloseAck,
     SR!ClientRecvClose, SR!ClientRecvCloseAck, SR!Inactivity, SR!Receive,
     SR!Handshake, SR!Syn, SR!SynAck, SR!Ack, SR!Data, SR!Close,
     SR!CloseAck, SR!Packet, SR!NoData, SR!SynSize, SR!ReadFrom, SR!Seqs,
     SR!Unacked, SR!SlidesTo, SR!Fresh, SR!ReadAndSend, SR!Refill,
     SR!ClientCloses, SR!ServerCloses, SR!Discards, SR!Repeats,
     SR!Buffered, SR!RunsTo, SR!Run, SR!Deliver, SR!ClientSends,
     SR!ServerSends, SR!vars, SR!sndVars, SR!rcvVars, SR!sessionVars,
     SRP!Next, SRP!ClientNext, SRP!ServerNext, SRP!TimerExpires,
     SRP!Expire, SRP!ClientHandshakeTimeout, SRP!ClientRecvSynAck,
     SRP!ClientCloseFin, SRP!ClientTimeout, SRP!ClientRecvAck,
     SRP!ClientRecvData, SRP!ClientClose, SRP!ServerRecvSyn,
     SRP!ServerRecvAckInit, SRP!ServerCloseFin, SRP!ServerTimeout,
     SRP!ServerRecvAck, SRP!ServerRecvData, SRP!ServerClose,
     SRP!ServerInactivity, SRP!NetworkLoses, SRP!Lose,
     SRP!HandshakeTimeout, SRP!RecvSyn, SRP!ServerRecvClose,
     SRP!ServerRecvCloseAck, SRP!ClientRecvClose, SRP!ClientRecvCloseAck,
     SRP!Inactivity, SRP!Receive, SRP!Handshake, SRP!Syn, SRP!SynAck,
     SRP!Ack, SRP!Data, SRP!Close, SRP!CloseAck, SRP!Packet, SRP!NoData,
     SRP!SynSize, SRP!ReadFrom, SRP!Seqs, SRP!Unacked, SRP!SlidesTo,
     SRP!Fresh, SRP!ReadAndSend, SRP!Refill, SRP!ClientCloses,
     SRP!ServerCloses, SRP!Discards, SRP!Repeats, SRP!Buffered,
     SRP!RunsTo, SRP!Run, SRP!Deliver, SRP!ClientSends, SRP!ServerSends,
     SRP!vars, SRP!sndVars, SRP!rcvVars, SRP!sessionVars

LEMMA SameVars == UNCHANGED SR!vars => UNCHANGED SRP!vars
  BY DEF SR!vars, SRP!vars, SR!sessionVars, SRP!sessionVars, SR!sndVars,
         SRP!sndVars, SR!rcvVars, SRP!rcvVars

(* The invariant of SelectiveRepeat is kept by its steps. *)
LEMMA KeepsIInv == ASSUME SRP!IInv, [SR!Next]_SR!vars PROVE SRP!IInv'
<1>1. [SRP!Next]_SRP!vars
  BY SameNext, SameVars
<1> QED
  BY <1>1, SRP!NextIInv, SizesAssumption, MaxFileSizeAssumption

-----------------------------------------------------------------------------
(* What the invariant says of the pending packet and of the numbers.       *)
LEMMA Numbers ==
  ASSUME SAWInv
  PROVE  /\ size \in Nat /\ pos \in 0..size
         /\ seq_num \in Nat /\ seq_num > pos
         /\ rcv_expected \in Nat \ {0}
         /\ rcv_expected =< pos + 1
         /\ op \in {"upload", "download"}
         /\ out \in Seq(Nat)
<1> USE SizesAssumption DEF SAWInv, SRP!IInv
<1>1. size \in Nat /\ pos \in 0..size /\ seq_num \in Nat
      /\ rcv_expected \in Nat \ {0} /\ op \in {"upload", "download"} /\ out \in Seq(Nat)
  BY DEF SRP!TypeOK
<1>2. seq_num > pos
  BY <1>1 DEF SRP!SenderInv, SRP!FinSent
<1>3. rcv_expected =< pos + 1
  BY DEF SRP!ReceiverInv
<1> QED
  BY <1>1, <1>2, <1>3

(* There is at most one pending packet, and it is the one numbered last.   *)
LEMMA PendingIsLast ==
  ASSUME SAWInv
  PROVE  \A p \in pending : p.seq = seq_num - 1 /\ pending = {p}
<1> USE DEF SAWInv, SRP!IInv
<1> SUFFICES ASSUME NEW p \in pending
             PROVE  p.seq = seq_num - 1 /\ pending = {p}
  OBVIOUS
<1>1. \A q \in pending : q.type \in {"DATA", "CLOSE"} /\ q.seq = seq_num - 1
  BY Numbers DEF SRP!SenderInv
<1>2. \A q \in pending : SRP!GoodPacket(q)
  BY DEF SRP!PacketsInv
<1>3. ASSUME NEW q \in pending PROVE q = p
  <2>1. CASE q.type = "DATA" /\ p.type = "DATA"
    BY <1>1, <1>2, <1>3, <2>1 DEF SRP!GoodPacket
  <2>2. CASE q.type = "CLOSE" /\ p.type = "CLOSE"
    BY <1>1, <1>2, <1>3, <2>2 DEF SRP!GoodPacket
  <2>3. CASE q.type # p.type
    <3>1. \E a, b \in pending : a.type = "DATA" /\ b.type = "CLOSE"
      BY <1>1, <1>3, <2>3
    <3>2. PICK a, b \in pending : a.type = "DATA" /\ b.type = "CLOSE"
      BY <3>1
    <3>3. a.seq \in 1..pos /\ seq_num = size + 2
      BY <1>2, <3>2 DEF SRP!GoodPacket, SRP!FinSent
    <3> QED
      BY <1>1, <3>3, Numbers
  <2> QED
    BY <1>1, <1>3, <2>1, <2>2, <2>3
<1> QED
  BY <1>1, <1>3

(* An ACK in the network is of a number the sender has used for a chunk;   *)
(* it does not go beyond the pending packet.                               *)
LEMMA AckIsOld ==
  ASSUME SAWInv, NEW m \in net, m.type = "ACK", m.seq # 0
  PROVE  m.seq \in Nat /\ m.seq < seq_num
<1>1. SRP!GoodPacket(m)
  BY DEF SAWInv, SRP!IInv, SRP!PacketsInv
<1>2. m.seq \in Nat /\ m.seq =< pos
  BY <1>1 DEF SRP!GoodPacket, SRP!Packets
<1> QED
  BY <1>2, Numbers

(* Before the transfer has begun nothing was read, numbered or sent.       *)
LEMMA BeforeStart ==
  ASSUME SAWInv, op = "upload" => cphase = "syn_sent",
         op = "download" => sfile = "none"
  PROVE  pos = 0 /\ seq_num = 1 /\ pending = {} /\ waiting_ack = FALSE /\ late = FALSE
<1>1. pos = 0 /\ seq_num = 1 /\ pending = {}
  BY Numbers DEF SAWInv, SRP!IInv, SRP!SenderInv, SRP!Idle
<1> QED
  BY <1>1 DEF SAWInv, ObjectInv

-----------------------------------------------------------------------------
(* Facts about the mapping of a step.                                      *)

(* An empty buffer stays an empty sequence. *)
LEMMA NoBuffer ==
  ASSUME NEW b, NEW S, S = {} PROVE [s \in S |-> b[s]] = <<>>
  OBVIOUS

(* Acknowledged: nothing is left pending, and next_expected of the sender  *)
(* moves to the next number, by one.                                       *)
LEMMA AckClears ==
  ASSUME SAWInv, NEW m, Acknowledges(m)
  PROVE  /\ Unacked(m) = {} /\ SR!Unacked(m.seq) = {}
         /\ pending # {} /\ m.seq = seq_num - 1
         /\ SR!SlidesTo({}, seq_num)
<1>1. PICK p \in pending : m.seq = p.seq
  BY DEF Acknowledges
<1>2. p.seq = seq_num - 1 /\ pending = {p}
  BY PendingIsLast
<1> QED
  BY <1>1, <1>2, Numbers DEF Unacked, SR!Unacked, SR!SlidesTo, SR!Seqs

(* Any other ACK than that of the pending packet is below next_expected. *)
LEMMA OtherAckIsOld ==
  ASSUME SAWInv, NEW m \in net, m.type = "ACK", m.seq # 0, ~Acknowledges(m)
  PROVE  m.seq < (IF pending = {} THEN seq_num ELSE seq_num - 1)
<1>1. m.seq \in Nat /\ m.seq < seq_num
  BY AckIsOld
<1>2. CASE pending = {}
  BY <1>1, <1>2
<1>3. CASE pending # {}
  <2>1. PICK p \in pending : p.seq = seq_num - 1
    BY <1>3, PendingIsLast
  <2>2. m.seq # seq_num - 1
    BY <2>1 DEF Acknowledges
  <2> QED
    BY <1>1, <1>3, <2>2, Numbers
<1> QED
  BY <1>2, <1>3

(* Reading one chunk with nothing pending: it is the next packet, or, at   *)
(* the end of the file, the FIN is.                                        *)
LEMMA OneChunk ==
  ASSUME SAWInv,
         ReadFrom(pos, 1) > 0 => Push(pos),
         ~(ReadFrom(pos, 1) > 0) => PushFin(pos)
  PROVE  LET r == SR!ReadAndSend(pos, {}, 1, ReadFrom(pos, 1) = 0)
         IN  /\ pos' = r.read /\ seq_num + 1 = r.seq
             /\ pending' = r.win /\ pending' = r.sent /\ pending' # {}
<1> DEFINE k == ReadFrom(pos, 1)
           r == SR!ReadAndSend(pos, {}, 1, k = 0)
<1>1. k \in {0, 1} /\ SR!ReadFrom(pos, 1) = k
  BY Numbers DEF ReadFrom, SR!ReadFrom
<1>2. CASE k = 0
  <2>1. SR!Fresh(pos, 0) = {}
    BY DEF SR!Fresh
  <2>2. r.read = pos /\ r.seq = seq_num + 1 /\ r.win = {SR!Close(seq_num)}
        /\ r.sent = {SR!Close(seq_num)}
    BY <1>1, <1>2, <2>1, Numbers DEF SR!ReadAndSend
  <2>3. pos' = pos /\ pending' = {SR!Close(seq_num)}
    BY <1>2 DEF PushFin, Close, SR!Close, Packet, SR!Packet, NoData, SR!NoData
  <2> QED
    BY <2>2, <2>3
<1>3. CASE k = 1
  <2>1. SR!Fresh(pos, 1) = {SR!Data(seq_num, pos + 1)}
    BY Numbers DEF SR!Fresh
  <2>2. r.read = pos + 1 /\ r.seq = seq_num + 1 /\ r.win = SR!Fresh(pos, 1)
        /\ r.sent = SR!Fresh(pos, 1)
    BY <1>1, <1>3, Numbers DEF SR!ReadAndSend
  <2>3. pos' = pos + 1 /\ pending' = {SR!Data(seq_num, pos + 1)}
    BY <1>3 DEF Push, Data, SR!Data, Packet, SR!Packet
  <2> QED
    BY <2>1, <2>2, <2>3
<1> QED
  BY <1>1, <1>2, <1>3

(* Both ends of SelectiveRepeat close when this module's sender does: when *)
(* nothing is pending and nothing was read.                                *)
LEMMA Closing ==
  ASSUME SAWInv
  PROVE  LET r == SR!ReadAndSend(pos, {}, 1, ReadFrom(pos, 1) = 0)
         IN  /\ SR!ReadAndSend(pos, {}, 1, SR!ClientCloses({}, 1)) = r
             /\ SR!ReadAndSend(pos, {}, 1, SR!ServerCloses(pos, {}, 1)) = r
<1>1. ReadFrom(pos, 1) \in {0, 1} /\ SR!ReadFrom(pos, 1) = ReadFrom(pos, 1)
      /\ (ReadFrom(pos, 1) = 0 <=> pos >= size)
  BY Numbers DEF ReadFrom, SR!ReadFrom
<1>2. SR!Fresh(pos, 0) = {} /\ SR!Fresh(pos, 1) # {}
  BY DEF SR!Fresh
<1>3. /\ SR!ClientCloses({}, 1) <=> ReadFrom(pos, 1) = 0
      /\ SR!ServerCloses(pos, {}, 1) <=> ReadFrom(pos, 1) = 0
  BY <1>1, <1>2, Numbers DEF SR!ClientCloses, SR!ServerCloses
<1> QED
  BY <1>3 DEF SR!ReadAndSend(* The network is the same in both modules. *)
LEMMA SameReceive ==
  ASSUME NEW m, NEW replies PROVE Receive(m, replies) => SR!Receive(m, replies)
  BY DEF Receive, SR!Receive, Handshake, SR!Handshake, Syn, SR!Syn, SynAck, SR!SynAck,
         Ack, SR!Ack, Packet, SR!Packet, NoData, SR!NoData

-----------------------------------------------------------------------------
(* The steps that touch no protocol object. *)

LEMMA QuietObject ==
  ASSUME SAWInv, UNCHANGED sndVars PROVE ObjectInv'
  BY DEF SAWInv, ObjectInv, sndVars

LEMMA MapQuiet ==
  UNCHANGED <<sndVars, rcv_expected>> => UNCHANGED <<SR!sndVars, SR!rcvVars>>
  BY DEF sndVars, SR!sndVars, SR!rcvVars

LEMMA MapHandshakeTimeout ==
  ASSUME SAWInv, ClientHandshakeTimeout
  PROVE  SR!Next /\ ObjectInv' /\ ThreadStays
<1>1. SR!ClientHandshakeTimeout
  BY MapQuiet DEF ClientHandshakeTimeout, SR!ClientHandshakeTimeout, HandshakeTimeout,
     SR!HandshakeTimeout
<1>2. ObjectInv'
  BY QuietObject DEF ClientHandshakeTimeout
<1>3. ThreadStays
  BY DEF SAWInv, ThreadStays, DownloadThreadSurvives, ClientHandshakeTimeout, HandshakeTimeout
<1> QED
  BY <1>1, <1>2, <1>3 DEF SR!Next, SR!ClientNext

(* The SYN of a download announces one chunk, which is never too large. *)
LEMMA MapRecvSyn ==
  ASSUME SAWInv, ServerRecvSyn
  PROVE  SR!Next /\ ObjectInv' /\ ThreadStays
<1>1. SR!ServerRecvSyn
  BY MapQuiet, SameReceive DEF ServerRecvSyn, SR!ServerRecvSyn, RecvSyn, SR!RecvSyn, SynSize,
     SR!SynSize, Syn, SR!Syn, SynAck, SR!SynAck, Packet, SR!Packet, NoData, SR!NoData
<1>2. ObjectInv'
  BY QuietObject DEF ServerRecvSyn
<1>3. ThreadStays
  BY MaxFileSizeAssumption DEF ThreadStays, DownloadThreadSurvives, ServerRecvSyn, RecvSyn, SynSize
<1> QED
  BY <1>1, <1>2, <1>3 DEF SR!Next, SR!ServerNext

LEMMA MapClose ==
  ASSUME SAWInv, NEW m \in net, ClientClose(m) \/ ServerClose(m)
  PROVE  SR!Next /\ ObjectInv' /\ ThreadStays
<1> USE DEF ClientClose, ServerClose, ClientRecvClose, ServerRecvClose
<1>1. SR!CloseAck = CloseAck
  BY DEF CloseAck, SR!CloseAck, Packet, SR!Packet, NoData, SR!NoData
<1>2. SR!ClientClose(m) \/ SR!ServerClose(m)
  BY <1>1, MapQuiet, SameReceive DEF SR!ClientClose, SR!ServerClose, SR!ClientRecvClose,
     SR!ServerRecvClose
<1>3. ObjectInv'
  BY QuietObject
<1>4. ThreadStays
  BY DEF SAWInv, ThreadStays, DownloadThreadSurvives
<1> QED
  BY <1>2, <1>3, <1>4 DEF SR!Next, SR!ClientNext, SR!ServerNext

LEMMA MapCloseFin ==
  ASSUME SAWInv, ClientCloseFin \/ ServerCloseFin
  PROVE  SR!Next /\ ObjectInv' /\ ThreadStays
<1> USE DEF ClientCloseFin, ServerCloseFin, ClientRecvCloseAck, ServerRecvCloseAck
<1>1. SR!CloseAck = CloseAck
  BY DEF CloseAck, SR!CloseAck, Packet, SR!Packet, NoData, SR!NoData
<1>2. SR!ClientCloseFin \/ SR!ServerCloseFin
  BY <1>1, MapQuiet, SameReceive DEF SR!ClientCloseFin, SR!ServerCloseFin,
     SR!ClientRecvCloseAck, SR!ServerRecvCloseAck
<1>3. ObjectInv'
  BY QuietObject
<1>4. ThreadStays
  BY DEF SAWInv, ThreadStays, DownloadThreadSurvives
<1> QED
  BY <1>2, <1>3, <1>4 DEF SR!Next, SR!ClientNext, SR!ServerNext

LEMMA MapIdle ==
  ASSUME SAWInv, ServerInactivity \/ NetworkLoses
  PROVE  SR!Next /\ ObjectInv' /\ ThreadStays
<1> USE DEF ServerInactivity, NetworkLoses, Inactivity, Lose
<1>1. SR!ServerInactivity \/ SR!NetworkLoses
  BY MapQuiet DEF SR!ServerInactivity, SR!NetworkLoses, SR!Inactivity, SR!Lose
<1>2. ObjectInv'
  BY QuietObject
<1>3. ThreadStays
  BY DEF SAWInv, ThreadStays, DownloadThreadSurvives
<1> QED
  BY <1>1, <1>2, <1>3 DEF SR!Next

-----------------------------------------------------------------------------
(* The timer of the pending packet. *)

LEMMA MapExpire ==
  ASSUME SAWInv, Expire
  PROVE  SR!Next /\ ObjectInv' /\ ThreadStays
<1> USE DEF Expire, sessionVars
<1>1. PICK p \in pending : pending = {p}
  BY PendingIsLast
<1>2. SR!Expire(p.seq)
  BY <1>1 DEF SR!Expire, SR!sessionVars, SR!rcvVars
<1>3. p.seq \in SR!Seqs(pending)
  BY DEF SR!Seqs
<1>4. ObjectInv'
  BY DEF SAWInv, ObjectInv
<1>5. ThreadStays
  BY DEF SAWInv, ThreadStays, DownloadThreadSurvives
<1> QED
  BY <1>2, <1>3, <1>4, <1>5 DEF SR!Next, SR!TimerExpires

LEMMA MapTimeout ==
  ASSUME SAWInv, ClientTimeout \/ ServerTimeout
  PROVE  SR!Next /\ ObjectInv' /\ ThreadStays
<1> USE DEF ClientTimeout, ServerTimeout
<1>1. late /\ late' = FALSE /\ pending # {}
  BY DEF SAWInv, ObjectInv
<1>2. SR!ClientTimeout \/ SR!ServerTimeout
  BY <1>1 DEF SR!ClientTimeout, SR!ServerTimeout, SR!rcvVars
<1>3. ObjectInv'
  BY <1>1 DEF ObjectInv
<1>4. ThreadStays
  BY DEF SAWInv, ThreadStays, DownloadThreadSurvives
<1> QED
  BY <1>2, <1>3, <1>4 DEF SR!Next, SR!ClientNext, SR!ServerNext

-----------------------------------------------------------------------------
(* DATA: with a window of one, a packet is the expected one, an old one,   *)
(* or too far ahead; nothing is ever kept in the buffer.                   *)

(* The chunk that is delivered is a run of length one.                     *)
LEMMA RunOfOne ==
  ASSUME SAWInv, NEW m, m.seq = rcv_expected
  PROVE  LET nx == rcv_expected + 1
             b  == SR!Buffered(m)
         IN  /\ nx \in rcv_expected..(rcv_expected + 1)
             /\ SR!RunsTo(b, nx)
             /\ SR!Run(b, nx) = <<m.data>>
             /\ rcv_expected' = nx => SR!Deliver(b, nx)
<1> DEFINE nx == rcv_expected + 1
           b  == SR!Buffered(m)
<1>1. rcv_expected \in Nat
  BY Numbers
<1>2. DOMAIN b = {rcv_expected} /\ b[rcv_expected] = m.data
  BY DEF SR!Buffered
<1>3. SR!RunsTo(b, nx)
  BY <1>1, <1>2 DEF SR!RunsTo
<1>4. SR!Run(b, nx) = <<m.data>>
  <2>1. 1..(nx - rcv_expected) = {1}
    BY <1>1
  <2>2. SR!Run(b, nx) = [i \in {1} |-> m.data]
    BY <1>1, <1>2, <2>1 DEF SR!Run
  <2> QED
    BY <2>2
<1>5. {t \in DOMAIN b : t >= nx} = {}
  BY <1>1, <1>2
<1>6. rcv_expected' = nx => SR!Deliver(b, nx)
  BY <1>5, NoBuffer DEF SR!Deliver
<1> QED
  BY <1>1, <1>3, <1>4, <1>6

(* Delivered, repeated, or ignored: the same in both modules.              *)
LEMMA Cases ==
  ASSUME SAWInv, NEW m \in net, m.type = "DATA"
  PROVE  /\ m.seq \in Nat
         /\ SR!Discards(m) <=> ~Delivers(m) /\ ~Repeats(m)
         /\ SR!Repeats(m) <=> Repeats(m)
         /\ Delivers(m) => ~Repeats(m)
         /\ SR!Ack(m.seq) = Ack(m.seq)
<1>1. m.seq \in Nat
  BY DEF SAWInv, SRP!IInv, SRP!PacketsInv, SRP!GoodPacket, SRP!Packets
<1> QED
  BY <1>1, Numbers DEF SR!Discards, Delivers, Repeats, SR!Repeats, Ack, SR!Ack, Packet,
     SR!Packet, NoData, SR!NoData

LEMMA MapRecvData ==
  ASSUME SAWInv, NEW m \in net, ClientRecvData(m) \/ ServerRecvData(m)
  PROVE  SR!Next /\ ObjectInv' /\ ThreadStays
<1> USE DEF ClientRecvData, ServerRecvData
<1>1. m.type = "DATA" /\ UNCHANGED SR!sndVars
  BY DEF sndVars, SR!sndVars
<1>2. ObjectInv'
  BY QuietObject
<1>3. ThreadStays
  BY DEF SAWInv, ThreadStays, DownloadThreadSurvives
<1>4. CASE Delivers(m)
  <2>1. /\ SR!Receive(m, {SR!Ack(m.seq)})
        /\ ~SR!Discards(m) /\ ~SR!Repeats(m)
    BY <1>1, <1>4, Cases, SameReceive
  <2>2. SR!Deliver(SR!Buffered(m), rcv_expected + 1)
    BY <1>4, RunOfOne DEF Delivers
  <2>3. rcv_expected + 1 > rcv_expected
    BY Numbers
  <2>4. out \o SR!Run(SR!Buffered(m), rcv_expected + 1) = Append(out, m.data)
    <3>1. SR!Run(SR!Buffered(m), rcv_expected + 1) = <<m.data>>
      BY <1>4, RunOfOne DEF Delivers
    <3>2. m.data \in Nat
      BY DEF SAWInv, SRP!IInv, SRP!PacketsInv, SRP!GoodPacket, SRP!Packets
    <3> QED
      BY <3>1, <3>2, Numbers, AppendIsConcat
  <2>5. CASE ClientRecvData(m)
    <3>1. SR!ClientRecvData(m)
      BY <1>1, <1>4, <2>1, <2>2, <2>4, <2>5, RunOfOne DEF SR!ClientRecvData, Delivers
    <3> QED
      BY <1>2, <1>3, <3>1 DEF SR!Next, SR!ClientNext
  <2>6. CASE ServerRecvData(m)
    <3>1. SR!ServerRecvData(m)
      BY <1>1, <1>4, <2>1, <2>2, <2>3, <2>4, <2>6, RunOfOne DEF SR!ServerRecvData, Delivers
    <3> QED
      BY <1>2, <1>3, <3>1 DEF SR!Next, SR!ServerNext
  <2> QED
    BY <2>5, <2>6
<1>5. CASE ~Delivers(m)
  <2>1. \/ SR!Discards(m) /\ SR!Receive(m, {})
        \/ ~SR!Discards(m) /\ SR!Repeats(m) /\ SR!Receive(m, {SR!Ack(m.seq)})
    BY <1>1, <1>5, Cases, SameReceive
  <2>2. UNCHANGED <<out, SR!rcvVars>>
    BY <1>5 DEF SR!rcvVars
  <2>3. SR!ClientRecvData(m) \/ SR!ServerRecvData(m)
    BY <1>1, <1>5, <2>1, <2>2 DEF SR!ClientRecvData, SR!ServerRecvData
  <2> QED
    BY <1>2, <1>3, <2>3 DEF SR!Next, SR!ClientNext, SR!ServerNext
<1> QED
  BY <1>4, <1>5

-----------------------------------------------------------------------------
(* ACKs and the opening packets, which read the file and send.             *)

(* With nothing pending and no ACK awaited, something is read and sent.    *)
LEMMA SendsOne ==
  ASSUME SAWInv, NEW m, NEW also, ReadAndSend(m, also, pos, {}, FALSE)
  PROVE  LET r == SR!ReadAndSend(pos, {}, 1, ReadFrom(pos, 1) = 0)
         IN  /\ SR!Refill(r)
             /\ Receive(m, also \cup r.sent)
             /\ pending' # {} /\ seq_num' = seq_num + 1
             /\ waiting_ack' = TRUE /\ late' = FALSE
<1>1. /\ ReadFrom(pos, 1) > 0 => Push(pos)
      /\ ~(ReadFrom(pos, 1) > 0) => PushFin(pos)
      /\ seq_num' = seq_num + 1 /\ waiting_ack' = TRUE /\ late' = FALSE
      /\ Receive(m, also \cup pending')
  BY DEF ReadAndSend
<1> QED
  BY <1>1, OneChunk DEF SR!Refill

LEMMA MapRecvSynAck ==
  ASSUME SAWInv, ClientRecvSynAck
  PROVE  SR!Next /\ ObjectInv' /\ ThreadStays
<1> USE DEF ClientRecvSynAck
<1>1. SR!SynAck = SynAck /\ SR!Ack(0) = Ack(0)
  BY DEF SynAck, SR!SynAck, Ack, SR!Ack, Packet, SR!Packet, NoData, SR!NoData
<1>2. ThreadStays
  BY DEF SAWInv, ThreadStays, DownloadThreadSurvives
<1>3. CASE op = "upload"
  <2>1. pos = 0 /\ seq_num = 1 /\ pending = {} /\ waiting_ack = FALSE /\ late = FALSE
    BY <1>3, BeforeStart
  <2>2. ReadAndSend(SynAck, {Ack(0)}, pos, {}, FALSE)
    BY <1>3, <2>1 DEF TimedOut
  <2> DEFINE r == SR!ReadAndSend(pos, {}, 1, ReadFrom(pos, 1) = 0)
  <2>3. /\ SR!Refill(r) /\ SR!Receive(SynAck, {Ack(0)} \cup r.sent)
        /\ pending' # {} /\ seq_num' = seq_num + 1
        /\ waiting_ack' = TRUE /\ late' = FALSE
    BY <2>2, SendsOne, SameReceive
  <2>4. SR!ReadAndSend(pos, {}, 1, SR!ClientCloses({}, 1)) = r
    BY Closing
  <2> HIDE DEF r
  <2>5. SR!ClientSends(SR!SynAck, {SR!Ack(0)}, pending, 1)
    BY <1>1, <2>1, <2>3, <2>4 DEF SR!ClientSends
  <2>7. UNCHANGED <<IF pending = {} THEN seq_num ELSE seq_num - 1, SR!rcvVars>>
    BY <2>1, <2>3 DEF SR!rcvVars
  <2>8. SR!ClientRecvSynAck
    BY <1>1, <1>3, <2>5, <2>7 DEF SR!ClientRecvSynAck
  <2>6. ObjectInv'
    BY <2>3 DEF ObjectInv
  <2> QED
    BY <1>2, <2>8, <2>6 DEF SR!Next, SR!ClientNext
<1>4. CASE op # "upload"
  <2>1. SR!ClientRecvSynAck
    BY <1>1, <1>4, SameReceive DEF SR!ClientRecvSynAck, SR!rcvVars, sndVars
  <2>2. ObjectInv'
    BY <1>4, QuietObject
  <2> QED
    BY <1>2, <2>1, <2>2 DEF SR!Next, SR!ClientNext
<1> QED
  BY <1>3, <1>4

(* The server's sending: nothing that is pending has expired, because      *)
(* nothing is pending.                                                     *)
LEMMA MapServerSends ==
  ASSUME SAWInv, NEW m, ServerSends(m, pos, {}, FALSE)
  PROVE  LET r == SR!ReadAndSend(pos, {}, 1, SR!ServerCloses(pos, {}, 1))
         IN  /\ SR!Refill(r) /\ SR!Receive(m, r.sent)
             /\ pending' # {} /\ seq_num' = seq_num + 1
             /\ waiting_ack' = TRUE /\ late' = FALSE
             /\ UNCHANGED sphase
<1> DEFINE r == SR!ReadAndSend(pos, {}, 1, ReadFrom(pos, 1) = 0)
<1>1. ReadAndSend(m, {}, pos, {}, FALSE) /\ UNCHANGED sphase
  BY DEF ServerSends, TimedOut
<1>2. /\ SR!Refill(r) /\ Receive(m, {} \cup r.sent)
      /\ pending' # {} /\ seq_num' = seq_num + 1
      /\ waiting_ack' = TRUE /\ late' = FALSE
  BY <1>1, SendsOne
<1>3. {} \cup r.sent = r.sent
  OBVIOUS
<1>4. SR!Receive(m, r.sent)
  BY <1>2, <1>3, SameReceive
<1>5. SR!ReadAndSend(pos, {}, 1, SR!ServerCloses(pos, {}, 1)) = r
  BY Closing
<1> HIDE DEF r
<1> QED
  BY <1>1, <1>2, <1>4, <1>5

LEMMA MapRecvAckInit ==
  ASSUME SAWInv, ServerRecvAckInit
  PROVE  SR!Next /\ ObjectInv' /\ ThreadStays
<1> USE DEF ServerRecvAckInit
<1>1. SR!Ack(0) = Ack(0) /\ Ack(0) \in net
  BY DEF Ack, SR!Ack, Packet, SR!Packet, NoData, SR!NoData, Receive, ServerSends, ReadAndSend
<1>2. CASE op = "download" /\ stored
  <2>1. sfile = "none"
    BY <1>1 DEF SAWInv, SRP!IInv, SRP!PacketsInv, SRP!GoodPacket, Ack, SRP!Ack, Packet,
       SRP!Packet, NoData, SRP!NoData
  <2>2. pos = 0 /\ seq_num = 1 /\ pending = {} /\ waiting_ack = FALSE /\ late = FALSE
    BY <1>2, <2>1, BeforeStart
  <2>3. ServerSends(Ack(0), pos, {}, FALSE) /\ sfile' = "open" /\ UNCHANGED out
    BY <1>2, <2>2
  <2> DEFINE r == SR!ReadAndSend(pos, {}, 1, SR!ServerCloses(pos, {}, 1))
  <2>4. /\ SR!Refill(r) /\ SR!Receive(Ack(0), r.sent)
        /\ pending' # {} /\ seq_num' = seq_num + 1
        /\ waiting_ack' = TRUE /\ late' = FALSE
        /\ UNCHANGED sphase
    BY <2>3, MapServerSends
  <2>5. SR!ServerSends(SR!Ack(0), 0, pending, 1)
    <3> HIDE DEF r
    <3>1. SR!ServerSends(SR!Ack(0), 0, pending, 1)
            <=> SR!Receive(Ack(0), r.sent) /\ SR!Refill(r) /\ UNCHANGED sphase
      BY <1>1, <2>2 DEF SR!ServerSends, r
    <3> QED
      BY <2>4, <3>1
  <2>6. UNCHANGED <<IF pending = {} THEN seq_num ELSE seq_num - 1, SR!rcvVars>>
    BY <2>2, <2>4 DEF SR!rcvVars
  <2>7. SR!ServerRecvAckInit
    BY <1>2, <2>3, <2>4, <2>5, <2>6 DEF SR!ServerRecvAckInit
  <2>8. ObjectInv' /\ ThreadStays
    BY <1>2, <2>4 DEF ObjectInv, ThreadStays, DownloadThreadSurvives
  <2> QED
    BY <2>7, <2>8 DEF SR!Next, SR!ServerNext
<1>3. CASE ~(op = "download" /\ stored)
  <2>1. SR!ServerRecvAckInit
    BY <1>1, <1>3, SameReceive DEF SR!ServerRecvAckInit, SR!rcvVars, sndVars, SR!sndVars
  <2>2. ObjectInv'
    BY <1>3, QuietObject
  <2>3. ThreadStays
    BY <1>3 DEF ThreadStays, DownloadThreadSurvives
  <2> QED
    BY <2>1, <2>2, <2>3 DEF SR!Next, SR!ServerNext
<1> QED
  BY <1>2, <1>3

(* An ACK of anything but the pending packet is dropped by both. *)
LEMMA MapOtherAck ==
  ASSUME SAWInv, NEW m \in net, ClientRecvAck(m) \/ ServerRecvAck(m), ~Acknowledges(m)
  PROVE  SR!Next /\ ObjectInv' /\ ThreadStays
<1> USE DEF ClientRecvAck, ServerRecvAck
<1>1. m.seq < (IF pending = {} THEN seq_num ELSE seq_num - 1)
  BY OtherAckIsOld
<1>2. UNCHANGED SR!sndVars /\ UNCHANGED SR!rcvVars /\ SR!Receive(m, {})
  BY SameReceive DEF sndVars, SR!sndVars, SR!rcvVars
<1>3. SR!ClientRecvAck(m) \/ SR!ServerRecvAck(m)
  BY <1>1, <1>2 DEF SR!ClientRecvAck, SR!ServerRecvAck
<1>4. ObjectInv'
  BY QuietObject
<1>5. ThreadStays
  BY DEF SAWInv, ThreadStays, DownloadThreadSurvives
<1> QED
  BY <1>3, <1>4, <1>5 DEF SR!Next, SR!ClientNext, SR!ServerNext

(* The ACK of the pending packet makes room for the next one. *)
LEMMA MapClientAck ==
  ASSUME SAWInv, NEW m \in net, ClientRecvAck(m), Acknowledges(m)
  PROVE  SR!Next /\ ObjectInv' /\ ThreadStays
<1> USE DEF ClientRecvAck
<1>1. /\ Unacked(m) = {} /\ SR!Unacked(m.seq) = {}
      /\ pending # {} /\ m.seq = seq_num - 1
      /\ SR!SlidesTo({}, seq_num)
  BY AckClears
<1>2. ReadAndSend(m, {}, pos, {}, FALSE)
  BY <1>1 DEF TimedOut
<1> DEFINE r == SR!ReadAndSend(pos, {}, 1, ReadFrom(pos, 1) = 0)
<1>3. /\ SR!Refill(r) /\ SR!Receive(m, {} \cup r.sent)
      /\ pending' # {} /\ seq_num' = seq_num + 1
      /\ waiting_ack' = TRUE /\ late' = FALSE
  BY <1>2, SendsOne, SameReceive
<1>4. SR!ReadAndSend(pos, {}, 1, SR!ClientCloses({}, 1)) = r
  BY Closing
<1>5. seq_num - (seq_num - 1) = 1 /\ seq_num \in (seq_num - 1)..seq_num
      /\ seq_num + 1 - 1 = seq_num
  BY Numbers
<1> HIDE DEF r
<1>6. SR!ClientSends(m, {}, {}, 1)
  BY <1>3, <1>4 DEF SR!ClientSends
<1>7. (IF pending = {} THEN seq_num ELSE seq_num - 1)' = seq_num
  BY <1>3, <1>5
<1>8. SR!ClientRecvAck(m)
  BY <1>1, <1>5, <1>6, <1>7 DEF SR!ClientRecvAck, SR!rcvVars
<1>9. ObjectInv' /\ ThreadStays
  BY <1>3 DEF ObjectInv, ThreadStays, DownloadThreadSurvives
<1> QED
  BY <1>8, <1>9 DEF SR!Next, SR!ClientNext

LEMMA MapServerAck ==
  ASSUME SAWInv, NEW m \in net, ServerRecvAck(m), Acknowledges(m)
  PROVE  SR!Next /\ ObjectInv' /\ ThreadStays
<1> USE DEF ServerRecvAck
<1>1. /\ Unacked(m) = {} /\ SR!Unacked(m.seq) = {}
      /\ pending # {} /\ m.seq = seq_num - 1
      /\ SR!SlidesTo({}, seq_num)
  BY AckClears
<1>2. ServerSends(m, pos, {}, FALSE)
  BY <1>1
<1> DEFINE r == SR!ReadAndSend(pos, {}, 1, SR!ServerCloses(pos, {}, 1))
<1>3. /\ SR!Refill(r) /\ SR!Receive(m, r.sent)
      /\ pending' # {} /\ seq_num' = seq_num + 1
      /\ waiting_ack' = TRUE /\ late' = FALSE
      /\ UNCHANGED sphase
  BY <1>2, MapServerSends
<1>4. seq_num - (seq_num - 1) = 1 /\ seq_num \in (seq_num - 1)..seq_num
      /\ seq_num + 1 - 1 = seq_num
  BY Numbers
<1> HIDE DEF r
<1>5. SR!ServerSends(m, pos, {}, 1)
  BY <1>3 DEF SR!ServerSends, r
<1>6. (IF pending = {} THEN seq_num ELSE seq_num - 1)' = seq_num
  BY <1>3, <1>4
<1>7. SR!ServerRecvAck(m)
  <2>1. (IF pending = {} THEN seq_num ELSE seq_num - 1) = seq_num - 1
    BY <1>1
  <2>2. (IF late THEN pending ELSE {})' = {}
    BY <1>3
  <2> QED
    BY <1>1, <1>4, <1>5, <1>6, <2>1, <2>2 DEF SR!ServerRecvAck, SR!rcvVars
<1>8. ObjectInv' /\ ThreadStays
  BY <1>3 DEF SAWInv, ObjectInv, ThreadStays, DownloadThreadSurvives
<1> QED
  BY <1>7, <1>8 DEF SR!Next, SR!ServerNext

-----------------------------------------------------------------------------
(* The theorems. *)

LEMMA InitSAW == ASSUME Init PROVE SAWInv /\ SR!Init
<1> USE DEF Init, SessionInit
<1>1. SR!Init
  BY DEF SR!Init, SR!SessionInit, Syn, SR!Syn, Packet, SR!Packet, NoData, SR!NoData
<1>2. SRP!IInv
  BY <1>1, SameInit, SRP!InitIInv, SizesAssumption, MaxFileSizeAssumption
<1>3. ObjectInv
  BY DEF ObjectInv
<1> QED
  BY <1>1, <1>2, <1>3 DEF SAWInv

(* Every step is one of SelectiveRepeat, or none. *)
LEMMA StepSAW ==
  ASSUME SAWInv, [Next]_vars
  PROVE  SAWInv' /\ [SR!Next]_SR!vars /\ ThreadStays
<1>1. CASE Next
  <2>1. SR!Next /\ ObjectInv' /\ ThreadStays
    BY <1>1, MapHandshakeTimeout, MapRecvSyn, MapClose, MapCloseFin, MapIdle, MapExpire,
       MapTimeout, MapRecvData, MapRecvSynAck, MapRecvAckInit, MapOtherAck, MapClientAck,
       MapServerAck DEF Next, ClientNext, ServerNext
  <2> QED
    BY <2>1, KeepsIInv DEF SAWInv
<1>2. CASE UNCHANGED vars
  <2> USE <1>2 DEF vars, sessionVars, sndVars
  <2>1. UNCHANGED SR!vars
    BY DEF SR!vars, SR!sessionVars, SR!sndVars, SR!rcvVars
  <2>2. ObjectInv' /\ ThreadStays
    BY DEF SAWInv, ObjectInv, ThreadStays, DownloadThreadSurvives
  <2> QED
    BY <2>1, <2>2, KeepsIInv DEF SAWInv
<1> QED
  BY <1>1, <1>2

(* The invariant holds of every state that a session reaches. *)
THEOREM SAWInvariant == Spec => []SAWInv
<1>1. Init => SAWInv
  BY InitSAW
<1>2. SAWInv /\ [Next]_vars => SAWInv'
  BY StepSAW
<1> QED
  BY <1>1, <1>2, PTL DEF Spec

(* Every variable keeps its type; at most one packet is pending, and an    *)
(* ACK is awaited exactly as long as one is.                               *)
THEOREM SAWTypeCorrect == Spec => []TypeOK
<1>1. SAWInv => TypeOK
  <2> SUFFICES ASSUME SAWInv PROVE TypeOK
    OBVIOUS
  <2> DEFINE P == [type : {"DATA", "CLOSE"}, seq : 1..(size + 1), data : 0..size]
  <2>1. \E p \in P : pending \subseteq {p}
    <3>1. CASE pending = {}
      <4>1. [type |-> "DATA", seq |-> 1, data |-> 0] \in P
        BY Numbers
      <4> QED
        BY <3>1, <4>1
    <3>2. CASE pending # {}
      <4>1. PICK p \in pending : pending = {p}
        BY <3>2, PendingIsLast
      <4>2. SRP!GoodPacket(p) /\ p.type \in {"DATA", "CLOSE"}
        BY <4>1 DEF SAWInv, SRP!IInv, SRP!PacketsInv, SRP!SenderInv
      <4>3. \/ p = SRP!Data(p.seq, p.seq) /\ p.seq \in 1..pos
            \/ p = SRP!Close(size + 1)
        BY <4>2 DEF SRP!GoodPacket
      <4>4. p \in P
        BY <4>2, <4>3, Numbers DEF SRP!Data, SRP!Close, SRP!Packet, SRP!NoData
      <4> QED
        BY <4>1, <4>4
    <3> QED
      BY <3>1, <3>2
  <2>2. seq_num \in Nat \ {0}
    BY Numbers
  <2> QED
    BY <2>1, <2>2, Numbers DEF TypeOK, SAWInv, ObjectInv
<1> QED
  BY <1>1, SAWInvariant, PTL

(* The receiver waits for the pending packet or has just written it        *)
(* (Protocol.next_expected against _pending, stop_and_wait.py).            *)
THEOREM SAWInStep == Spec => []InStep
<1>1. SAWInv => InStep
  <2> SUFFICES ASSUME SAWInv, NEW p \in pending
               PROVE  rcv_expected \in {p.seq, p.seq + 1}
    BY DEF InStep
  <2>1. p.seq = seq_num - 1
    BY PendingIsLast
  <2>2. rcv_expected >= seq_num - 1
    BY SRP!SenderBehind, SizesAssumption, MaxFileSizeAssumption DEF SAWInv
  <2>3. seq_num = pos + 1 \/ seq_num = pos + 2
    BY Numbers DEF SAWInv, SRP!IInv, SRP!SenderInv, SRP!FinSent
  <2> QED
    BY <2>1, <2>2, <2>3, Numbers
<1> QED
  BY <1>1, SAWInvariant, PTL

(* The failing send of Server.py:142 is never reached. *)
THEOREM SAWThreadSurvives == Spec => []DownloadThreadSurvives
<1>1. Init => DownloadThreadSurvives
  BY DEF Init, SessionInit, DownloadThreadSurvives
<1>2. SAWInv /\ DownloadThreadSurvives /\ [Next]_vars => DownloadThreadSurvives'
  BY StepSAW DEF ThreadStays
<1> QED
  BY <1>1, <1>2, SAWInvariant, PTL DEF Spec

(* Stop-and-wait is selective repeat with a window of one packet. *)
THEOREM SAWImplements == Spec => ImplementsSelectiveRepeat
<1>1. Init => SR!Init
  BY InitSAW
<1>2. SAWInv /\ [Next]_vars => [SR!Next]_SR!vars
  BY StepSAW
<1> QED
  BY <1>1, <1>2, SAWInvariant, PTL DEF Spec, ImplementsSelectiveRepeat, SR!Spec

(* Each step is one of the transfer its user is promised, or none. *)
LEMMA StepTransfers ==
  ASSUME SAWInv, [Next]_vars PROVE [SR!Transfer!Next]_SR!Transfer!vars
<1>1. [SRP!Next]_SRP!vars
  BY StepSAW, SameNext, SameVars
<1>2. [SRP!Transfer!Next]_SRP!Transfer!vars
  BY <1>1, SRP!NextTransfers, SizesAssumption, MaxFileSizeAssumption DEF SAWInv
<1> QED
  BY <1>2 DEF SRP!Transfer!Next, SRP!Transfer!Deliver, SRP!Transfer!Finish,
     SRP!Transfer!Chunks, SRP!Transfer!vars, SR!Transfer!Next, SR!Transfer!Deliver,
     SR!Transfer!Finish, SR!Transfer!Chunks, SR!Transfer!vars

(* A stop-and-wait session implements the transfer its user is promised,   *)
(* as every session of selective repeat does: the copy grows in file       *)
(* order, and the client reports success only when it is complete.         *)
THEOREM SAWTransfers == Spec => SR!ImplementsTransfer
<1>1. SR!Init => SR!Transfer!Init
  BY DEF SR!Init, SR!SessionInit, SR!Transfer!Init
<1>2. SAWInv /\ [Next]_vars => [SR!Transfer!Next]_SR!Transfer!vars
  BY StepTransfers
<1> QED
  BY <1>1, <1>2, InitSAW, SAWInvariant, PTL
     DEF Spec, SR!ImplementsTransfer, SR!Transfer!Spec

(* A damaged packet is one in SelectiveRepeat, too.                        *)
LEMMA DamageSAW ==
  ASSUME SAWInv, Damage
  PROVE  SAWInv' /\ UNCHANGED SR!Transfer!vars
<1>1. SRP!Damage
  BY DEF Damage, RecvDamaged, Receive, ToServer, sndVars, Handshake, Syn, SynAck, Ack,
     Packet, NoData, SRP!Damage, SRP!RecvDamaged, SRP!Receive, SRP!ToServer, SRP!sndVars,
     SRP!rcvVars, SRP!Handshake, SRP!Syn, SRP!SynAck, SRP!Ack, SRP!Packet, SRP!NoData
<1>2. SRP!IInv'
  BY <1>1, SRP!DamagePreserves, SizesAssumption, MaxFileSizeAssumption DEF SAWInv
<1>3. ObjectInv'
  BY QuietObject DEF Damage
<1>4. UNCHANGED SR!Transfer!vars
  BY DEF Damage, RecvDamaged, SR!Transfer!vars
<1> QED
  BY <1>2, <1>3, <1>4 DEF SAWInv

(* A damaged packet ends the program that reads it, but never spoils the   *)
(* copy, and never makes a client report a transfer that is not complete   *)
(* (from_bytes, handle_packet and _handle_corrupt of the protocol).        *)
THEOREM SAWDamageIsHarmless == DamageSpec => SR!ImplementsTransfer
<1>1. SR!Init => SR!Transfer!Init
  BY DEF SR!Init, SR!SessionInit, SR!Transfer!Init
<1>2. SAWInv /\ [Next \/ Damage]_vars =>
        SAWInv' /\ [SR!Transfer!Next]_SR!Transfer!vars
  BY StepSAW, DamageSAW, StepTransfers
<1> QED
  BY <1>1, <1>2, InitSAW, PTL DEF DamageSpec, SR!ImplementsTransfer, SR!Transfer!Spec

(* As long as the sending end is in its loop it has a packet pending       *)
(* (handle_syn_ack, _handle_init and handle_ack, with _handle_ack and      *)
(* push_payload of the protocol).                                          *)
THEOREM SAWNeverStalls == Spec => []SR!OldestOutstanding
<1>1. Init => SRP!OldestOutstanding
  BY DEF Init, SessionInit, SRP!OldestOutstanding, SRP!Sending
<1>2. ASSUME SAWInv, SRP!OldestOutstanding, [Next]_vars PROVE SRP!OldestOutstanding'
  <2>1. [SRP!Next]_SRP!vars
    BY <1>2, StepSAW, SameNext, SameVars
  <2> QED
    BY <1>2, <2>1, SRP!NextOldest, SizesAssumption, MaxFileSizeAssumption DEF SAWInv
<1>3. SRP!OldestOutstanding => SR!OldestOutstanding
  BY DEF SRP!OldestOutstanding, SRP!Sending, SRP!Seqs,
         SR!OldestOutstanding, SR!Sending, SR!Seqs
<1> QED
  BY <1>1, <1>2, <1>3, SAWInvariant, PTL DEF Spec

(* What is written is a beginning of the file, and a client that reports   *)
(* success, as a server that closes its file, leaves a complete copy.      *)
THEOREM SAWCopies ==
  Spec => [](SR!OutIsPrefix /\ SR!DoneMeansCopied /\ SR!ClosedIsComplete)
<1>1. SAWInv => SR!OutIsPrefix /\ SR!DoneMeansCopied /\ SR!ClosedIsComplete
  <2> SUFFICES ASSUME SAWInv
               PROVE  SR!OutIsPrefix /\ SR!DoneMeansCopied /\ SR!ClosedIsComplete
    OBVIOUS
  <2>1. SR!OutIsPrefix
    BY DEF SAWInv, SRP!IInv, SRP!ReceiverInv, SRP!OutIsPrefix, SR!OutIsPrefix
  <2>2. cphase = "done" \/ sfile = "closed" => out = [i \in 1..size |-> i]
    BY DEF SAWInv, SRP!IInv, SRP!ConnectionInv, SRP!Transfer!Chunks
  <2> QED
    BY <2>1, <2>2, Numbers DEF SR!DoneMeansCopied, SR!ClosedIsComplete
<1> QED
  BY <1>1, SAWInvariant, PTL
=============================================================================
