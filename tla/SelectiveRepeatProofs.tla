----------------------- MODULE SelectiveRepeatProofs ------------------------
(***************************************************************************)
(* Proofs about SelectiveRepeat, for every set of file sizes, every limit  *)
(* MAX_FILE_SIZE and every WINDOW_SIZE: its invariants, and that it        *)
(* implements FileTransfer.                                                *)
(***************************************************************************)
EXTENDS SelectiveRepeat, SequenceTheorems, TLAPS

-----------------------------------------------------------------------------
(* The inductive invariant.                                                *)

(* The FIN has been sent. *)
FinSent == seq_num = size + 2

(* What a packet that is in the network, or may be sent again, says about  *)
(* the two ends.                                                           *)
GoodPacket(m) ==
  /\ m \in Packets
  /\ m.type = "DATA" => m = Data(m.seq, m.seq) /\ m.seq \in 1..pos
  /\ m.type = "ACK" /\ m.seq # 0 => m.seq =< pos /\ Received(m.seq)
  /\ m.type = "CLOSE" => m = Close(size + 1) /\ FinSent
  /\ m.type = "CLOSE_ACK" => FinSent /\ (op = "upload" => out = Transfer!Chunks(size))
  /\ m = Ack(0) => sfile = "none" /\ cphase # "syn_sent"

PacketsInv == \A m \in net \cup window : GoodPacket(m)

(* The sender has sent nothing yet.                                        *)
Idle == IF op = "upload" THEN cphase = "syn_sent" ELSE sfile = "none"

(* The sender: the numbers below seq_num are those of the chunks read and, *)
(* at the end, of the FIN, which is then alone in the window.              *)
SenderInv ==
  /\ Idle => pos = 0 /\ seq_num = 1 /\ window = {} /\ snd_expected = 1
  /\ \/ seq_num = pos + 1
     \/ /\ FinSent /\ pos = size /\ snd_expected = size + 1
        /\ window = {Close(size + 1)}
  /\ \A p \in window : p.type \in {"DATA", "CLOSE"} /\ p.seq \in snd_expected..(seq_num - 1)
  /\ CreditConserved

(* The receiver: the buffer holds chunks above next_expected only.         *)
ReceiverInv ==
  /\ rcv_expected =< pos + 1
  /\ \A s \in DOMAIN buffer : s > rcv_expected /\ s =< pos /\ buffer[s] = s
  /\ OutIsPrefix
  /\ ForgottenWasReceived

(* The connection: when the file is opened, and what its closing means.    *)
ConnectionInv ==
  /\ cphase = "syn_sent" => sfile = "none"
  /\ sphase = "none" => sfile = "none"
  /\ op = "upload" /\ sfile = "none" /\ sphase # "dead" => rcv_expected = 1
  /\ sfile = "closed" => FinSent /\ out = Transfer!Chunks(size)
  /\ cphase = "done" => FinSent /\ out = Transfer!Chunks(size)

IInv ==
  /\ TypeOK
  /\ PacketsInv
  /\ SenderInv
  /\ ReceiverInv
  /\ ConnectionInv

-----------------------------------------------------------------------------
(* Facts about the network and about states of the invariant.              *)

(* Delivering a packet adds its answers, and takes it away if it belongs   *)
(* to the handshake.                                                       *)
LEMMA ReceiveNet ==
  ASSUME NEW m, NEW replies, Receive(m, replies)
  PROVE  /\ m \in net
         /\ net' \subseteq net \cup replies
         /\ m \in Handshake /\ m \notin replies => m \notin net'
  BY DEF Receive

(* A file has a natural number of chunks.                                  *)
LEMMA SizeIsNat == ASSUME TypeOK PROVE size \in Nat
  BY SizesAssumption DEF TypeOK

(* After the FIN the receiver has the whole file.                          *)
LEMMA FinReceived ==
  ASSUME IInv, FinSent
  PROVE  /\ pos = size /\ snd_expected = size + 1
         /\ rcv_expected = size + 1
         /\ window = {Close(size + 1)}
<1>1. /\ size \in Nat /\ pos \in Nat /\ seq_num \in Nat /\ rcv_expected \in Nat
      /\ snd_expected \in Nat /\ pos =< size
  BY SizeIsNat DEF IInv, TypeOK
<1>2. /\ pos = size /\ snd_expected = size + 1 /\ window = {Close(size + 1)}
  BY <1>1 DEF IInv, SenderInv, FinSent
<1>3. SUFFICES ASSUME rcv_expected =< size PROVE FALSE
  BY <1>1, <1>2 DEF IInv, ReceiverInv
<1>4. rcv_expected \in 1..pos
  BY <1>1, <1>2, <1>3 DEF IInv, TypeOK
<1>5. rcv_expected \notin Seqs(window)
  BY <1>1, <1>2, <1>3 DEF Seqs, Close, Packet
<1>6. ~Received(rcv_expected)
  BY <1>1 DEF IInv, ReceiverInv, Received
<1> QED
  BY <1>4, <1>5, <1>6 DEF IInv, ReceiverInv, ForgottenWasReceived

(* The sender is never ahead of the receiver's window: its oldest          *)
(* unacknowledged number is one the receiver waits for, or has.            *)
LEMMA SenderBehind == ASSUME IInv PROVE snd_expected =< rcv_expected
<1>1. /\ size \in Nat /\ pos \in Nat /\ seq_num \in Nat /\ rcv_expected \in Nat \ {0}
      /\ snd_expected \in 1..seq_num /\ pos =< size
  BY SizeIsNat DEF IInv, TypeOK
<1>2. SUFFICES ASSUME rcv_expected < snd_expected, ~FinSent PROVE FALSE
  BY <1>1, FinReceived
<1>3. seq_num = pos + 1
  BY <1>2 DEF IInv, SenderInv
<1>4. rcv_expected \in 1..pos
  BY <1>1, <1>2, <1>3
<1>5. rcv_expected \notin Seqs(window)
  BY <1>1, <1>2 DEF IInv, SenderInv, Seqs
<1>6. ~Received(rcv_expected)
  BY <1>1 DEF IInv, ReceiverInv, Received
<1> QED
  BY <1>4, <1>5, <1>6 DEF IInv, ReceiverInv, ForgottenWasReceived

(* No DATA packet is beyond the receiver's window.                         *)
LEMMA DataInWindow ==
  ASSUME IInv, NEW m \in net, m.type = "DATA"
  PROVE  ~Discards(m) /\ m = Data(m.seq, m.seq) /\ m.seq \in 1..pos
<1>1. /\ size \in Nat /\ pos \in Nat /\ seq_num \in Nat /\ rcv_expected \in Nat \ {0}
      /\ snd_expected \in 1..seq_num /\ pos =< size /\ WINDOW_SIZE \in Nat \ {0}
  BY SizeIsNat, WindowAssumption DEF IInv, TypeOK
<1>2. m = Data(m.seq, m.seq) /\ m.seq \in 1..pos
  BY DEF IInv, PacketsInv, GoodPacket
<1>3. pos + 1 =< seq_num /\ seq_num =< snd_expected + WINDOW_SIZE
  BY <1>1 DEF IInv, SenderInv, CreditConserved, FinSent
<1>4. snd_expected =< rcv_expected
  BY SenderBehind
<1> QED
  BY <1>1, <1>2, <1>3, <1>4 DEF Discards

(* An ACK that is not below next_expected is that of a chunk, and the FIN  *)
(* is still to be sent.                                                    *)
LEMMA AckIsOfChunk ==
  ASSUME IInv, NEW m \in net, m.type = "ACK", m.seq # 0, m.seq >= snd_expected
  PROVE  /\ seq_num = pos + 1
         /\ m.seq \in 1..pos
         /\ Received(m.seq)
         /\ ~Idle
<1>1. /\ size \in Nat /\ pos \in Nat /\ seq_num \in Nat /\ snd_expected \in Nat
      /\ pos =< size
  BY SizeIsNat DEF IInv, TypeOK
<1>2. m.seq =< pos /\ Received(m.seq) /\ m.seq \in Nat
  BY DEF IInv, PacketsInv, GoodPacket, Packets
<1>3. ~FinSent
  BY <1>1, <1>2, FinReceived
<1> QED
  BY <1>1, <1>2, <1>3 DEF IInv, SenderInv

(* What a packet says stays true: it speaks of chunks that were read, of   *)
(* numbers that were received, and of the end of the transfer.             *)
LEMMA GoodPacketStays ==
  ASSUME IInv, NEW m, GoodPacket(m),
         size' = size, op' = op, pos' \in Nat, pos =< pos',
         \A s \in Nat : Received(s) => Received(s)',
         FinSent => FinSent',
         m.type = "CLOSE_ACK" /\ op = "upload" => out' = out,
         m = Ack(0) => sfile' = sfile /\ cphase' \in {cphase, "done", "dead"}
  PROVE  GoodPacket(m)'
<1>1. pos \in Nat
  BY SizeIsNat DEF IInv, TypeOK
<1>2. /\ m \in Packets
      /\ m.type = "DATA" => m = Data(m.seq, m.seq) /\ m.seq \in 1..pos'
  BY <1>1 DEF GoodPacket
<1>3. m.type = "ACK" /\ m.seq # 0 => m.seq =< pos' /\ Received(m.seq)'
  <2>1. m.seq \in Nat
    BY DEF GoodPacket, Packets
  <2> QED
    BY <1>1, <2>1 DEF GoodPacket
<1>4. m.type = "CLOSE" => m = Close(size' + 1) /\ FinSent'
  BY DEF GoodPacket
<1>5. m.type = "CLOSE_ACK" => FinSent' /\ (op' = "upload" => out' = Transfer!Chunks(size'))
  BY DEF GoodPacket
<1>6. m = Ack(0) => sfile' = "none" /\ cphase' # "syn_sent"
  BY DEF GoodPacket
<1> QED
  BY <1>2, <1>3, <1>4, <1>5, <1>6 DEF GoodPacket

-----------------------------------------------------------------------------
(* The sender's step: an ACK or the start of the session lets the window   *)
(* slide and be filled again.                                              *)

(* What the tail of handle_ack, r, reads and sends from position pos.      *)
GoodRefill(r, w, n, closing) ==
  /\ r.read \in pos..size
  /\ r.read =< pos + n
  /\ r.read < size => r.read = pos + n
  /\ r.seq = IF closing THEN size + 2 ELSE r.read + 1
  /\ r.win = w \cup r.sent
  /\ \A p \in r.sent : \/ p = Data(p.seq, p.seq) /\ p.seq \in (pos + 1)..r.read
                       \/ closing /\ p = Close(size + 1)
  /\ \A s \in (pos + 1)..r.read : Data(s, s) \in r.sent
  /\ closing => r.sent = {Close(size + 1)} /\ r.read = size

(* What read-and-send leaves behind when no FIN was sent before: the case  *)
(* of every handler that sends.                                            *)
LEMMA WhatIsSent ==
  ASSUME IInv, seq_num = pos + 1, NEW w, NEW n \in Nat, NEW closing \in BOOLEAN,
         closing => pos = size
  PROVE  GoodRefill(ReadAndSend(pos, w, n, closing), w, n, closing)
<1> DEFINE k == ReadFrom(pos, n)
           r == ReadAndSend(pos, w, n, closing)
<1>1. size \in Nat /\ pos \in 0..size
  BY SizeIsNat DEF IInv, TypeOK
<1>2. /\ k \in Nat /\ k =< n /\ pos + k =< size
      /\ pos + k < size => k = n
      /\ pos = size => k = 0
  BY <1>1 DEF ReadFrom
<1>3. /\ r.read = pos + k
      /\ r.seq = pos + 1 + k + (IF closing THEN 1 ELSE 0)
      /\ r.win = w \cup r.sent
      /\ r.sent = Fresh(pos, k) \cup (IF closing THEN {Close(pos + 1 + k)} ELSE {})
  BY DEF ReadAndSend
<1> HIDE DEF k, r
<1>4. \A p \in Fresh(pos, k) : p = Data(p.seq, p.seq) /\ p.seq \in (pos + 1)..(pos + k)
  BY <1>1, <1>2 DEF Fresh, Data, Packet
<1>5. ASSUME NEW s \in (pos + 1)..(pos + k) PROVE Data(s, s) \in Fresh(pos, k)
  <2>1. s - (pos + 1) \in 0..(k - 1) /\ seq_num + (s - (pos + 1)) = s
        /\ pos + 1 + (s - (pos + 1)) = s
    BY <1>1, <1>2
  <2> QED
    BY <2>1 DEF Fresh
<1>6. ASSUME closing PROVE k = 0 /\ Fresh(pos, k) = {}
  BY <1>1, <1>2, <1>6 DEF Fresh
<1>7. r.sent = IF closing THEN {Close(size + 1)} ELSE Fresh(pos, k)
  BY <1>1, <1>2, <1>3, <1>6
<1>8. \A p \in r.sent : \/ p = Data(p.seq, p.seq) /\ p.seq \in (pos + 1)..r.read
                        \/ closing /\ p = Close(size + 1)
  BY <1>3, <1>4, <1>7
<1>9. \A s \in (pos + 1)..r.read : Data(s, s) \in r.sent
  BY <1>1, <1>3, <1>5, <1>6, <1>7
<1>10. r.seq = IF closing THEN size + 2 ELSE r.read + 1
  BY <1>1, <1>2, <1>3
<1> QED
  BY <1>1, <1>2, <1>3, <1>6, <1>7, <1>8, <1>9, <1>10 DEF r, GoodRefill

(* The sender before and after: window w is left when nx becomes the next  *)
(* expected number, n chunks are read, and the FIN follows if `closing`.   *)
LEMMA SenderAdvances ==
  ASSUME IInv, seq_num = pos + 1,
         NEW w \in SUBSET window, NEW nx \in Nat, SlidesTo(w, nx),
         NEW n \in Nat, NEW closing \in BOOLEAN,
         closing => pos = size /\ w = {},
         Refill(ReadAndSend(pos, w, n, closing)), snd_expected' = nx,
         \/ Started /\ n = nx - snd_expected
         \/ Idle /\ n = WINDOW_SIZE,
         ~Idle', size' = size, sphase' = sphase,
         rcv_expected' = rcv_expected, buffer' = buffer,
         \A s \in Seqs(window) \ Seqs(w) : Received(s)
  PROVE  /\ SenderInv'
         /\ ForgottenWasReceived'
         /\ pos' \in pos..size
         /\ snd_expected' \in 1..seq_num'
         /\ \A p \in ReadAndSend(pos, w, n, closing).sent : GoodPacket(p)'
         /\ window' = w \cup ReadAndSend(pos, w, n, closing).sent
<1> DEFINE r == ReadAndSend(pos, w, n, closing)
<1>1. /\ size \in Nat /\ pos \in 0..size /\ snd_expected \in 1..seq_num
      /\ WINDOW_SIZE \in Nat \ {0} /\ window \subseteq Packets
  BY SizeIsNat, WindowAssumption DEF IInv, TypeOK
<1>2. /\ r.read \in pos..size
      /\ r.read =< pos + n
      /\ r.read < size => r.read = pos + n
      /\ r.seq = IF closing THEN size + 2 ELSE r.read + 1
      /\ r.win = w \cup r.sent
      /\ \A p \in r.sent : \/ p = Data(p.seq, p.seq) /\ p.seq \in (pos + 1)..r.read
                           \/ closing /\ p = Close(size + 1)
      /\ \A s \in (pos + 1)..r.read : Data(s, s) \in r.sent
      /\ closing => r.sent = {Close(size + 1)} /\ r.read = size
  <2>1. GoodRefill(r, w, n, closing)
    BY WhatIsSent
  <2> QED
    BY <2>1 DEF GoodRefill
<1>3. pos' = r.read /\ seq_num' = r.seq /\ window' = r.win
  BY DEF Refill
<1> HIDE DEF r
<1>4. /\ nx \in snd_expected..seq_num
      /\ \A s \in snd_expected..(nx - 1) : s \notin Seqs(w)
      /\ w = {} => nx = seq_num
  BY DEF SlidesTo, Seqs
<1>5. \A p \in r.sent : GoodPacket(p)'
  <2>1. ASSUME NEW p \in r.sent, p = Data(p.seq, p.seq), p.seq \in (pos + 1)..r.read
        PROVE  GoodPacket(p)'
    <3>1. p.type = "DATA" /\ p \in Packets /\ p.seq \in 1..pos' /\ p # Ack(0)
      BY <1>1, <1>2, <1>3, <2>1 DEF Data, Packet, Packets, PacketTypes, Ack
    <3> QED
      BY <2>1, <3>1 DEF GoodPacket
  <2>2. ASSUME NEW p \in r.sent, closing, p = Close(size + 1)
        PROVE  GoodPacket(p)'
    <3>1. p.type = "CLOSE" /\ p \in Packets /\ p # Ack(0)
      BY <1>1, <2>2 DEF Close, Packet, Packets, PacketTypes, NoData, Ack
    <3>2. FinSent'
      BY <1>2, <1>3, <2>2 DEF FinSent
    <3> QED
      BY <2>2, <3>1, <3>2 DEF GoodPacket
  <2> QED
    BY <1>2, <2>1, <2>2
<1>6. /\ seq_num' = pos' + 1 \/ closing
      /\ closing => /\ FinSent' /\ pos' = size' /\ snd_expected' = size' + 1
                    /\ window' = {Close(size' + 1)}
  BY <1>1, <1>2, <1>3, <1>4 DEF FinSent
<1>7. ASSUME NEW p \in window'
      PROVE  p.type \in {"DATA", "CLOSE"} /\ p.seq \in snd_expected'..(seq_num' - 1)
  <2>1. CASE p \in w
    <3>1. p.type \in {"DATA", "CLOSE"} /\ p.seq \in snd_expected..(seq_num - 1)
      BY <2>1 DEF IInv, SenderInv
    <3>2. p.seq >= nx
      BY <1>1, <1>4, <2>1, <3>1 DEF Seqs
    <3> QED
      BY <1>1, <1>2, <1>3, <3>1, <3>2
  <2>2. CASE p \in r.sent
    BY <1>1, <1>2, <1>3, <1>4, <2>2 DEF Data, Close, Packet
  <2> QED
    BY <1>2, <1>3, <1>7, <2>1, <2>2
<1>8. CreditConserved'
  <2>1. seq_num =< snd_expected + WINDOW_SIZE
    BY DEF IInv, SenderInv, CreditConserved
  <2>2. CASE Started /\ n = nx - snd_expected
    <3>1. pos < size /\ sphase # "dead" => seq_num = snd_expected + WINDOW_SIZE
      BY <2>2 DEF IInv, SenderInv, CreditConserved
    <3> QED
      BY <1>1, <1>2, <1>3, <1>4, <2>1, <2>2, <3>1 DEF CreditConserved
  <2>3. CASE Idle /\ n = WINDOW_SIZE
    <3>1. pos = 0 /\ snd_expected = 1 /\ nx = 1
      BY <1>1, <1>4, <2>3 DEF IInv, SenderInv
    <3> QED
      BY <1>1, <1>2, <1>3, <2>3, <3>1 DEF CreditConserved
  <2> QED
    BY <2>2, <2>3
<1>9. SenderInv'
  BY <1>6, <1>7, <1>8 DEF SenderInv
<1>10. ForgottenWasReceived'
  <2> SUFFICES ASSUME NEW s \in 1..pos', s \notin Seqs(window')
               PROVE  Received(s)
    BY DEF ForgottenWasReceived, Received
  <2>1. s \notin Seqs(w)
    BY <1>2, <1>3 DEF Seqs
  <2>2. s =< pos
    <3>1. SUFFICES ASSUME s \in (pos + 1)..r.read PROVE FALSE
      BY <1>1, <1>2, <1>3
    <3>2. Data(s, s) \in window'
      BY <1>2, <1>3, <3>1
    <3> QED
      BY <3>2 DEF Seqs, Data, Packet
  <2> QED
    BY <1>1, <2>1, <2>2 DEF IInv, ReceiverInv, ForgottenWasReceived
<1>11. pos' \in pos..size /\ snd_expected' \in 1..seq_num'
  BY <1>1, <1>2, <1>3, <1>4
<1> QED
  BY <1>2, <1>3, <1>5, <1>9, <1>10, <1>11 DEF r

-----------------------------------------------------------------------------
(* The receiver's step: a packet of its window is buffered, and the run    *)
(* that it completes is taken out and written.                             *)

(* The first n chunks of a file, and what writing the next ones makes.     *)
LEMMA ChunksIsSeq ==
  ASSUME NEW n \in Nat
  PROVE  Transfer!Chunks(n) \in Seq(Nat) /\ Len(Transfer!Chunks(n)) = n
  BY DEF Transfer!Chunks

(* Writing the chunks after a, up to b, to a copy that ends at a.          *)
LEMMA ChunksConcat ==
  ASSUME NEW a \in Nat, NEW b \in Nat, a =< b
  PROVE  Transfer!Chunks(a) \o [i \in 1..(b - a) |-> a + i] = Transfer!Chunks(b)
<1> DEFINE s == Transfer!Chunks(a)
           t == [i \in 1..(b - a) |-> a + i]
<1>1. s \in Seq(Nat) /\ Len(s) = a /\ \A i \in 1..a : s[i] = i
  BY DEF Transfer!Chunks
<1>2. t \in Seq(Nat) /\ Len(t) = b - a /\ \A i \in 1..(b - a) : t[i] = a + i
  BY DEF t
<1> HIDE DEF s, t
<1>3. /\ s \o t \in Seq(Nat)
      /\ Len(s \o t) = b
      /\ \A i \in 1..b : (s \o t)[i] = IF i =< a THEN s[i] ELSE t[i - a]
  <2>1. /\ s \o t \in Seq(Nat)
        /\ Len(s \o t) = Len(s) + Len(t)
        /\ \A i \in 1..(Len(s) + Len(t)) :
             (s \o t)[i] = IF i =< Len(s) THEN s[i] ELSE t[i - Len(s)]
    BY <1>1, <1>2, ConcatProperties, Zenon
  <2>2. Len(s) + Len(t) = b
    BY <1>1, <1>2
  <2> QED
    BY <1>1, <2>1, <2>2, Zenon
<1>4. ASSUME NEW i \in 1..b PROVE (s \o t)[i] = i
  BY <1>1, <1>2, <1>3
<1>5. s \o t = [i \in 1..b |-> i]
  <2>1. s \o t \in [1..b -> Nat]
    BY <1>3, LenProperties, Zenon
  <2> QED
    BY <2>1, <1>4
<1> QED
  BY <1>5 DEF s, t, Transfer!Chunks

(* The first chunks of the first chunks.                                   *)
LEMMA ChunksPrefix ==
  ASSUME NEW a \in Nat, NEW b \in Nat, a =< b
  PROVE  Transfer!Chunks(a) = SubSeq(Transfer!Chunks(b), 1, a)
<1> DEFINE s == Transfer!Chunks(a)
           t == Transfer!Chunks(b)
           u == SubSeq(t, 1, a)
<1>1. /\ s \in Seq(Nat) /\ Len(s) = a /\ \A i \in 1..a : s[i] = i
      /\ \A i \in 1..b : t[i] = i
  BY DEF Transfer!Chunks
<1> HIDE DEF s, t
<1>2. \A i \in 1..a : t[i] \in Nat
  BY <1>1
<1>3. /\ u \in Seq(Nat)
      /\ Len(u) = IF 1 =< a THEN a - 1 + 1 ELSE 0
      /\ \A i \in 1..(a - 1 + 1) : u[i] = t[1 + i - 1]
  BY <1>2, SubSeqProperties
<1> HIDE DEF u
<1>4. Len(u) = a /\ \A i \in 1..a : u[i] = i
  BY <1>1, <1>3
<1>5. s = u
  BY <1>1, <1>3, <1>4, SeqEqual
<1> QED
  BY <1>5 DEF s, t, u

(* A step of _handle_data that takes in a new packet m.                    *)
LEMMA ReceiverAdvances ==
  ASSUME IInv, NEW m \in net, m.type = "DATA", ~Repeats(m),
         NEW nx \in Nat, RunsTo(Buffered(m), nx), Deliver(Buffered(m), nx),
         pos' = pos, window' = window
  PROVE  /\ ~FinSent
         /\ nx >= rcv_expected
         /\ rcv_expected' = nx /\ rcv_expected' =< pos' + 1
         /\ \A s \in DOMAIN buffer' : /\ s > rcv_expected' /\ s =< pos'
                                      /\ buffer'[s] = s
         /\ DOMAIN buffer' \subseteq Nat /\ buffer' \in [DOMAIN buffer' -> Nat]
         /\ \A s \in Nat : Received(s) => Received(s)'
         /\ Received(m.seq)'
         /\ ForgottenWasReceived'
         /\ Run(Buffered(m), nx)
              = [i \in 1..(nx - rcv_expected) |-> rcv_expected - 1 + i]
<1>1. /\ size \in Nat /\ pos \in Nat /\ pos =< size /\ rcv_expected \in Nat \ {0}
      /\ DOMAIN buffer \subseteq Nat
  BY SizeIsNat DEF IInv, TypeOK
<1>2. /\ m = Data(m.seq, m.seq) /\ m.seq \in 1..pos
      /\ m.seq >= rcv_expected /\ m.seq \notin DOMAIN buffer
  BY <1>1, DataInWindow DEF Repeats
<1>3. ~FinSent
  BY <1>1, <1>2, FinReceived
<1> DEFINE b == Buffered(m)
<1>4. /\ DOMAIN b = DOMAIN buffer \cup {m.seq}
      /\ \A s \in DOMAIN b : b[s] = s /\ s >= rcv_expected /\ s =< pos /\ s \in Nat
  <2>1. \A s \in DOMAIN buffer : s > rcv_expected /\ s =< pos /\ buffer[s] = s
    BY DEF IInv, ReceiverInv
  <2>2. m.data = m.seq
    BY <1>2 DEF Data, Packet
  <2> QED
    BY <1>1, <1>2, <2>1, <2>2 DEF Buffered
<1>5. /\ nx >= rcv_expected
      /\ nx \notin DOMAIN b
      /\ \A s \in rcv_expected..(nx - 1) : s \in DOMAIN b
  BY <1>1 DEF RunsTo
<1>6. /\ rcv_expected' = nx
      /\ buffer' = [s \in {t \in DOMAIN b : t >= nx} |-> b[s]]
  BY DEF Deliver
<1> HIDE DEF b
<1>7. nx =< pos + 1
  <2> SUFFICES ASSUME nx > pos + 1 PROVE FALSE
    BY <1>1
  <2>1. nx - 1 \in DOMAIN b
    BY <1>1, <1>2, <1>5
  <2> QED
    BY <1>1, <1>4, <2>1
<1>8. /\ \A s \in DOMAIN buffer' : s > nx /\ s =< pos /\ buffer'[s] = s /\ s \in Nat
      /\ buffer' \in [DOMAIN buffer' -> Nat]
  BY <1>4, <1>5, <1>6
<1>9. ASSUME NEW s \in Nat, Received(s) \/ s = m.seq
      PROVE  Received(s)'
  BY <1>1, <1>4, <1>5, <1>6, <1>9 DEF Received
<1>10. ForgottenWasReceived'
  BY <1>1, <1>9 DEF ForgottenWasReceived, IInv, ReceiverInv
<1>11. Run(b, nx) = [i \in 1..(nx - rcv_expected) |-> rcv_expected - 1 + i]
  <2>1. ASSUME NEW i \in 1..(nx - rcv_expected)
        PROVE  b[rcv_expected + i - 1] = rcv_expected - 1 + i
    BY <1>1, <1>4, <1>5, <2>1
  <2> QED
    BY <2>1 DEF Run
<1> QED
  BY <1>1, <1>2, <1>3, <1>5, <1>6, <1>7, <1>8, <1>9, <1>10, <1>11 DEF b

-----------------------------------------------------------------------------
(* Steps that leave the sender's window and the receiver's buffer alone.   *)

quietVars == <<op, size, out, pos, seq_num, window, snd_expected, rcv_expected, buffer>>

(* A step that leaves both protocol objects alone, starts no sender and    *)
(* revives no thread keeps the invariants of sender and receiver.          *)
LEMMA QuietStep ==
  ASSUME IInv, UNCHANGED quietVars, Started' => Started, Idle' => Idle,
         sphase = "dead" => sphase' = "dead"
  PROVE  SenderInv' /\ ReceiverInv'
<1>1. SenderInv'
  BY DEF quietVars, IInv, SenderInv, FinSent, CreditConserved
<1>2. OutIsPrefix'
  BY DEF quietVars, IInv, ReceiverInv, OutIsPrefix
<1>3. ForgottenWasReceived'
  BY DEF quietVars, IInv, ReceiverInv, ForgottenWasReceived, Seqs, Received
<1> QED
  BY <1>1, <1>2, <1>3 DEF quietVars, IInv, ReceiverInv

(* ... and the invariant of the packets, if every new packet is a good     *)
(* one.                                                                    *)
LEMMA QuietPackets ==
  ASSUME IInv, UNCHANGED quietVars,
         Ack(0) \in net \cap net' => sfile' = sfile /\ cphase' \in {cphase, "done", "dead"},
         \A m \in net' : m \in net \cup window \/ GoodPacket(m)'
  PROVE  PacketsInv'
<1>1. \A s : Received(s) => Received(s)'
  BY DEF quietVars, Received
<1>2. pos \in Nat
  BY SizeIsNat DEF IInv, TypeOK
<1>3. Ack(0) \notin window
  BY DEF IInv, SenderInv, Ack, Packet
<1>4. FinSent => FinSent'
  BY DEF quietVars, FinSent
<1> SUFFICES ASSUME NEW m \in net' \cup window' PROVE GoodPacket(m)'
  BY DEF PacketsInv
<1>5. CASE m \in net \cup window
  <2>1. GoodPacket(m)
    BY <1>5 DEF IInv, PacketsInv
  <2>2. m = Ack(0) => sfile' = sfile /\ cphase' \in {cphase, "done", "dead"}
    BY <1>3, <1>5 DEF quietVars
  <2> QED
    BY <1>1, <1>2, <1>4, <2>1, <2>2, GoodPacketStays DEF quietVars
<1>6. CASE m \notin net \cup window
  BY <1>6 DEF quietVars
<1> QED
  BY <1>5, <1>6

(* The kinds of packet that the two ends send in answer.                   *)
LEMMA AnswerTypes ==
  /\ Syn.type = "SYN" /\ SynAck.type = "SYN_ACK" /\ CloseAck.type = "CLOSE_ACK"
  /\ Syn \in Packets /\ SynAck \in Packets /\ CloseAck \in Packets
  /\ \A s \in Nat : Ack(s).type = "ACK" /\ Ack(s).seq = s /\ Ack(s) \in Packets
  BY DEF Syn, SynAck, CloseAck, Ack, Packet, Packets, PacketTypes, NoData

(* Losing a packet keeps the invariant.                                    *)
LEMMA LosePreserves == ASSUME IInv, NetworkLoses PROVE IInv'
<1> USE DEF NetworkLoses, Lose, sndVars, rcvVars
<1>1. SenderInv' /\ ReceiverInv'
  BY QuietStep DEF quietVars, Started, Idle
<1>2. PacketsInv'
  BY QuietPackets DEF quietVars
<1> QED
  BY <1>1, <1>2 DEF IInv, TypeOK, ConnectionInv, FinSent

(* A client that gives up on its SYN_ACK keeps the invariant.              *)
LEMMA HandshakeTimeoutPreserves == ASSUME IInv, ClientHandshakeTimeout PROVE IInv'
<1> USE DEF ClientHandshakeTimeout, HandshakeTimeout, sndVars, rcvVars
<1>1. SenderInv' /\ ReceiverInv'
  BY QuietStep DEF quietVars, Started, Idle
<1>2. Ack(0) \notin net
  BY DEF IInv, PacketsInv, GoodPacket
<1>3. PacketsInv'
  BY <1>2, QuietPackets DEF quietVars
<1> QED
  BY <1>1, <1>3 DEF IInv, TypeOK, ConnectionInv, FinSent

(* Starting the server thread keeps the invariant.                         *)
LEMMA RecvSynPreserves == ASSUME IInv, ServerRecvSyn PROVE IInv'
<1> USE DEF ServerRecvSyn, RecvSyn, sndVars, rcvVars
<1>1. SenderInv' /\ ReceiverInv'
  BY QuietStep DEF quietVars, Started, Idle
<1>2. net' \subseteq net \cup {SynAck}
  BY ReceiveNet
<1>3. GoodPacket(SynAck)'
  BY AnswerTypes DEF GoodPacket, Ack, SynAck, Packet
<1>4. PacketsInv'
  BY <1>2, <1>3, QuietPackets DEF quietVars
<1>5. net' \subseteq Packets
  BY <1>2, AnswerTypes DEF IInv, TypeOK
<1> QED
  BY <1>1, <1>4, <1>5 DEF IInv, TypeOK, ConnectionInv, FinSent

(* A thread that gives up keeps the invariant.                             *)
LEMMA InactivityPreserves == ASSUME IInv, ServerInactivity PROVE IInv'
<1> USE DEF ServerInactivity, Inactivity, sndVars, rcvVars
<1>1. SenderInv' /\ ReceiverInv'
  BY QuietStep DEF quietVars, Started, Idle
<1>2. PacketsInv'
  BY QuietPackets DEF quietVars
<1> QED
  BY <1>1, <1>2 DEF IInv, TypeOK, ConnectionInv, FinSent

(* Retransmission keeps the invariant: what is sent again is in the        *)
(* window.                                                                 *)
LEMMA TimeoutPreserves == ASSUME IInv, ClientTimeout \/ ServerTimeout PROVE IInv'
<1> USE DEF ClientTimeout, ServerTimeout, rcvVars
<1>1. SenderInv' /\ ReceiverInv'
  BY QuietStep DEF quietVars, Started, Idle
<1>2. net' \subseteq net \cup window
  BY DEF IInv, TypeOK
<1>3. PacketsInv'
  BY <1>2, QuietPackets DEF quietVars
<1> QED
  BY <1>1, <1>2, <1>3 DEF IInv, TypeOK, ConnectionInv, FinSent

(* A timer that runs out keeps the invariant.                              *)
LEMMA ExpirePreserves == ASSUME IInv, NEW s, Expire(s) PROVE IInv'
<1> USE DEF Expire, rcvVars, sessionVars
<1>1. SenderInv' /\ ReceiverInv'
  BY QuietStep DEF quietVars, Started, Idle
<1>2. PacketsInv'
  BY QuietPackets DEF quietVars
<1> QED
  BY <1>1, <1>2 DEF IInv, TypeOK, ConnectionInv, FinSent

-----------------------------------------------------------------------------
(* The closing of a session.                                               *)

(* A CLOSE is only ever received after the whole file was.                 *)
LEMMA CloseMeansCopied ==
  ASSUME IInv, NEW m \in net, m.type = "CLOSE",
         op = "download" \/ sphase # "dead"
  PROVE  FinSent /\ out = Transfer!Chunks(size)
<1>1. FinSent
  BY DEF IInv, PacketsInv, GoodPacket
<1>2. rcv_expected - 1 = size
  BY <1>1, FinReceived, SizeIsNat DEF IInv
<1>3. op # "upload" \/ sphase # "dead"
  OBVIOUS
<1> QED
  BY <1>1, <1>2, <1>3 DEF IInv, ReceiverInv, OutIsPrefix, Transfer!Chunks

(* Upload: answering CLOSE keeps the invariant, since the FIN came after   *)
(* the last chunk.                                                         *)
LEMMA ServerClosePreserves == ASSUME IInv, NEW m, ServerClose(m) PROVE IInv'
<1> USE DEF ServerClose, ServerRecvClose, sndVars, rcvVars
<1>1. SenderInv' /\ ReceiverInv'
  BY QuietStep DEF quietVars, Started, Idle
<1>2. m \in net /\ net' \subseteq net \cup {CloseAck}
  BY ReceiveNet
<1>3. FinSent /\ out = Transfer!Chunks(size)
  BY <1>2, CloseMeansCopied
<1>4. GoodPacket(CloseAck)'
  BY <1>3, AnswerTypes DEF GoodPacket, Ack, CloseAck, Packet, FinSent
<1>5. Ack(0) \in net' => sfile' = sfile
  <2>1. Ack(0) \in net' => Ack(0) \in net
    BY <1>2 DEF Ack, CloseAck, Packet
  <2> QED
    BY <2>1 DEF IInv, PacketsInv, GoodPacket
<1>6. PacketsInv'
  BY <1>2, <1>4, <1>5, QuietPackets DEF quietVars
<1>7. net' \subseteq Packets
  BY <1>2, AnswerTypes DEF IInv, TypeOK
<1> QED
  BY <1>1, <1>3, <1>6, <1>7 DEF IInv, TypeOK, ConnectionInv, FinSent

(* Download: the end of the server thread keeps the invariant.             *)
LEMMA ServerCloseFinPreserves == ASSUME IInv, ServerCloseFin PROVE IInv'
<1> USE DEF ServerCloseFin, ServerRecvCloseAck, sndVars, rcvVars
<1>1. CloseAck \in net /\ net' \subseteq net
  BY ReceiveNet
<1>2. FinSent
  BY <1>1, AnswerTypes DEF IInv, PacketsInv, GoodPacket
<1>3. sfile # "none"
  BY <1>2, FinReceived, SizeIsNat DEF IInv, SenderInv, Idle
<1>4. SenderInv' /\ ReceiverInv'
  BY <1>3, QuietStep DEF quietVars, Started, Idle
<1>5. Ack(0) \notin net'
  BY <1>1, <1>3 DEF IInv, PacketsInv, GoodPacket
<1>6. PacketsInv'
  BY <1>1, <1>5, QuietPackets DEF quietVars
<1>7. cphase # "syn_sent"
  BY <1>3 DEF IInv, ConnectionInv
<1>8. out = Transfer!Chunks(size)
  <2>1. rcv_expected - 1 = size
    BY <1>2, FinReceived, SizeIsNat DEF IInv
  <2> QED
    BY <2>1 DEF IInv, ReceiverInv, OutIsPrefix, Transfer!Chunks
<1> QED
  BY <1>1, <1>2, <1>4, <1>6, <1>7, <1>8 DEF IInv, TypeOK, ConnectionInv, FinSent

(* Download: answering CLOSE keeps the invariant; the copy is complete.    *)
LEMMA ClientClosePreserves == ASSUME IInv, NEW m, ClientClose(m) PROVE IInv'
<1> USE DEF ClientClose, ClientRecvClose, sndVars, rcvVars
<1>1. SenderInv' /\ ReceiverInv'
  BY QuietStep DEF quietVars, Started, Idle
<1>2. m \in net /\ net' \subseteq net \cup {CloseAck}
  BY ReceiveNet
<1>3. FinSent /\ out = Transfer!Chunks(size)
  BY <1>2, CloseMeansCopied
<1>4. GoodPacket(CloseAck)'
  BY <1>3, AnswerTypes DEF GoodPacket, Ack, CloseAck, Packet, FinSent
<1>5. PacketsInv'
  BY <1>2, <1>4, QuietPackets DEF quietVars
<1>6. net' \subseteq Packets
  BY <1>2, AnswerTypes DEF IInv, TypeOK
<1> QED
  BY <1>1, <1>3, <1>5, <1>6 DEF IInv, TypeOK, ConnectionInv, FinSent

(* Upload: the end of the client keeps the invariant; the copy is          *)
(* complete.                                                               *)
LEMMA ClientCloseFinPreserves == ASSUME IInv, ClientCloseFin PROVE IInv'
<1> USE DEF ClientCloseFin, ClientRecvCloseAck, sndVars, rcvVars
<1>1. SenderInv' /\ ReceiverInv'
  BY QuietStep DEF quietVars, Started, Idle
<1>2. CloseAck \in net /\ net' \subseteq net
  BY ReceiveNet
<1>3. FinSent /\ out = Transfer!Chunks(size)
  BY <1>2, AnswerTypes DEF IInv, PacketsInv, GoodPacket
<1>4. PacketsInv'
  BY <1>2, QuietPackets DEF quietVars
<1> QED
  BY <1>1, <1>2, <1>3, <1>4 DEF IInv, TypeOK, ConnectionInv, FinSent

-----------------------------------------------------------------------------
(* The steps of the sending end.                                           *)

(* When window w is left after an ACK, what it says of the credit: if      *)
(* nothing is outstanding, the ACK made the window slide.                  *)
LEMMA EmptyMeansSlid ==
  ASSUME IInv, NEW m \in net, m.type = "ACK", m.seq # 0, m.seq >= snd_expected,
         NEW nx \in Nat, SlidesTo(Unacked(m.seq), nx), Unacked(m.seq) = {}
  PROVE  nx - snd_expected > 0
<1>1. /\ seq_num = pos + 1 /\ m.seq \in 1..pos
  BY AckIsOfChunk
<1>2. nx = seq_num
  BY DEF SlidesTo, Seqs
<1>3. snd_expected \in Nat /\ pos \in Nat
  BY SizeIsNat DEF IInv, TypeOK
<1> QED
  BY <1>1, <1>2, <1>3

(* What an ACK takes out of the window was received.                       *)
LEMMA UnackedReceived ==
  ASSUME IInv, NEW s, Received(s)
  PROVE  /\ Unacked(s) \in SUBSET window
         /\ \A t \in Seqs(window) \ Seqs(Unacked(s)) : Received(t)
  BY DEF Unacked, Seqs

(* Upload: an ACK, late or repeated ones too, keeps the invariant.         *)
LEMMA RecvAckClientPreserves == ASSUME IInv, NEW m \in net, ClientRecvAck(m) PROVE IInv'
<1> USE DEF ClientRecvAck
<1>1. CASE m.seq < snd_expected
  <2> USE DEF sndVars, rcvVars
  <2>0. m.seq \in Nat /\ snd_expected \in Nat
    BY DEF IInv, TypeOK, Packets
  <2>1. UNCHANGED sndVars /\ net' \subseteq net
    BY <1>1, <2>0, ReceiveNet
  <2>2. SenderInv' /\ ReceiverInv'
    BY <2>1, QuietStep DEF quietVars, Started, Idle
  <2>3. PacketsInv'
    BY <2>1, QuietPackets DEF quietVars
  <2> QED
    BY <2>1, <2>2, <2>3 DEF IInv, TypeOK, ConnectionInv, FinSent
<1>2. CASE m.seq >= snd_expected
  <2> DEFINE w == Unacked(m.seq)
  <2>1. /\ seq_num = pos + 1 /\ m.seq \in 1..pos /\ Received(m.seq) /\ Started
    BY <1>2, AckIsOfChunk DEF Started
  <2>2. PICK nx \in snd_expected..seq_num :
          /\ SlidesTo(w, nx)
          /\ ClientSends(m, {}, w, nx - snd_expected)
          /\ snd_expected' = nx
    <3>1. m.seq \in Nat /\ snd_expected \in Nat
      BY DEF IInv, TypeOK, Packets
    <3> QED
      BY <1>2, <3>1
  <2> DEFINE n == nx - snd_expected
             closing == ClientCloses(w, n)
             r == ReadAndSend(pos, w, n, closing)
  <2>20. Receive(m, (expired \cap w) \cup r.sent) /\ Refill(r) /\ expired' = {}
    BY <2>2 DEF ClientSends
  <2>3. /\ n \in Nat /\ nx \in Nat /\ closing \in BOOLEAN
        /\ pos \in 0..size /\ size \in Nat
    BY SizeIsNat DEF IInv, TypeOK, ClientCloses
  <2>4. closing => pos = size /\ w = {}
    <3>1. w = {} => n > 0
      BY <1>2, <2>2, <2>3, EmptyMeansSlid
    <3> QED
      BY <2>3, <3>1 DEF ClientCloses, ReadFrom
  <2>5. /\ SenderInv' /\ ForgottenWasReceived'
        /\ pos' \in pos..size
        /\ snd_expected' \in 1..seq_num'
        /\ \A p \in r.sent : GoodPacket(p)'
        /\ window' = w \cup r.sent
    <3>1. ~Idle'
      BY DEF Idle
    <3>2. w \in SUBSET window /\ \A t \in Seqs(window) \ Seqs(w) : Received(t)
      BY <2>1, UnackedReceived
    <3>3. Refill(r)
      BY <2>20
    <3> HIDE DEF w, n, closing
    <3> QED
      BY <2>1, <2>2, <2>3, <2>4, <3>1, <3>2, <3>3, SenderAdvances DEF n, rcvVars
  <2>6. net' \subseteq net \cup window \cup r.sent
    BY <2>20, ReceiveNet DEF IInv, TypeOK
  <2>7. ~FinSent
    BY <2>1, <2>3 DEF FinSent
  <2>8. PacketsInv'
    <3> SUFFICES ASSUME NEW p \in net \cup window PROVE GoodPacket(p)'
      BY <2>5, <2>6 DEF PacketsInv, Unacked
    <3>1. GoodPacket(p)
      BY DEF IInv, PacketsInv
    <3> QED
      BY <2>3, <2>5, <2>7, <3>1, GoodPacketStays DEF Received, rcvVars
  <2>9. ReceiverInv'
    BY <2>3, <2>5, SizeIsNat DEF IInv, TypeOK, ReceiverInv, OutIsPrefix, rcvVars
  <2>10. TypeOK'
    <3>1. net' \cup window' \subseteq Packets
      BY <2>8 DEF PacketsInv, GoodPacket
    <3>2. seq_num' \in Nat
      BY <2>3, <2>5 DEF SenderInv, FinSent
    <3> QED
      BY <2>20, <2>3, <2>5, <3>1, <3>2 DEF IInv, TypeOK, rcvVars
  <2>11. ConnectionInv'
    BY <2>7 DEF IInv, ConnectionInv, rcvVars
  <2> QED
    BY <2>5, <2>8, <2>9, <2>10, <2>11 DEF IInv
<1> QED
  BY <1>1, <1>2 DEF ClientRecvAck

(* The client's SYN_ACK: the first window of an upload is sent.            *)
LEMMA RecvSynAckPreserves == ASSUME IInv, ClientRecvSynAck PROVE IInv'
<1> USE DEF ClientRecvSynAck, rcvVars
<1>1. sfile = "none" /\ Ack(0) \notin net
  BY DEF IInv, ConnectionInv, PacketsInv, GoodPacket
<1>2. GoodPacket(Ack(0))'
  BY <1>1, AnswerTypes DEF GoodPacket
<1>3. /\ pos \in 0..size /\ size \in Nat /\ WINDOW_SIZE \in Nat \ {0}
      /\ window \subseteq Packets
  BY SizeIsNat, WindowAssumption DEF IInv, TypeOK
<1>4. CASE op = "download"
  <2>1. SenderInv' /\ ReceiverInv'
    BY <1>4, QuietStep DEF quietVars, Started, Idle
  <2>2. net' \subseteq net \cup {Ack(0)}
    BY <1>4, ReceiveNet
  <2>3. PacketsInv'
    BY <1>1, <1>2, <1>4, <2>2, QuietPackets DEF quietVars
  <2>4. net' \subseteq Packets
    BY <2>2, AnswerTypes DEF IInv, TypeOK
  <2> QED
    BY <1>1, <1>4, <2>1, <2>3, <2>4 DEF IInv, TypeOK, ConnectionInv, FinSent
<1>5. CASE op = "upload"
  <2> DEFINE closing == ClientCloses(window, WINDOW_SIZE)
             r == ReadAndSend(pos, window, WINDOW_SIZE, closing)
  <2>1. /\ Receive(SynAck, {Ack(0)} \cup (expired \cap window) \cup r.sent)
        /\ Refill(r) /\ expired' = {}
    BY <1>5 DEF ClientSends
  <2>2. Idle /\ pos = 0 /\ seq_num = pos + 1 /\ window = {} /\ snd_expected = 1
    BY <1>5 DEF Idle, IInv, SenderInv
  <2>3. closing \in BOOLEAN /\ (closing => pos = size)
    BY <1>3, <2>2 DEF ClientCloses, ReadFrom
  <2>4. SlidesTo(window, 1)
    BY <2>2 DEF SlidesTo, Seqs
  <2>5. /\ SenderInv' /\ ForgottenWasReceived'
        /\ pos' \in pos..size
        /\ snd_expected' \in 1..seq_num'
        /\ \A p \in r.sent : GoodPacket(p)'
        /\ window' = window \cup r.sent
    <3>1. ~Idle'
      BY <1>5 DEF Idle
    <3> HIDE DEF closing
    <3> QED
      BY <1>3, <2>1, <2>2, <2>3, <2>4, <3>1, SenderAdvances
  <2>6. net' \subseteq net \cup {Ack(0)} \cup r.sent
    BY <2>1, <2>2, ReceiveNet
  <2>7. PacketsInv'
    <3> SUFFICES ASSUME NEW p \in net PROVE GoodPacket(p)'
      BY <1>2, <2>2, <2>5, <2>6 DEF PacketsInv
    <3>1. GoodPacket(p)
      BY DEF IInv, PacketsInv
    <3>2. FinSent => FinSent'
      BY <1>3, <2>2 DEF FinSent
    <3> QED
      BY <1>1, <1>3, <2>5, <3>1, <3>2, GoodPacketStays DEF Received
  <2>8. ReceiverInv'
    BY <1>3, <2>5 DEF IInv, TypeOK, ReceiverInv, OutIsPrefix
  <2>9. TypeOK'
    <3>1. net' \cup window' \subseteq Packets
      BY <2>7 DEF PacketsInv, GoodPacket
    <3>2. seq_num' \in Nat
      BY <1>3, <2>5 DEF SenderInv, FinSent
    <3> QED
      BY <1>3, <2>1, <2>5, <3>1, <3>2 DEF IInv, TypeOK
  <2>10. ConnectionInv'
    BY <1>1 DEF IInv, ConnectionInv
  <2> QED
    BY <2>5, <2>7, <2>8, <2>9, <2>10 DEF IInv
<1> QED
  BY <1>4, <1>5 DEF IInv, TypeOK

(* The server closes only with the file read and nothing unacknowledged.   *)
LEMMA ServerClosesMeans ==
  ASSUME IInv, NEW w, NEW n \in Nat, ServerCloses(pos, w, n)
  PROVE  pos = size /\ w = {}
<1>1. pos \in 0..size /\ size \in Nat
  BY SizeIsNat DEF IInv, TypeOK
<1> DEFINE k == ReadFrom(pos, n)
<1>2. k \in Nat /\ pos + k >= size /\ Fresh(pos, k) = {} /\ w = {}
  BY <1>1 DEF ServerCloses, ReadFrom
<1> HIDE DEF k
<1>3. k = 0
  <2> SUFFICES ASSUME k > 0 PROVE FALSE
    BY <1>2
  <2>1. 0 \in 0..(k - 1)
    BY <1>2
  <2> QED
    BY <1>2, <2>1 DEF Fresh
<1> QED
  BY <1>1, <1>2, <1>3

(* The death of a download's thread: the window has already lost the       *)
(* acknowledged packet, and nothing is sent.                               *)
LEMMA DeathPreserves ==
  ASSUME IInv, NEW m \in net, m.type = "ACK", m.seq # 0, m.seq >= snd_expected,
         op = "download", NEW nx \in Nat, SlidesTo(Unacked(m.seq), nx),
         net' \subseteq net, sphase' = "dead", window' = Unacked(m.seq), expired' = {},
         snd_expected' = nx,
         UNCHANGED <<op, size, stored, cphase, sfile, out, pos, seq_num, rcvVars>>
  PROVE  IInv'
<1> USE DEF rcvVars
<1>1. /\ seq_num = pos + 1 /\ m.seq \in 1..pos /\ Received(m.seq) /\ ~Idle
  BY AckIsOfChunk
<1>2. /\ pos \in 0..size /\ size \in Nat /\ snd_expected \in 1..seq_num
      /\ window \subseteq Packets /\ WINDOW_SIZE \in Nat
  BY SizeIsNat, WindowAssumption DEF IInv, TypeOK
<1>3. /\ nx \in snd_expected..seq_num
      /\ \A s \in snd_expected..(nx - 1) : s \notin Seqs(window')
  BY DEF SlidesTo
<1>4. window' \subseteq window
  BY DEF Unacked
<1>5. ~FinSent
  BY <1>1, <1>2 DEF FinSent
<1>6. SenderInv'
  <2>1. ASSUME NEW p \in window'
        PROVE  p.type \in {"DATA", "CLOSE"} /\ p.seq \in snd_expected'..(seq_num' - 1)
    <3>1. p.type \in {"DATA", "CLOSE"} /\ p.seq \in snd_expected..(seq_num - 1)
      BY <1>4 DEF IInv, SenderInv
    <3>2. p.seq >= nx
      BY <1>2, <1>3, <3>1 DEF Seqs
    <3> QED
      BY <1>2, <3>1, <3>2
  <2>2. CreditConserved'
    BY <1>1, <1>2, <1>3 DEF IInv, SenderInv, CreditConserved
  <2>3. ~Idle'
    BY <1>1 DEF Idle
  <2> QED
    BY <1>1, <2>1, <2>2, <2>3 DEF SenderInv
<1>7. ReceiverInv'
  <2>1. \A t \in Seqs(window) \ Seqs(window') : Received(t)
    BY <1>1, UnackedReceived
  <2>2. ForgottenWasReceived'
    BY <2>1 DEF IInv, ReceiverInv, ForgottenWasReceived, Received
  <2>3. OutIsPrefix'
    BY DEF IInv, ReceiverInv, OutIsPrefix
  <2> QED
    BY <2>2, <2>3 DEF IInv, ReceiverInv
<1>8. PacketsInv'
  <2> SUFFICES ASSUME NEW p \in net \cup window PROVE GoodPacket(p)'
    BY <1>4 DEF PacketsInv
  <2>1. GoodPacket(p)
    BY DEF IInv, PacketsInv
  <2> QED
    BY <1>2, <1>5, <2>1, GoodPacketStays DEF Received
<1>9. TypeOK'
  BY <1>1, <1>2, <1>3, <1>4 DEF IInv, TypeOK
<1>10. ConnectionInv'
  BY DEF IInv, ConnectionInv, FinSent
<1> QED
  BY <1>6, <1>7, <1>8, <1>9, <1>10 DEF IInv

(* The common part of the two ways in which the server sends: window w is  *)
(* left, the sender slides to nx and is filled again.                      *)
LEMMA ServerRefillPreserves ==
  ASSUME IInv, op = "download", seq_num = pos + 1, NEW m \in net,
         NEW w \in SUBSET window, NEW nx \in Nat, SlidesTo(w, nx), NEW n \in Nat,
         \/ Started /\ n = nx - snd_expected
         \/ Idle /\ n = WINDOW_SIZE,
         \A s \in Seqs(window) \ Seqs(w) : Received(s),
         ServerSends(m, pos, w, n), expired \cap w = {},
         Ack(0) \in net \cap net' => sfile' = sfile,
         sfile' = "open", sphase = "running", cphase # "syn_sent",
         snd_expected' = nx, expired' = {},
         UNCHANGED <<op, size, stored, cphase, out, rcvVars>>
  PROVE  IInv'
<1> USE DEF rcvVars
<1> DEFINE closing == ServerCloses(pos, w, n)
           r == ReadAndSend(pos, w, n, closing)
<1>1. Receive(m, r.sent) /\ Refill(r) /\ sphase' = sphase
  BY DEF ServerSends
<1>2. pos \in 0..size /\ size \in Nat /\ ~FinSent
  BY SizeIsNat DEF IInv, TypeOK, FinSent
<1>3. closing \in BOOLEAN /\ (closing => pos = size /\ w = {})
  BY ServerClosesMeans DEF ServerCloses
<1>4. /\ SenderInv' /\ ForgottenWasReceived'
      /\ pos' \in pos..size
      /\ snd_expected' \in 1..seq_num'
      /\ \A p \in r.sent : GoodPacket(p)'
      /\ window' = w \cup r.sent
  <2>1. ~Idle'
    BY DEF Idle
  <2> HIDE DEF closing
  <2> QED
    BY <1>1, <1>3, <2>1, SenderAdvances
<1>5. net' \subseteq net \cup r.sent
  BY <1>1, ReceiveNet
<1>6. Ack(0) \notin window /\ Ack(0) \notin r.sent
  <2>1. Ack(0) \notin window
    BY DEF IInv, SenderInv, Ack, Packet
  <2>2. Ack(0) \notin r.sent
    BY <1>4 DEF SenderInv, Ack, Packet
  <2> QED
    BY <2>1, <2>2
<1>7. PacketsInv'
  <2> SUFFICES ASSUME NEW p \in net \cup window, p \in net' \cup window'
               PROVE GoodPacket(p)'
    BY <1>4, <1>5 DEF PacketsInv
  <2>1. GoodPacket(p)
    BY DEF IInv, PacketsInv
  <2>2. p = Ack(0) => sfile' = sfile
    BY <1>4, <1>6
  <2> QED
    BY <1>2, <1>4, <2>1, <2>2, GoodPacketStays DEF Received
<1>8. ReceiverInv'
  BY <1>2, <1>4 DEF IInv, TypeOK, ReceiverInv, OutIsPrefix
<1>9. TypeOK'
  <2>1. net' \cup window' \subseteq Packets
    BY <1>7 DEF PacketsInv, GoodPacket
  <2>2. seq_num' \in Nat
    BY <1>2, <1>4 DEF SenderInv, FinSent
  <2> QED
    BY <1>1, <1>2, <1>4, <2>1, <2>2 DEF IInv, TypeOK
<1>10. ConnectionInv'
  BY <1>1, <1>2 DEF IInv, ConnectionInv
<1> QED
  BY <1>4, <1>7, <1>8, <1>9, <1>10 DEF IInv

(* Download: likewise at the server, also when its thread dies of it.      *)
LEMMA RecvAckServerPreserves == ASSUME IInv, NEW m \in net, ServerRecvAck(m) PROVE IInv'
<1> USE DEF ServerRecvAck
<1>0. m.seq \in Nat /\ snd_expected \in Nat /\ seq_num \in Nat
  BY DEF IInv, TypeOK, Packets
<1>1. CASE m.seq < snd_expected
  <2> USE DEF sndVars, rcvVars
  <2>1. UNCHANGED <<sphase, sndVars>> /\ net' \subseteq net
    BY <1>0, <1>1, ReceiveNet
  <2>2. SenderInv' /\ ReceiverInv'
    BY <2>1, QuietStep DEF quietVars, Started, Idle
  <2>3. PacketsInv'
    BY <2>1, QuietPackets DEF quietVars
  <2> QED
    BY <2>1, <2>2, <2>3 DEF IInv, TypeOK, ConnectionInv, FinSent
<1>2. CASE m.seq >= snd_expected
  <2> DEFINE w == Unacked(m.seq)
  <2>1. PICK nx \in snd_expected..seq_num :
          /\ SlidesTo(w, nx)
          /\ ServerSends(m, pos, w, nx - snd_expected)
          /\ snd_expected' = nx
          /\ expired' = {}
    BY <1>0, <1>2
  <2>2. /\ seq_num = pos + 1 /\ m.seq \in 1..pos /\ Received(m.seq)
        /\ ~Idle /\ Started
    BY <1>2, AckIsOfChunk DEF Idle, Started
  <2>3. nx \in Nat /\ nx - snd_expected \in Nat
    BY <1>0
  <2>4. w \in SUBSET window /\ \A t \in Seqs(window) \ Seqs(w) : Received(t)
    BY <2>2, UnackedReceived
  <2>5. cphase # "syn_sent"
    BY <2>2 DEF Idle, IInv, ConnectionInv
  <2> HIDE DEF w
  <2>6. CASE expired \cap w # {}
    <3>1. /\ net' \subseteq net /\ sphase' = "dead" /\ window' = w
          /\ UNCHANGED <<pos, seq_num>>
      BY <2>1, <2>6, ReceiveNet DEF ServerSends
    <3> QED
      BY <1>2, <2>1, <2>3, <3>1, DeathPreserves DEF w
  <2>7. CASE expired \cap w = {}
    <3>1. sfile = "open"
      <4>1. ~FinSent
        BY <2>2, SizeIsNat DEF FinSent, IInv, TypeOK
      <4> QED
        BY <2>2, <4>1 DEF Idle, IInv, TypeOK, ConnectionInv
    <3>2. \A p \in net : p # Ack(0)
      BY <3>1 DEF IInv, PacketsInv, GoodPacket
    <3> QED
      BY <2>1, <2>2, <2>3, <2>4, <2>5, <2>7, <3>1, <3>2, ServerRefillPreserves
  <2> QED
    BY <2>6, <2>7
<1> QED
  BY <1>0, <1>1, <1>2

(* The server's ACK(0), which opens the file on either side: it is         *)
(* delivered once, before anything was written.                            *)
LEMMA AckInitIsFirst ==
  ASSUME IInv, ServerRecvAckInit
  PROVE  /\ Ack(0) \in net
         /\ sfile = "none" /\ cphase # "syn_sent"
         /\ out' = out
<1> USE DEF ServerRecvAckInit, rcvVars
<1>1. /\ Ack(0) \in net
      /\ sfile = "none" /\ cphase # "syn_sent"
  <2>1. Ack(0) \in net
    <3>1. CASE op = "download" /\ stored
      BY <3>1, ReceiveNet DEF ServerSends
    <3>2. CASE ~(op = "download" /\ stored)
      BY <3>2, ReceiveNet
    <3> QED
      BY <3>1, <3>2
  <2> QED
    BY <2>1 DEF IInv, PacketsInv, GoodPacket
<1>2. CASE op = "upload"
  <2>1. rcv_expected = 1 /\ out = [i \in 1..0 |-> i]
    BY <1>1, <1>2 DEF IInv, ConnectionInv, ReceiverInv, OutIsPrefix
  <2> QED
    BY <1>1, <1>2, <2>1
<1>3. CASE op # "upload"
  BY <1>1, <1>3
<1> QED
  BY <1>1, <1>2, <1>3

(* Opening the file, the third step of the handshake, keeps the invariant. *)
LEMMA RecvAckInitPreserves == ASSUME IInv, ServerRecvAckInit PROVE IInv'
<1> USE DEF ServerRecvAckInit, rcvVars
<1>1. /\ Ack(0) \in net
      /\ sfile = "none" /\ cphase # "syn_sent"
      /\ out' = out
  BY AckInitIsFirst
<1>2. CASE op = "download" /\ stored
  <2>1. Idle /\ pos = 0 /\ seq_num = pos + 1 /\ window = {} /\ snd_expected = 1
    BY <1>1, <1>2 DEF Idle, IInv, SenderInv
  <2>2. /\ ServerSends(Ack(0), pos, window, WINDOW_SIZE)
        /\ sfile' = "open" /\ expired' = {}
        /\ UNCHANGED <<op, size, stored, cphase, out, snd_expected, rcvVars>>
    BY <1>2, <2>1
  <2>3. SlidesTo(window, 1)
    BY <2>1 DEF SlidesTo, Seqs
  <2>4. Ack(0) \notin net'
    <3> DEFINE r == ReadAndSend(pos, window, WINDOW_SIZE,
                                ServerCloses(pos, window, WINDOW_SIZE))
    <3>1. Receive(Ack(0), r.sent)
      BY <2>1, <2>2 DEF ServerSends
    <3>2. Ack(0) \notin r.sent
      BY DEF ReadAndSend, Fresh, Ack, Data, Close, Packet
    <3> QED
      BY <3>1, <3>2, ReceiveNet DEF Handshake
  <2> QED
    BY <1>1, <1>2, <2>1, <2>2, <2>3, <2>4, WindowAssumption, ServerRefillPreserves
<1>3. CASE ~(op = "download" /\ stored)
  <2> USE DEF sndVars
  <2>1. net' \subseteq net /\ Ack(0) \notin net'
    <3>1. Receive(Ack(0), {})
      BY <1>3
    <3> QED
      BY <3>1, ReceiveNet DEF Handshake
  <2>2. SenderInv' /\ ReceiverInv'
    BY <1>1, <1>3, QuietStep DEF quietVars, Started, Idle
  <2>3. PacketsInv'
    BY <1>1, <1>3, <2>1, QuietPackets DEF quietVars
  <2> QED
    BY <1>1, <1>3, <2>1, <2>2, <2>3 DEF IInv, TypeOK, ConnectionInv, FinSent
<1> QED
  BY <1>2, <1>3

-----------------------------------------------------------------------------
(* The steps of the receiving end.                                         *)

(* The ACK of a packet that is in the network is always one of a number    *)
(* that was sent.                                                          *)
LEMMA GoodAck ==
  ASSUME IInv, NEW m \in net, m.type = "DATA", pos' = pos, Received(m.seq)'
  PROVE  GoodPacket(Ack(m.seq))' /\ Ack(m.seq) \in Packets /\ Ack(m.seq) # Ack(0)
<1>1. m.seq \in 1..pos /\ pos \in Nat
  BY DataInWindow, SizeIsNat DEF IInv, TypeOK
<1>2. Ack(m.seq) \in Packets /\ Ack(m.seq).type = "ACK" /\ Ack(m.seq).seq = m.seq
  BY <1>1, AnswerTypes
<1>3. Ack(m.seq) # Ack(0)
  BY <1>1 DEF Ack, Packet
<1> QED
  BY <1>1, <1>2, <1>3 DEF GoodPacket

(* A packet that was already received is only acknowledged.                *)
LEMMA RepeatPreserves ==
  ASSUME IInv, NEW m \in net, m.type = "DATA", Repeats(m),
         net' \subseteq net \cup {Ack(m.seq)},
         UNCHANGED <<op, size, stored, cphase, sphase, sfile, out, sndVars, rcvVars>>
  PROVE  IInv'
<1> USE DEF sndVars, rcvVars
<1>1. SenderInv' /\ ReceiverInv'
  BY QuietStep DEF quietVars, Started, Idle
<1>2. Received(m.seq)'
  BY DEF Repeats, Received
<1>3. GoodPacket(Ack(m.seq))' /\ Ack(m.seq) \in Packets
  BY <1>2, GoodAck
<1>4. PacketsInv'
  BY <1>3, QuietPackets DEF quietVars
<1> QED
  BY <1>1, <1>3, <1>4 DEF IInv, TypeOK, ConnectionInv, FinSent

(* A new packet: the sender is untouched and the receiver advances.        *)
LEMMA NewDataPreserves ==
  ASSUME IInv, NEW m \in net, m.type = "DATA", ~Repeats(m),
         NEW nx \in Nat, RunsTo(Buffered(m), nx), Deliver(Buffered(m), nx),
         net' \subseteq net \cup {Ack(m.seq)},
         IF op = "upload" /\ nx > rcv_expected /\ sfile # "open"
           THEN sphase' = "dead" /\ out' = out
           ELSE sphase' = sphase /\ out' = out \o Run(Buffered(m), nx),
         sphase = "running" \/ op = "download",
         UNCHANGED <<op, size, stored, cphase, sfile, sndVars>>
  PROVE  IInv'
<1> USE DEF sndVars
<1>1. /\ ~FinSent
      /\ nx >= rcv_expected
      /\ rcv_expected' = nx /\ rcv_expected' =< pos' + 1
      /\ \A s \in DOMAIN buffer' : s > rcv_expected' /\ s =< pos' /\ buffer'[s] = s
      /\ DOMAIN buffer' \subseteq Nat /\ buffer' \in [DOMAIN buffer' -> Nat]
      /\ \A s \in Nat : Received(s) => Received(s)'
      /\ Received(m.seq)'
      /\ ForgottenWasReceived'
      /\ Run(Buffered(m), nx)
           = [i \in 1..(nx - rcv_expected) |-> rcv_expected - 1 + i]
  BY ReceiverAdvances
<1>2. rcv_expected \in Nat \ {0} /\ pos \in Nat /\ size \in Nat
  BY SizeIsNat DEF IInv, TypeOK
<1>3. SenderInv'
  BY DEF IInv, SenderInv, Started, Idle, CreditConserved, FinSent
<1>4. out = Transfer!Chunks(rcv_expected - 1)
  BY DEF IInv, ReceiverInv, OutIsPrefix, Transfer!Chunks
<1>5. PacketsInv'
  <2>1. GoodPacket(Ack(m.seq))' /\ Ack(m.seq) \in Packets /\ Ack(m.seq) # Ack(0)
    BY <1>1, GoodAck
  <2> SUFFICES ASSUME NEW p \in net \cup window PROVE GoodPacket(p)'
    BY <2>1 DEF PacketsInv
  <2>2. GoodPacket(p)
    BY DEF IInv, PacketsInv
  <2>3. p.type # "CLOSE_ACK"
    BY <1>1, <2>2 DEF GoodPacket
  <2> QED
    BY <1>1, <1>2, <2>2, <2>3, GoodPacketStays DEF FinSent
<1>6. /\ OutIsPrefix'
      /\ out' \in Seq(Nat)
      /\ ConnectionInv'
      /\ sphase' \in {sphase, "dead"}
  <2>1. CASE op = "upload" /\ nx > rcv_expected /\ sfile # "open"
    <3>1. sfile = "none" /\ rcv_expected = 1
      BY <1>1, <2>1 DEF IInv, TypeOK, ConnectionInv, FinSent
    <3>2. out = <<>>
      BY <1>4, <3>1 DEF Transfer!Chunks
    <3>3. sphase' = "dead" /\ out' = <<>>
      BY <2>1, <3>2
    <3> QED
      BY <1>1, <2>1, <3>1, <3>3 DEF IInv, ConnectionInv, FinSent, OutIsPrefix
  <2>2. CASE ~(op = "upload" /\ nx > rcv_expected /\ sfile # "open")
    <3>1. sphase' = sphase /\ out' = out \o Run(Buffered(m), nx)
      BY <2>2
    <3>2. out' = Transfer!Chunks(rcv_expected' - 1)
      <4>1. /\ rcv_expected - 1 \in Nat /\ nx - 1 \in Nat /\ rcv_expected - 1 =< nx - 1
            /\ (nx - 1) - (rcv_expected - 1) = nx - rcv_expected
        BY <1>1, <1>2
      <4> DEFINE a == rcv_expected - 1
                 b == nx - 1
      <4>2. Transfer!Chunks(a) \o [i \in 1..(b - a) |-> a + i] = Transfer!Chunks(b)
        BY <4>1, ChunksConcat
      <4>3. [i \in 1..(b - a) |-> a + i] = Run(Buffered(m), nx)
        BY <1>1, <4>1
      <4> QED
        BY <1>1, <1>4, <3>1, <4>2, <4>3
    <3>3. out' \in Seq(Nat) /\ OutIsPrefix'
      <4>1. rcv_expected' - 1 \in Nat
        BY <1>1, <1>2
      <4>2. out' \in Seq(Nat)
        BY <3>2, <4>1, ChunksIsSeq
      <4> QED
        BY <3>2, <4>2 DEF OutIsPrefix, Transfer!Chunks
    <3>4. op = "upload" /\ sfile = "none" /\ sphase # "dead" => nx = 1
      BY <1>1, <1>2, <2>2 DEF IInv, ConnectionInv
    <3> QED
      BY <1>1, <3>1, <3>3, <3>4 DEF IInv, ConnectionInv, FinSent
  <2> QED
    BY <2>1, <2>2
<1>7. ReceiverInv'
  BY <1>1, <1>6 DEF ReceiverInv
<1>8. TypeOK'
  <2>1. net' \subseteq Packets
    BY <1>5 DEF PacketsInv, GoodPacket
  <2>2. rcv_expected' \in Nat \ {0}
    BY <1>1, <1>2
  <2> QED
    BY <1>1, <1>6, <2>1, <2>2 DEF IInv, TypeOK
<1> QED
  BY <1>3, <1>5, <1>6, <1>7, <1>8 DEF IInv

(* Download: a chunk, in order or not, keeps the invariant.                *)
LEMMA RecvDataClientPreserves == ASSUME IInv, NEW m \in net, ClientRecvData(m) PROVE IInv'
<1>1. ~Discards(m)
  BY DataInWindow DEF ClientRecvData
<1>2. /\ op = "download" /\ m.type = "DATA" /\ Receive(m, {Ack(m.seq)})
      /\ UNCHANGED <<op, size, stored, cphase, sphase, sfile, sndVars>>
  BY <1>1 DEF ClientRecvData
<1>3. net' \subseteq net \cup {Ack(m.seq)}
  BY <1>2, ReceiveNet
<1>4. CASE Repeats(m)
  BY <1>1, <1>2, <1>3, <1>4, RepeatPreserves DEF ClientRecvData
<1>5. CASE ~Repeats(m)
  <2>1. PICK nx \in rcv_expected..(rcv_expected + WINDOW_SIZE) :
          /\ RunsTo(Buffered(m), nx)
          /\ out' = out \o Run(Buffered(m), nx)
          /\ Deliver(Buffered(m), nx)
    BY <1>1, <1>5 DEF ClientRecvData
  <2>2. nx \in Nat
    BY WindowAssumption DEF IInv, TypeOK
  <2> QED
    BY <1>2, <1>3, <1>5, <2>1, <2>2, NewDataPreserves
<1> QED
  BY <1>4, <1>5

(* Upload: likewise at the server, also when it has no file open.          *)
LEMMA RecvDataServerPreserves == ASSUME IInv, NEW m \in net, ServerRecvData(m) PROVE IInv'
<1>1. ~Discards(m)
  BY DataInWindow DEF ServerRecvData
<1>2. /\ op = "upload" /\ sphase = "running" /\ m.type = "DATA"
      /\ Receive(m, {Ack(m.seq)})
      /\ UNCHANGED <<op, size, stored, cphase, sfile, sndVars>>
  BY <1>1 DEF ServerRecvData
<1>3. net' \subseteq net \cup {Ack(m.seq)}
  BY <1>2, ReceiveNet
<1>4. CASE Repeats(m)
  BY <1>1, <1>2, <1>3, <1>4, RepeatPreserves DEF ServerRecvData
<1>5. CASE ~Repeats(m)
  <2>1. PICK nx \in rcv_expected..(rcv_expected + WINDOW_SIZE) :
          /\ RunsTo(Buffered(m), nx)
          /\ Deliver(Buffered(m), nx)
          /\ IF nx > rcv_expected /\ sfile # "open"
               THEN sphase' = "dead" /\ UNCHANGED out
               ELSE out' = out \o Run(Buffered(m), nx) /\ UNCHANGED sphase
    BY <1>1, <1>5 DEF ServerRecvData
  <2>2. nx \in Nat
    BY WindowAssumption DEF IInv, TypeOK
  <2> QED
    BY <1>2, <1>3, <1>5, <2>1, <2>2, NewDataPreserves
<1> QED
  BY <1>4, <1>5

-----------------------------------------------------------------------------
(* The invariant, and the properties that follow from it.                  *)

(* The invariant holds when the session begins.                            *)
LEMMA InitIInv == ASSUME Init PROVE IInv
<1> USE DEF Init, SessionInit
<1>1. size \in Nat
  BY SizesAssumption
<1>2. TypeOK
  <2>1. buffer \in [DOMAIN buffer -> Nat] /\ DOMAIN buffer = {}
    OBVIOUS
  <2> QED
    BY <1>1, <2>1, AnswerTypes DEF TypeOK
<1>3. PacketsInv
  BY AnswerTypes DEF PacketsInv, GoodPacket, Ack, Syn, Packet
<1>4. SenderInv
  BY <1>1, WindowAssumption DEF SenderInv, Started, Idle, CreditConserved
<1>5. ReceiverInv
  BY <1>1 DEF ReceiverInv, OutIsPrefix, ForgottenWasReceived
<1>6. ConnectionInv
  BY DEF ConnectionInv
<1> QED
  BY <1>2, <1>3, <1>4, <1>5, <1>6 DEF IInv

(* A damaged packet, which ends whoever reads it, keeps the invariant too. *)
LEMMA DamagePreserves == ASSUME IInv, Damage PROVE IInv'
<1> USE DEF Damage, RecvDamaged, sndVars, rcvVars
<1>1. net' \subseteq net
  BY ReceiveNet
<1>2. SenderInv' /\ ReceiverInv'
  BY QuietStep DEF quietVars, Started, Idle
<1>3. PacketsInv'
  BY <1>1, QuietPackets DEF quietVars
<1> QED
  BY <1>1, <1>2, <1>3 DEF IInv, TypeOK, ConnectionInv, FinSent

(* Every step of the two ends, of the network and of the timers.           *)
LEMMA NextIInv == ASSUME IInv, [Next]_vars PROVE IInv'
<1>1. CASE ClientNext
  BY <1>1, HandshakeTimeoutPreserves, RecvSynAckPreserves, ClientCloseFinPreserves,
     TimeoutPreserves, RecvAckClientPreserves, RecvDataClientPreserves,
     ClientClosePreserves DEF ClientNext
<1>2. CASE ServerNext
  BY <1>2, RecvSynPreserves, RecvAckInitPreserves, ServerCloseFinPreserves,
     TimeoutPreserves, RecvAckServerPreserves, RecvDataServerPreserves,
     ServerClosePreserves DEF ServerNext
<1>3. CASE ServerInactivity \/ NetworkLoses \/ TimerExpires
  BY <1>3, InactivityPreserves, LosePreserves, ExpirePreserves DEF TimerExpires
<1>4. CASE UNCHANGED vars
  <2> USE <1>4 DEF vars, sessionVars, sndVars, rcvVars
  <2>1. SenderInv' /\ ReceiverInv'
    BY QuietStep DEF quietVars, Started, Idle
  <2>2. PacketsInv'
    BY QuietPackets DEF quietVars
  <2> QED
    BY <2>1, <2>2 DEF IInv, TypeOK, ConnectionInv, FinSent
<1> QED
  BY <1>1, <1>2, <1>3, <1>4 DEF Next

(* The invariant holds of every state that a session reaches.              *)
THEOREM Invariance == Spec => []IInv
<1>1. Init => IInv
  BY InitIInv
<1>2. IInv /\ [Next]_vars => IInv'
  BY NextIInv
<1> QED
  BY <1>1, <1>2, PTL DEF Spec

(* Every variable of a session keeps its type.                             *)
THEOREM TypeCorrect == Spec => []TypeOK
  BY Invariance, PTL DEF IInv

(* Whatever is lost, reordered, duplicated or sent again, what the         *)
(* receiving end has written is the beginning of the file (handle_data of  *)
(* both ends, _handle_data of the protocol).                               *)
THEOREM CopyIsPrefix == Spec => []OutIsPrefix
  BY Invariance, PTL DEF IInv, ReceiverInv

(* No packet leaves the sender's window before it was received             *)
(* (_handle_ack of the protocol).                                          *)
THEOREM NothingForgotten == Spec => []ForgottenWasReceived
  BY Invariance, PTL DEF IInv, ReceiverInv

(* _handle_data never has to ignore a packet as too far in the future.     *)
THEOREM WindowsAgree == Spec => []NothingDiscarded
<1>1. IInv => NothingDiscarded
  BY DataInWindow DEF NothingDiscarded
<1> QED
  BY <1>1, Invariance, PTL

(* The credit that handle_ack of the sending end turns into new chunks is  *)
(* neither lost nor invented.                                              *)
THEOREM CreditIsConserved == Spec => []CreditConserved
  BY Invariance, PTL DEF IInv, SenderInv

(* A CLOSE is sent once the other end has the whole file, and never again  *)
(* under another number.                                                   *)
THEOREM CloseComesLast == Spec => []FinIsLast
<1>1. ASSUME IInv, NEW m \in net \cup window, m.type = "CLOSE"
      PROVE  m.seq = size + 1 /\ seq_num = size + 2 /\ rcv_expected = size + 1
  <2>1. m = Close(size + 1) /\ FinSent
    BY <1>1 DEF IInv, PacketsInv, GoodPacket
  <2>2. rcv_expected = size + 1
    BY <1>1, <2>1, FinReceived
  <2> QED
    BY <2>1, <2>2 DEF Close, Packet, FinSent
<1>2. IInv => FinIsLast
  BY <1>1 DEF FinIsLast
<1> QED
  BY <1>2, Invariance, PTL

(* A sender in its loop has the oldest number outstanding.                 *)

(* What is left of the window after an ACK, and what is then read and      *)
(* sent: the number that next_expected moves to is among them.             *)
LEMMA RefilledHoldsOldest ==
  ASSUME IInv, seq_num = pos + 1, NEW w \in SUBSET window, NEW nx \in Nat,
         SlidesTo(w, nx), NEW n \in Nat, NEW closing \in BOOLEAN,
         closing => pos = size /\ w = {},
         w = {} => n > 0,
         w = {} /\ pos = size => closing
  PROVE  nx \in Seqs(ReadAndSend(pos, w, n, closing).win)
<1> DEFINE r == ReadAndSend(pos, w, n, closing)
<1>1. /\ size \in Nat /\ pos \in 0..size /\ nx \in snd_expected..seq_num
      /\ snd_expected \in Nat
  BY SizeIsNat DEF IInv, TypeOK, SlidesTo
<1>2. GoodRefill(r, w, n, closing)
  BY WhatIsSent
<1> HIDE DEF r
<1>3. CASE nx \in Seqs(w)
  BY <1>2, <1>3 DEF r, GoodRefill, Seqs
<1>4. CASE nx \notin Seqs(w)
  <2>1. nx = seq_num
    BY <1>4 DEF SlidesTo
  <2>2. w = {}
    <3> SUFFICES ASSUME NEW p \in w PROVE FALSE
      OBVIOUS
    <3>1. p.seq \in snd_expected..(nx - 1)
      BY <2>1 DEF IInv, SenderInv
    <3> QED
      BY <3>1 DEF SlidesTo, Seqs
  <2>3. CASE pos = size
    <3>1. Close(size + 1) \in r.win
      BY <1>2, <2>2, <2>3 DEF GoodRefill
    <3> QED
      BY <2>1, <2>3, <3>1 DEF r, Seqs, Close, Packet
  <2>4. CASE pos < size
    <3>1. Data(nx, nx) \in r.win
      BY <1>1, <1>2, <2>1, <2>2, <2>4 DEF GoodRefill
    <3> QED
      BY <3>1 DEF r, Seqs, Data, Packet
  <2> QED
    BY <1>1, <2>3, <2>4
<1> QED
  BY <1>3, <1>4 DEF r

(* A step that moves neither the window nor next_expected, and puts no     *)
(* end into its loop, leaves the oldest number where it is.                *)
LEMMA QuietOldest ==
  ASSUME OldestOutstanding, window \subseteq window', snd_expected' = snd_expected,
         Sending' => Sending
  PROVE  OldestOutstanding'
  BY DEF OldestOutstanding, Seqs

(* The client's answer to an ACK keeps the oldest number outstanding ...   *)
LEMMA ClientAckOldest ==
  ASSUME IInv, OldestOutstanding, NEW m \in net, ClientRecvAck(m)
  PROVE  OldestOutstanding'
<1> USE DEF ClientRecvAck
<1>0. /\ m.seq \in Nat /\ snd_expected \in Nat /\ seq_num \in Nat
      /\ size \in Nat /\ pos \in 0..size
  BY SizeIsNat DEF IInv, TypeOK, Packets
<1>1. CASE m.seq < snd_expected
  BY <1>0, <1>1, QuietOldest DEF sndVars, Sending
<1>2. CASE m.seq >= snd_expected
  <2> DEFINE w == Unacked(m.seq)
  <2>1. PICK nx \in snd_expected..seq_num :
          /\ SlidesTo(w, nx)
          /\ ClientSends(m, {}, w, nx - snd_expected)
          /\ snd_expected' = nx
    BY <1>0, <1>2
  <2>2. nx \in Nat /\ nx - snd_expected \in Nat
    BY <1>0
  <2> DEFINE n == nx - snd_expected
             closing == ClientCloses(w, n)
  <2>3. window' = ReadAndSend(pos, w, n, closing).win
    BY <2>1 DEF ClientSends, Refill
  <2>4. /\ seq_num = pos + 1 /\ w \in SUBSET window
        /\ w = {} => n > 0
    BY <1>2, <2>1, <2>2, AckIsOfChunk, UnackedReceived, EmptyMeansSlid
  <2>5. /\ closing \in BOOLEAN
        /\ closing => pos = size /\ w = {}
        /\ w = {} /\ pos = size => closing
    BY <1>0, <2>2, <2>4 DEF ClientCloses, ReadFrom
  <2> HIDE DEF w, n, closing
  <2> QED
    BY <2>1, <2>2, <2>3, <2>4, <2>5, RefilledHoldsOldest DEF n, OldestOutstanding
<1> QED
  BY <1>0, <1>1, <1>2

(* ... and so does its first window, sent in answer to the SYN_ACK.        *)
LEMMA SynAckOldest ==
  ASSUME IInv, OldestOutstanding, ClientRecvSynAck
  PROVE  OldestOutstanding'
<1> USE DEF ClientRecvSynAck
<1>1. CASE op = "download"
  BY <1>1, QuietOldest DEF Sending
<1>2. CASE op = "upload"
  <2>1. /\ pos = 0 /\ seq_num = pos + 1 /\ window = {} /\ snd_expected = 1
        /\ size \in Nat /\ WINDOW_SIZE \in Nat \ {0}
    BY <1>2, SizeIsNat, WindowAssumption DEF Idle, IInv, SenderInv
  <2> DEFINE closing == ClientCloses(window, WINDOW_SIZE)
  <2>2. window' = ReadAndSend(pos, window, WINDOW_SIZE, closing).win
    BY <1>2 DEF ClientSends, Refill
  <2>3. /\ closing \in BOOLEAN
        /\ closing => pos = size
        /\ pos = size => closing
    BY <2>1 DEF ClientCloses, ReadFrom
  <2>4. SlidesTo(window, 1)
    BY <2>1 DEF SlidesTo, Seqs
  <2> HIDE DEF closing
  <2>5. 1 \in Seqs(window')
    BY <2>1, <2>2, <2>3, <2>4, RefilledHoldsOldest
  <2> QED
    BY <2>1, <2>5 DEF OldestOutstanding
<1> QED
  BY <1>1, <1>2 DEF IInv, TypeOK

(* The server's sending: unless its thread dies of it, it holds the number *)
(* that next_expected moves to.                                            *)
LEMMA ServerSendsOldest ==
  ASSUME IInv, seq_num = pos + 1, NEW m, NEW w \in SUBSET window, NEW nx \in Nat,
         SlidesTo(w, nx), NEW n \in Nat, w = {} => n > 0,
         ServerSends(m, pos, w, n), sphase' # "dead"
  PROVE  nx \in Seqs(window')
<1> DEFINE closing == ServerCloses(pos, w, n)
<1>1. size \in Nat /\ pos \in 0..size
  BY SizeIsNat DEF IInv, TypeOK
<1>2. window' = ReadAndSend(pos, w, n, closing).win
  BY DEF ServerSends, Refill
<1>3. /\ closing \in BOOLEAN
      /\ closing => pos = size /\ w = {}
  BY ServerClosesMeans DEF ServerCloses
<1>4. w = {} /\ pos = size => closing
  BY <1>1 DEF ServerCloses, ReadFrom, Fresh
<1> HIDE DEF closing
<1> QED
  BY <1>2, <1>3, <1>4, RefilledHoldsOldest

(* Download: the answer to an ACK, and the first window.                   *)
LEMMA ServerAckOldest ==
  ASSUME IInv, OldestOutstanding, NEW m \in net, ServerRecvAck(m)
  PROVE  OldestOutstanding'
<1> USE DEF ServerRecvAck
<1>0. m.seq \in Nat /\ snd_expected \in Nat /\ seq_num \in Nat
  BY DEF IInv, TypeOK, Packets
<1>1. CASE m.seq < snd_expected
  BY <1>0, <1>1, QuietOldest DEF sndVars, Sending
<1>2. CASE m.seq >= snd_expected
  <2> DEFINE w == Unacked(m.seq)
  <2>1. PICK nx \in snd_expected..seq_num :
          /\ SlidesTo(w, nx)
          /\ ServerSends(m, pos, w, nx - snd_expected)
          /\ snd_expected' = nx
    BY <1>0, <1>2
  <2>2. nx \in Nat /\ nx - snd_expected \in Nat
    BY <1>0
  <2>3. /\ seq_num = pos + 1 /\ w \in SUBSET window
        /\ w = {} => nx - snd_expected > 0
    BY <1>2, <2>1, <2>2, AckIsOfChunk, UnackedReceived, EmptyMeansSlid
  <2> HIDE DEF w
  <2>4. sphase' # "dead" => nx \in Seqs(window')
    BY <2>1, <2>2, <2>3, ServerSendsOldest
  <2> QED
    BY <2>1, <2>4 DEF OldestOutstanding, Sending
<1> QED
  BY <1>0, <1>1, <1>2

LEMMA AckInitOldest ==
  ASSUME IInv, OldestOutstanding, ServerRecvAckInit
  PROVE  OldestOutstanding'
<1> USE DEF ServerRecvAckInit
<1>1. CASE op = "upload"
  BY <1>1, QuietOldest DEF sndVars, Sending
<1>2. CASE op = "download" /\ ~stored
  BY <1>2 DEF OldestOutstanding, Sending
<1>3. CASE op = "download" /\ stored
  <2>1. /\ pos = 0 /\ seq_num = pos + 1 /\ window = {} /\ snd_expected = 1
        /\ WINDOW_SIZE \in Nat \ {0}
    BY <1>3, AckInitIsFirst, WindowAssumption DEF Idle, IInv, SenderInv
  <2>2. ServerSends(Ack(0), pos, window, WINDOW_SIZE) /\ snd_expected' = 1
    BY <1>3, <2>1
  <2>3. SlidesTo(window, 1)
    BY <2>1 DEF SlidesTo, Seqs
  <2>4. sphase' # "dead" => 1 \in Seqs(window')
    BY <2>1, <2>2, <2>3, ServerSendsOldest
  <2> QED
    BY <1>3, <2>2, <2>4 DEF OldestOutstanding, Sending
<1> QED
  BY <1>1, <1>2, <1>3 DEF IInv, TypeOK

(* Every step keeps the oldest number outstanding.                         *)
LEMMA NextOldest ==
  ASSUME IInv, OldestOutstanding, [Next]_vars PROVE OldestOutstanding'
<1> DEFINE Answers == \/ ClientRecvSynAck \/ ServerRecvAckInit
                      \/ \E m \in net : ClientRecvAck(m) \/ ServerRecvAck(m)
<1>1. CASE Answers
  BY <1>1, SynAckOldest, AckInitOldest, ClientAckOldest, ServerAckOldest
<1>2. CASE ~Answers
  <2>1. /\ UNCHANGED <<window, snd_expected>>
        /\ Sending' => Sending
    BY <1>2 DEF Next, ClientNext, ServerNext, TimerExpires, vars, sndVars, sessionVars,
       ClientHandshakeTimeout, HandshakeTimeout, ClientCloseFin, ClientRecvCloseAck,
       ClientTimeout, ClientClose, ClientRecvClose, ClientRecvData, ServerRecvData,
       ServerRecvSyn, RecvSyn, ServerCloseFin, ServerRecvCloseAck, ServerTimeout,
       ServerClose, ServerRecvClose, ServerInactivity, Inactivity, NetworkLoses, Lose,
       Expire, Sending, IInv, ConnectionInv
  <2> QED
    BY <2>1, QuietOldest
<1> QED
  BY <1>1, <1>2

(* As long as an end that sends is in its loop, the packet named by its    *)
(* next_expected is in its window (handle_syn_ack, _handle_init and        *)
(* handle_ack, with _handle_ack and push_payload of the protocol).         *)
THEOREM SenderNeverStalls == Spec => []OldestOutstanding
<1>1. Init => OldestOutstanding
  BY DEF Init, SessionInit, OldestOutstanding, Sending
<1>2. IInv /\ OldestOutstanding /\ [Next]_vars => OldestOutstanding'
  BY NextOldest
<1> QED
  BY <1>1, <1>2, Invariance, PTL DEF Spec

(* The oldest packet that arrives is received and acknowledged, and its    *)
(* ACK moves next_expected (_handle_data and _handle_ack): what the fair   *)
(* steps of the network do is never in vain.                               *)
THEOREM OldestAdvances == Spec => OldestProgress
<1>1. ASSUME IInv, NEW s \in {snd_expected}, OldestArrives
      PROVE  Received(s)' /\ Ack(s) \in net'
  <2>1. PICK m \in net : m.seq = s /\ (ServerRecvData(m) \/ ClientRecvData(m))
    BY <1>1 DEF OldestArrives
  <2>2. m.type = "DATA" /\ ~Discards(m)
    BY <1>1, <2>1, DataInWindow DEF ServerRecvData, ClientRecvData
  <2>3. Ack(s) \in net'
    BY <2>1, <2>2 DEF ServerRecvData, ClientRecvData, Receive
  <2>4. ASSUME Repeats(m) PROVE Received(s)'
    BY <2>1, <2>2, <2>4 DEF ServerRecvData, ClientRecvData, rcvVars, Repeats, Received
  <2>5. ASSUME ~Repeats(m) PROVE Received(s)'
    <3>1. PICK nx \in rcv_expected..(rcv_expected + WINDOW_SIZE) :
            RunsTo(Buffered(m), nx) /\ Deliver(Buffered(m), nx) /\ UNCHANGED sndVars
      BY <2>1, <2>2, <2>5 DEF ServerRecvData, ClientRecvData
    <3>2. nx \in Nat
      BY <1>1, WindowAssumption DEF IInv, TypeOK
    <3>3. Received(m.seq)'
      BY <1>1, <2>2, <2>5, <3>1, <3>2, ReceiverAdvances DEF sndVars
    <3> QED
      BY <2>1, <3>3
  <2> QED
    BY <2>3, <2>4, <2>5
<1>2. ASSUME IInv, NEW s \in {snd_expected}, OldestIsAcked
      PROVE  snd_expected' > s
  <2>1. PICK m \in net : m.seq = s /\ (ClientRecvAck(m) \/ ServerRecvAck(m))
    BY <1>2 DEF OldestIsAcked
  <2>2. m.type = "ACK" /\ m.seq # 0
    BY <2>1 DEF ClientRecvAck, ServerRecvAck
  <2>3. /\ seq_num = pos + 1 /\ m.seq \in 1..pos /\ pos \in Nat
        /\ snd_expected \in Nat /\ ~(m.seq < snd_expected)
    BY <1>2, <2>1, <2>2, AckIsOfChunk, SizeIsNat DEF IInv, TypeOK
  <2>4. PICK nx \in snd_expected..seq_num :
          SlidesTo(Unacked(m.seq), nx) /\ snd_expected' = nx
    BY <2>1, <2>3 DEF ClientRecvAck, ServerRecvAck
  <2>5. nx # s
    BY <1>2, <2>1, <2>3, <2>4 DEF SlidesTo, Seqs, Unacked
  <2> QED
    BY <1>2, <2>3, <2>4, <2>5
<1>3. IInv /\ [Next]_vars =>
        [\A s \in {snd_expected} :
           /\ OldestArrives => Received(s)' /\ Ack(s) \in net'
           /\ OldestIsAcked => snd_expected' > s]_vars
  BY <1>1, <1>2
<1> QED
  BY <1>3, Invariance, PTL DEF Spec, OldestProgress

(* The server closes a file only with the whole copy in place              *)
(* (handle_close and handle_close_fin of Server.py).                       *)
THEOREM ClosedIsWhole == Spec => []ClosedIsComplete
<1>1. IInv => ClosedIsComplete
  BY ChunksIsSeq, SizeIsNat DEF IInv, ConnectionInv, ClosedIsComplete
<1> QED
  BY <1>1, Invariance, PTL

(* A client that leaves its loop leaves a complete copy behind             *)
(* (handle_close of Client.py, handle_close_fin of both ends).             *)
THEOREM DoneIsCopied == Spec => []DoneMeansCopied
<1>1. IInv => DoneMeansCopied
  BY ChunksIsSeq, SizeIsNat DEF IInv, ConnectionInv, DoneMeansCopied
<1> QED
  BY <1>1, Invariance, PTL

(* Only a write can end the thread of an upload whose file was created,    *)
(* and every write finds the file open: once it is closed, only packets    *)
(* that were received before still arrive.                                 *)
LEMMA UploadStaysAlive ==
  ASSUME IInv, OpenUploadSurvives, [Next]_vars PROVE OpenUploadSurvives'
<1> SUFFICES ASSUME op = "upload", sphase # "dead", sphase' = "dead", sfile' # "none"
             PROVE  FALSE
  BY DEF OpenUploadSurvives, Next, ClientNext, ServerNext, TimerExpires, vars,
     sessionVars, ClientHandshakeTimeout, HandshakeTimeout, ClientRecvSynAck,
     ClientCloseFin, ClientRecvCloseAck, ClientTimeout, ClientRecvAck, ClientClose,
     ClientRecvClose, ClientRecvData, ServerRecvData, ServerRecvAckInit,
     ServerRecvSyn, RecvSyn, ServerCloseFin, ServerRecvCloseAck, ServerTimeout,
     ServerRecvAck, ServerClose, ServerRecvClose, ServerInactivity, Inactivity,
     NetworkLoses, Lose, Expire
<1>1. sphase = "none" => sfile = "none"
  BY DEF IInv, ConnectionInv
<1>2. PICK m \in net : ServerRecvData(m)
  BY <1>1 DEF Next, ClientNext, ServerNext, TimerExpires, vars,
     sessionVars, ClientHandshakeTimeout, HandshakeTimeout, ClientRecvSynAck,
     ClientCloseFin, ClientRecvCloseAck, ClientTimeout, ClientRecvAck, ClientClose,
     ClientRecvClose, ClientRecvData, ServerRecvAckInit,
     ServerRecvSyn, RecvSyn, ServerCloseFin, ServerRecvCloseAck, ServerTimeout,
     ServerRecvAck, ServerClose, ServerRecvClose, ServerInactivity, Inactivity,
     NetworkLoses, Lose, Expire
<1>3. PICK nx \in rcv_expected..(rcv_expected + WINDOW_SIZE) :
        /\ m.type = "DATA" /\ ~Repeats(m)
        /\ RunsTo(Buffered(m), nx) /\ Deliver(Buffered(m), nx)
        /\ sfile # "open"
        /\ UNCHANGED <<sfile, sndVars>>
  BY <1>2 DEF ServerRecvData
<1>4. nx \in Nat
  BY WindowAssumption DEF IInv, TypeOK
<1>5. ~FinSent
  BY <1>3, <1>4, ReceiverAdvances DEF sndVars
<1> QED
  BY <1>3, <1>5 DEF IInv, TypeOK, ConnectionInv

(* No exception ends the thread of an upload whose file was created        *)
(* (FileHandler.write raises when the file is closed).                     *)
THEOREM UploadSurvives == Spec => []OpenUploadSurvives
<1>1. Init => OpenUploadSurvives
  BY DEF Init, SessionInit, OpenUploadSurvives
<1>2. IInv /\ OpenUploadSurvives /\ [Next]_vars => OpenUploadSurvives'
  BY UploadStaysAlive
<1> QED
  BY <1>1, <1>2, Invariance, PTL DEF Spec

-----------------------------------------------------------------------------
(* Refinement.                                                             *)

(* What a step does to the copy: nothing, or it writes the next chunks     *)
(* while the client is still in its loop.                                  *)
LEMMA CopyStep ==
  ASSUME IInv, [Next]_vars, out' # out
  PROVE  /\ cphase # "done" /\ cphase' = cphase
         /\ \E a \in Nat : \E b \in (a + 1)..size :
              out = Transfer!Chunks(a) /\ out' = Transfer!Chunks(b)
<1>1. PICK m \in net : ClientRecvData(m) \/ ServerRecvData(m)
  BY AckInitIsFirst DEF Next, ClientNext, ServerNext, TimerExpires, vars, sessionVars,
     ClientHandshakeTimeout, HandshakeTimeout, ClientRecvSynAck, ClientCloseFin,
     ClientRecvCloseAck, ClientTimeout, ClientRecvAck, ClientClose, ClientRecvClose,
     ServerRecvSyn, RecvSyn, ServerCloseFin, ServerRecvCloseAck, ServerTimeout,
     ServerRecvAck, ServerClose, ServerRecvClose, ServerInactivity, Inactivity,
     NetworkLoses, Lose, Expire
<1>2. PICK nx \in rcv_expected..(rcv_expected + WINDOW_SIZE) :
        /\ m.type = "DATA" /\ ~Repeats(m)
        /\ RunsTo(Buffered(m), nx) /\ Deliver(Buffered(m), nx)
        /\ out' = out \o Run(Buffered(m), nx)
        /\ UNCHANGED <<cphase, sphase, size, sndVars>>
        /\ sphase = "running" \/ op = "download"
  BY <1>1, DataInWindow DEF ClientRecvData, ServerRecvData
<1>3. /\ size \in Nat /\ rcv_expected \in Nat \ {0} /\ nx \in Nat /\ pos =< size
      /\ pos \in Nat
  BY SizeIsNat, WindowAssumption DEF IInv, TypeOK
<1>4. /\ ~FinSent /\ nx >= rcv_expected /\ rcv_expected' = nx /\ nx =< pos + 1
      /\ Run(Buffered(m), nx)
           = [i \in 1..(nx - rcv_expected) |-> rcv_expected - 1 + i]
  BY <1>2, <1>3, ReceiverAdvances DEF sndVars
<1>5. out = Transfer!Chunks(rcv_expected - 1)
  BY <1>2 DEF IInv, ReceiverInv, OutIsPrefix, Transfer!Chunks
<1>6. out' = Transfer!Chunks(rcv_expected' - 1)
  <2> DEFINE a == rcv_expected - 1
             b == nx - 1
  <2>1. Transfer!Chunks(a) \o [i \in 1..(b - a) |-> a + i] = Transfer!Chunks(b)
    <3>1. a \in Nat /\ b \in Nat /\ a =< b
      BY <1>3, <1>4
    <3> QED
      BY <3>1, ChunksConcat
  <2>2. [i \in 1..(b - a) |-> a + i] = Run(Buffered(m), nx)
    BY <1>3, <1>4
  <2> QED
    BY <1>2, <1>4, <1>5, <2>1, <2>2
<1>7. rcv_expected' # rcv_expected
  BY <1>5, <1>6
<1>8. cphase # "done"
  BY <1>4 DEF IInv, ConnectionInv
<1>9. rcv_expected - 1 \in Nat /\ rcv_expected' - 1 \in (rcv_expected - 1 + 1)..size
  BY <1>3, <1>4, <1>7
<1> QED
  BY <1>2, <1>5, <1>6, <1>8, <1>9

(* The file being transferred does not change, and a client that has       *)
(* finished stays so.                                                      *)
LEMMA SizeStays ==
  ASSUME IInv, [Next]_vars
  PROVE  size' = size /\ (cphase = "done" => cphase' = "done")
  BY DEF Next, ClientNext, ServerNext, TimerExpires, vars, sessionVars,
     ClientHandshakeTimeout, HandshakeTimeout, ClientRecvSynAck, ClientCloseFin,
     ClientRecvCloseAck, ClientTimeout, ClientRecvAck, ClientClose, ClientRecvClose,
     ClientRecvData, ServerRecvData, ServerRecvAckInit,
     ServerRecvSyn, RecvSyn, ServerCloseFin, ServerRecvCloseAck, ServerTimeout,
     ServerRecvAck, ServerClose, ServerRecvClose, ServerInactivity, Inactivity,
     NetworkLoses, Lose, Expire

(* Written chunks are never lost again: the file is created once, before   *)
(* the first chunk, and every write extends it.                            *)
THEOREM CopyGrows == Spec => CopyOnlyGrows
<1>1. ASSUME IInv, [Next]_vars
      PROVE  Len(out) =< Len(out') /\ out = SubSeq(out', 1, Len(out))
  <2>1. CASE out' = out
    <3>1. out \in Seq(Nat) /\ Len(out) \in Nat
      BY <1>1 DEF IInv, TypeOK
    <3> QED
      BY <2>1, <3>1, SubSeqFull
  <2>2. CASE out' # out
    <3>1. PICK a \in Nat, b \in Nat :
            a =< b /\ out = Transfer!Chunks(a) /\ out' = Transfer!Chunks(b)
      <4>1. size \in Nat
        BY <1>1, SizeIsNat DEF IInv
      <4> QED
        BY <1>1, <2>2, <4>1, CopyStep
    <3>2. Len(out) = a /\ Len(out') = b
      BY <3>1, ChunksIsSeq
    <3> QED
      BY <3>1, <3>2, ChunksPrefix
  <2> QED
    BY <2>1, <2>2
<1>2. IInv /\ [Next]_vars =>
       [Len(out) =< Len(out') /\ out = SubSeq(out', 1, Len(out))]_vars
  BY <1>1
<1> QED
  BY <1>2, Invariance, PTL DEF Spec, CopyOnlyGrows

(* A session begins as a transfer does ...                                 *)
LEMMA InitTransfers == ASSUME Init PROVE Transfer!Init
  BY DEF Init, SessionInit, Transfer!Init

(* ... and each of its steps is one of the transfer, or none.              *)
LEMMA NextTransfers ==
  ASSUME IInv, [Next]_vars PROVE [Transfer!Next]_(Transfer!vars)
<1>1. size' = size /\ (cphase = "done" => cphase' = "done") /\ IInv'
  BY SizeStays, NextIInv
<1>2. CASE out' # out
  <2>1. cphase # "done" /\ cphase' = cphase
    BY <1>2, CopyStep
  <2>2. PICK a \in Nat : \E b \in (a + 1)..size :
          out = Transfer!Chunks(a) /\ out' = Transfer!Chunks(b)
    BY <1>2, CopyStep
  <2>3. PICK b \in (a + 1)..size :
          out = Transfer!Chunks(a) /\ out' = Transfer!Chunks(b)
    BY <2>2
  <2>4. Len(out) = a
    BY <2>3, ChunksIsSeq
  <2> QED
    BY <1>1, <2>1, <2>3, <2>4 DEF Transfer!Next, Transfer!Deliver
<1>3. CASE out' = out /\ cphase # "done" /\ cphase' = "done"
  <2>1. out = Transfer!Chunks(size)
    BY <1>1, <1>3 DEF IInv, ConnectionInv
  <2>2. Len(out) = size
    BY <2>1, ChunksIsSeq, SizeIsNat DEF IInv
  <2> QED
    BY <1>1, <1>3, <2>2 DEF Transfer!Next, Transfer!Finish
<1>4. CASE out' = out /\ ~(cphase # "done" /\ cphase' = "done")
  BY <1>1, <1>4 DEF Transfer!vars
<1> QED
  BY <1>2, <1>3, <1>4

(* A selective-repeat session implements the transfer its user is          *)
(* promised: the copy grows in file order, and the client reports success  *)
(* only when it is complete.                                               *)
THEOREM Implements == Spec => ImplementsTransfer
<1>1. Init => Transfer!Init
  BY InitTransfers
<1>2. IInv /\ [Next]_vars => [Transfer!Next]_(Transfer!vars)
  BY NextTransfers
<1> QED
  BY <1>1, <1>2, Invariance, PTL DEF Spec, ImplementsTransfer, Transfer!Spec

-----------------------------------------------------------------------------
(* Damaged packets.                                                        *)

(* The invariant also holds of the states that a session reaches when      *)
(* packets are damaged on their way.                                       *)
THEOREM DamageInvariance == DamageSpec => []IInv
<1>1. Init => IInv
  BY InitIInv
<1>2. IInv /\ [Next \/ Damage]_vars => IInv'
  BY NextIInv, DamagePreserves
<1> QED
  BY <1>1, <1>2, PTL DEF DamageSpec

(* A damaged packet ends the program that reads it (from_bytes raises and  *)
(* nobody catches it), but it never spoils the copy, and never makes a     *)
(* client report a transfer that is not complete: with damage too, a       *)
(* session implements the transfer.  What damage does break is             *)
(* DamageIsRecovered: the session may never come to its end.               *)
THEOREM DamageIsHarmless == DamageSpec => ImplementsTransfer
<1>1. Init => Transfer!Init
  BY InitTransfers
<1>2. ASSUME Damage PROVE UNCHANGED Transfer!vars
  BY <1>2 DEF Damage, RecvDamaged, Transfer!vars
<1>3. IInv /\ [Next \/ Damage]_vars => [Transfer!Next]_(Transfer!vars)
  BY <1>2, NextTransfers
<1> QED
  BY <1>1, <1>3, DamageInvariance, PTL DEF DamageSpec, ImplementsTransfer, Transfer!Spec
=============================================================================
