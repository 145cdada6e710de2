-------------------------- MODULE SelectiveRepeat ---------------------------
(***************************************************************************)
(* A session that runs the selective-repeat protocol: the SelectiveRepeat  *)
(* objects of the two ends (selective_repeat.py), driven by the receive    *)
(* loops and event handlers of Client.py and Server.py.                    *)
(*                                                                         *)
(* One end sends the file and the other receives it, so the sender's half  *)
(* of one object and the receiver's half of the other are all there is:    *)
(* snd_expected is `next_expected` of the sending end (the oldest sequence *)
(* number not yet acknowledged), rcv_expected that of the receiving end    *)
(* (the next one to write).                                                *)
(***************************************************************************)
EXTENDS Session

CONSTANT WINDOW_SIZE

ASSUME WindowAssumption == WINDOW_SIZE \in Nat \ {0}

VARIABLES
  pos,           \* sender: chunks read from the file so far
  seq_num,       \* sender: the next sequence number
  window,        \* sender: the packets sent and not acknowledged
  expired,       \* sender: those of them older than ACK_TIMEOUT
  snd_expected,  \* sender: next_expected
  rcv_expected,  \* receiver: next_expected
  buffer         \* receiver: sequence number -> chunk received out of order

sndVars == <<pos, seq_num, window, expired, snd_expected>>
rcvVars == <<rcv_expected, buffer>>
vars == <<sessionVars, sndVars, rcvVars>>

Init ==
  /\ SessionInit
  /\ pos = 0
  /\ seq_num = 1
  /\ window = {}
  /\ expired = {}
  /\ snd_expected = 1
  /\ rcv_expected = 1
  /\ buffer = <<>>

-----------------------------------------------------------------------------
(* The sending half of the protocol object.                                *)

Seqs(w) == {p.seq : p \in w}

(* Mutant of Unacked: an ACK is taken to be cumulative. *)
UnackedBelow(s) == {p \in window : p.seq > s}

(* The window once the packet numbered s is acknowledged. *)
Unacked(s) == {p \in window : p.seq # s}

(* Mutant of SlidesTo: every ACK moves next_expected by one. *)
SlidesByOne(w, nx) == nx = snd_expected + 1

(* _handle_ack: with window w, next_expected moves to nx, over every       *)
(* number that was sent and has left the window.                           *)
SlidesTo(w, nx) ==
  /\ nx \in snd_expected..seq_num
  /\ nx = seq_num \/ nx \in Seqs(w)
  /\ \A s \in snd_expected..(nx - 1) : s \notin Seqs(w)

(* push_payload: the packets made of the k chunks that follow position p.  *)
Fresh(p, k) == {Data(seq_num + i, p + 1 + i) : i \in 0..(k - 1)}

(* Mutant of ReadAndSend: the FIN is sent but not kept in the window. *)
ReadAndSendFinOnce(p, w, n, closing) ==
  LET k   == ReadFrom(p, n)
      fin == IF closing THEN {Close(seq_num + k)} ELSE {}
  IN  [read |-> p + k,
       seq  |-> seq_num + k + (IF closing THEN 1 ELSE 0),
       win  |-> w \cup Fresh(p, k),
       sent |-> Fresh(p, k) \cup fin]

(* The tail of handle_ack, from file position p and window w: read n       *)
(* chunks and send them; if `closing` holds, the FIN follows and joins the *)
(* window too.                                                             *)
ReadAndSend(p, w, n, closing) ==
  LET k   == ReadFrom(p, n)
      fin == IF closing THEN {Close(seq_num + k)} ELSE {}
  IN  [read |-> p + k,
       seq  |-> seq_num + k + (IF closing THEN 1 ELSE 0),
       win  |-> w \cup Fresh(p, k) \cup fin,
       sent |-> Fresh(p, k) \cup fin]

(* ... and its effect on the sender. *)
Refill(r) ==
  /\ pos' = r.read
  /\ seq_num' = r.seq
  /\ window' = r.win

(* Mutant of ClientCloses: the window is not looked at. *)
ClientClosesEarly(w, n) == ReadFrom(pos, n) = 0

(* When the two ends decide that everything was sent and acknowledged: the *)
(* client when read() returned nothing, the server when its file is at     *)
(* eof; both only with an empty window.                                    *)
ClientCloses(w, n) == ReadFrom(pos, n) = 0 /\ w = {}
ServerCloses(p, w, n) ==
  LET k == ReadFrom(p, n) IN p + k >= size /\ w \cup Fresh(p, k) = {}

(* An entry of the window becomes older than ACK_TIMEOUT. *)
Expire(s) ==
  /\ IF op = "upload" THEN cphase = "established" ELSE sphase = "running"
  /\ \E p \in window \ expired : p.seq = s /\ expired' = expired \cup {p}
  /\ UNCHANGED <<sessionVars, pos, seq_num, window, snd_expected, rcvVars>>

-----------------------------------------------------------------------------
(* The receiving half: _handle_data.                                       *)

(* line 158: too far in the future, ignored without an answer. *)
Discards(m) == m.seq >= rcv_expected + WINDOW_SIZE

(* Already delivered, or already in the buffer: acknowledged again. *)
Repeats(m) == m.seq < rcv_expected \/ m.seq \in DOMAIN buffer

(* The buffer with the chunk of m in it. *)
Buffered(m) ==
  [s \in DOMAIN buffer \cup {m.seq} |-> IF s = m.seq THEN m.data ELSE buffer[s]]

(* With buffer b, the chunks from rcv_expected up to nx - 1 are contiguous *)
(* and the one numbered nx is missing.                                     *)
RunsTo(b, nx) ==
  /\ nx \in rcv_expected..(rcv_expected + WINDOW_SIZE)
  /\ nx \notin DOMAIN b
  /\ \A s \in rcv_expected..(nx - 1) : s \in DOMAIN b

(* Event.data: the chunks of that run. *)
Run(b, nx) == [i \in 1..(nx - rcv_expected) |-> b[rcv_expected + i - 1]]

(* Mutant of Deliver: next_expected moves by one, whatever was written. *)
DeliverOne(b, nx) ==
  /\ rcv_expected' = IF nx > rcv_expected THEN rcv_expected + 1 ELSE nx
  /\ buffer' = [s \in {t \in DOMAIN b : t >= nx} |-> b[s]]

(* The object after the run was taken out of buffer b. *)
Deliver(b, nx) ==
  /\ rcv_expected' = nx
  /\ buffer' = [s \in {t \in DOMAIN b : t >= nx} |-> b[s]]

-----------------------------------------------------------------------------
(* The client.                                                             *)

ClientHandshakeTimeout == HandshakeTimeout /\ UNCHANGED <<sndVars, rcvVars>>

(* Mutant of ClientSends: one chunk is read for every ACK. *)
ClientSendsOne(m, also, w, n) ==
  LET r == ReadAndSend(pos, w, 1, ClientCloses(w, 1))
  IN  /\ Receive(m, also \cup (expired \cap w) \cup r.sent)
      /\ Refill(r)
      /\ expired' = {}

(* upload: expired packets of w are sent again, n chunks are read and sent, *)
(* and the FIN is sent when nothing is left.                               *)
ClientSends(m, also, w, n) ==
  LET r == ReadAndSend(pos, w, n, ClientCloses(w, n))
  IN  /\ Receive(m, also \cup (expired \cap w) \cup r.sent)
      /\ Refill(r)
      /\ expired' = {}

(* handle_syn_ack: ACK(0), and an upload sends its first window at once.   *)
ClientRecvSynAck ==
  /\ cphase = "syn_sent"
  /\ cphase' = "established"
  /\ IF op = "upload"
       THEN ClientSends(SynAck, {Ack(0)}, window, WINDOW_SIZE)
       ELSE Receive(SynAck, {Ack(0)}) /\ UNCHANGED <<pos, seq_num, window, expired>>
  /\ UNCHANGED <<op, size, stored, sphase, sfile, out, snd_expected, rcvVars>>

(* handle_ack: as many chunks are read as the window slid.  An ACK below   *)
(* next_expected is dropped.                                               *)
ClientRecvAck(m) ==
  /\ op = "upload" /\ cphase = "established"
  /\ m.type = "ACK" /\ m.seq # 0
  /\ \/ /\ m.seq < snd_expected
        /\ Receive(m, {})
        /\ UNCHANGED sndVars
     \/ /\ m.seq >= snd_expected
        /\ \E nx \in snd_expected..seq_num :
             /\ SlidesTo(Unacked(m.seq), nx)
             /\ ClientSends(m, {}, Unacked(m.seq), nx - snd_expected)
             /\ snd_expected' = nx
  /\ UNCHANGED <<op, size, stored, cphase, sphase, sfile, out, rcvVars>>

(* handle_data: the ACK is sent first, then the run is written. *)
ClientRecvData(m) ==
  /\ op = "download" /\ cphase = "established"
  /\ m.type = "DATA"
  /\ \/ Discards(m) /\ Receive(m, {}) /\ UNCHANGED <<out, rcvVars>>
     \/ ~Discards(m) /\ Repeats(m) /\ Receive(m, {Ack(m.seq)})
        /\ UNCHANGED <<out, rcvVars>>
     \/ /\ ~Discards(m) /\ ~Repeats(m)
        /\ Receive(m, {Ack(m.seq)})
        /\ \E nx \in rcv_expected..(rcv_expected + WINDOW_SIZE) :
             /\ RunsTo(Buffered(m), nx)
             /\ out' = out \o Run(Buffered(m), nx)
             /\ Deliver(Buffered(m), nx)
  /\ UNCHANGED <<op, size, stored, cphase, sphase, sfile, sndVars>>

ClientClose(m) == ClientRecvClose(m) /\ UNCHANGED <<sndVars, rcvVars>>
ClientCloseFin == ClientRecvCloseAck /\ UNCHANGED <<sndVars, rcvVars>>

(* Mutant of ClientTimeout: ACK(0) is sent again too. *)
ClientTimeoutAcksAgain ==
  /\ op = "upload" /\ cphase = "established"
  /\ expired # {}
  /\ net' = net \cup expired \cup {Ack(0)}
  /\ expired' = {}
  /\ UNCHANGED <<op, size, stored, cphase, sphase, sfile, out,
                 pos, seq_num, window, snd_expected, rcvVars>>

(* The upload loop's socket timed out: every expired packet is sent again. *)
ClientTimeout ==
  /\ op = "upload" /\ cphase = "established"
  /\ expired # {}
  /\ net' = net \cup expired
  /\ expired' = {}
  /\ UNCHANGED <<op, size, stored, cphase, sphase, sfile, out,
                 pos, seq_num, window, snd_expected, rcvVars>>

-----------------------------------------------------------------------------
(* The server thread.                                                      *)

ServerRecvSyn == RecvSyn /\ UNCHANGED <<sndVars, rcvVars>>

(* _handle_ack of the server, for file position p, window w and credit n:  *)
(* an expired packet would be sent with `socket.send`, which fails on a    *)
(* socket that is not connected and ends the thread.                       *)
ServerSends(m, p, w, n) ==
  LET r == ReadAndSend(p, w, n, ServerCloses(p, w, n)) IN
  IF expired \cap w # {}
    THEN /\ Receive(m, {})
         /\ sphase' = "dead"
         /\ window' = w
         /\ pos' = p
         /\ UNCHANGED seq_num
    ELSE Receive(m, r.sent) /\ Refill(r) /\ UNCHANGED sphase

(* _handle_init: an upload creates the file; a download opens it and sends *)
(* the first window, or ends with an exception when there is no such file. *)
ServerRecvAckInit ==
  /\ sphase = "running"
  /\ \/ /\ op = "upload"
        /\ Receive(Ack(0), {})
        /\ sfile' = "open"
        /\ out' = <<>>
        /\ UNCHANGED <<sphase, sndVars>>
     \/ /\ op = "download" /\ stored
        /\ sfile' = "open"
        /\ ServerSends(Ack(0), 0, window, WINDOW_SIZE)
        /\ expired' = {}
        /\ UNCHANGED <<out, snd_expected>>
     \/ /\ op = "download" /\ ~stored
        /\ Receive(Ack(0), {})
        /\ sphase' = "dead"
        /\ UNCHANGED <<sfile, out, sndVars>>
  /\ UNCHANGED <<op, size, stored, cphase, rcvVars>>

(* _handle_data: the ACK is sent, then the run is written; a write with no *)
(* file open raises RuntimeError, which ends the thread.                   *)
ServerRecvData(m) ==
  /\ op = "upload" /\ sphase = "running"
  /\ m.type = "DATA"
  /\ \/ Discards(m) /\ Receive(m, {}) /\ UNCHANGED <<sphase, out, rcvVars>>
     \/ ~Discards(m) /\ Repeats(m) /\ Receive(m, {Ack(m.seq)})
        /\ UNCHANGED <<sphase, out, rcvVars>>
     \/ /\ ~Discards(m) /\ ~Repeats(m)
        /\ Receive(m, {Ack(m.seq)})
        /\ \E nx \in rcv_expected..(rcv_expected + WINDOW_SIZE) :
             /\ RunsTo(Buffered(m), nx)
             /\ Deliver(Buffered(m), nx)
             /\ IF nx > rcv_expected /\ sfile # "open"
                  THEN sphase' = "dead" /\ UNCHANGED out
                  ELSE out' = out \o Run(Buffered(m), nx) /\ UNCHANGED sphase
  /\ UNCHANGED <<op, size, stored, cphase, sfile, sndVars>>

(* _handle_ack of the protocol, then that of the server. *)
ServerRecvAck(m) ==
  /\ op = "download" /\ sphase = "running"
  /\ m.type = "ACK" /\ m.seq # 0
  /\ \/ /\ m.seq < snd_expected
        /\ Receive(m, {})
        /\ UNCHANGED <<sphase, sndVars>>
     \/ /\ m.seq >= snd_expected
        /\ \E nx \in snd_expected..seq_num :
             /\ SlidesTo(Unacked(m.seq), nx)
             /\ ServerSends(m, pos, Unacked(m.seq), nx - snd_expected)
             /\ snd_expected' = nx
             /\ expired' = {}
  /\ UNCHANGED <<op, size, stored, cphase, sfile, out, rcvVars>>

ServerClose(m) == ServerRecvClose(m) /\ UNCHANGED <<sndVars, rcvVars>>
ServerCloseFin == ServerRecvCloseAck /\ UNCHANGED <<sndVars, rcvVars>>

(* Mutant of ServerTimeout: the timers are reset and nothing is sent. *)
ServerTimeoutSilent ==
  /\ op = "download" /\ sphase = "running"
  /\ expired # {}
  /\ expired' = {}
  /\ UNCHANGED <<sessionVars, pos, seq_num, window, snd_expected, rcvVars>>

(* The queue was empty for ACK_TIMEOUT: expired packets are sent again,    *)
(* here with `sendto`.                                                     *)
ServerTimeout ==
  /\ op = "download" /\ sphase = "running"
  /\ expired # {}
  /\ net' = net \cup expired
  /\ expired' = {}
  /\ UNCHANGED <<op, size, stored, cphase, sphase, sfile, out,
                 pos, seq_num, window, snd_expected, rcvVars>>

ServerInactivity == Inactivity /\ UNCHANGED <<sndVars, rcvVars>>

-----------------------------------------------------------------------------
NetworkLoses == Lose /\ UNCHANGED <<sndVars, rcvVars>>

ClientNext ==
  \/ ClientHandshakeTimeout \/ ClientRecvSynAck \/ ClientCloseFin
  \/ ClientTimeout
  \/ \E m \in net : ClientRecvAck(m)
  \/ \E m \in net : ClientRecvData(m)
  \/ \E m \in net : ClientClose(m)

ServerNext ==
  \/ ServerRecvSyn \/ ServerRecvAckInit \/ ServerCloseFin \/ ServerTimeout
  \/ \E m \in net : ServerRecvAck(m)
  \/ \E m \in net : ServerRecvData(m)
  \/ \E m \in net : ServerClose(m)

TimerExpires == \E s \in Seqs(window) : Expire(s)

Next ==
  \/ ClientNext \/ ServerNext \/ ServerInactivity
  \/ NetworkLoses \/ TimerExpires

Spec == Init /\ [][Next]_vars

-----------------------------------------------------------------------------
(* Types.                                                                  *)

PacketTypes == {"SYN", "SYN_ACK", "ACK", "DATA", "CLOSE", "CLOSE_ACK"}
Packets == [type : PacketTypes, seq : Nat, data : Nat]

(* Every variable of a session and of the two protocol objects keeps its   *)
(* type.                                                                   *)
TypeOK ==
  /\ op \in {"upload", "download"}
  /\ size \in Sizes
  /\ stored \in BOOLEAN
  /\ cphase \in {"syn_sent", "established", "done", "dead"}
  /\ sphase \in {"none", "running", "ended", "dead"}
  /\ sfile \in {"none", "open", "closed"}
  /\ out \in Seq(Nat)
  /\ net \subseteq Packets
  /\ pos \in 0..size
  /\ seq_num \in Nat
  /\ window \subseteq Packets
  /\ expired \subseteq window
  /\ snd_expected \in 1..seq_num
  /\ rcv_expected \in Nat \ {0}
  /\ DOMAIN buffer \subseteq Nat
  /\ buffer \in [DOMAIN buffer -> Nat]

-----------------------------------------------------------------------------
(* Safety.                                                                 *)

(* The receiving end has the chunk numbered s, written or in its buffer.   *)
Received(s) == s < rcv_expected \/ s \in DOMAIN buffer

(* The sender has begun: it has its first credit of WINDOW_SIZE chunks.    *)
Started == IF op = "upload" THEN cphase \in {"established", "done"}
                            ELSE sfile # "none"

(* The receiver has written exactly the chunks below next_expected, in     *)
(* file order (_handle_data and the writes of the two handle_data), unless *)
(* its thread died because the file was not open.                          *)
OutIsPrefix ==
  \/ out = [i \in 1..(rcv_expected - 1) |-> i]
  \/ op = "upload" /\ sphase = "dead" /\ out = <<>>

(* A number that the sender dropped from its window - whatever the order   *)
(* and the number of copies of the ACKs - was received by the other end:   *)
(* _handle_ack never forgets a packet that may still have to be sent again. *)
ForgottenWasReceived ==
  \A s \in 1..pos : s \in Seqs(window) \/ Received(s)

(* The receiver never ignores a packet (line 158 of _handle_data): what is *)
(* in the network is below the end of its window, because the sender's     *)
(* window never gets ahead of it.                                          *)
NothingDiscarded == \A m \in net : m.type = "DATA" => ~Discards(m)

(* The credit that handle_ack hands out is neither lost nor invented: as   *)
(* long as part of the file is unread, exactly WINDOW_SIZE numbers are     *)
(* between next_expected and seq_num; afterwards, never more.              *)
CreditConserved ==
  /\ seq_num <= snd_expected + WINDOW_SIZE
  /\ Started /\ pos < size /\ sphase # "dead" => seq_num = snd_expected + WINDOW_SIZE

(* The sending end is in its loop: it sends only in answer to an ACK, and   *)
(* when a timer of its window expires.                                     *)
Sending == IF op = "upload" THEN cphase = "established"
                            ELSE sphase = "running" /\ sfile = "open"

(* A sender never waits for nothing: as long as it is in its loop, the     *)
(* packet that next_expected names is in its window, with a timer that     *)
(* will send it again - whichever ACKs were lost, late or repeated, and    *)
(* also when the file is empty or the FIN is all that is left.             *)
OldestOutstanding == Sending => snd_expected \in Seqs(window)

(* The FIN is sent only after the other end has the whole file, and it is  *)
(* the last packet of its window: it is never sent twice with different    *)
(* numbers.                                                                *)
FinIsLast ==
  \A m \in net \cup window : m.type = "CLOSE" =>
    m.seq = size + 1 /\ seq_num = size + 2 /\ rcv_expected = size + 1

(* A client that leaves its loop leaves a complete copy behind.            *)
DoneMeansCopied == cphase = "done" => Len(out) = size

(* The server closes the file of a transfer only when the copy is whole.   *)
ClosedIsComplete == sfile = "closed" => Len(out) = size

(* An upload whose file was created is never ended by an exception: every  *)
(* write finds the file open, also for packets that arrive after CLOSE.    *)
OpenUploadSurvives == op = "upload" /\ sfile # "none" => sphase # "dead"

(* Written chunks are never lost again: create_file truncates only an      *)
(* empty copy, and every write extends what is there.                      *)
CopyOnlyGrows ==
  [][Len(out) =< Len(out') /\ out = SubSeq(out', 1, Len(out))]_vars

(* The session implements the transfer its user is promised.               *)
Transfer == INSTANCE FileTransfer WITH
  copy <- out, finished <- (cphase = "done")

ImplementsTransfer == Transfer!Spec

-----------------------------------------------------------------------------
(* Liveness.                                                               *)

(* The server can expect no packet any more: the client is not opening the *)
(* session, and no end has packets to send again to a live other end.      *)
Silent == cphase # "syn_sent" /\ ~(cphase = "established" /\ window # {})

(* Timers do expire and sockets do time out; a packet that is sent again   *)
(* and again is delivered in the end.  This is asked of the oldest packet  *)
(* of the window, which holds the others back, and of its ACK.             *)
OldestArrives ==
  \E m \in net : m.seq = snd_expected /\ (ServerRecvData(m) \/ ClientRecvData(m))
OldestIsAcked ==
  \E m \in net : m.seq = snd_expected /\ (ClientRecvAck(m) \/ ServerRecvAck(m))
CloseArrives == \E m \in net : ServerClose(m) \/ ClientClose(m)

Fairness ==
  /\ WF_vars(Expire(snd_expected))
  /\ WF_vars(ClientTimeout \/ ServerTimeout)
  /\ WF_vars(ClientHandshakeTimeout)
  /\ WF_vars(Silent /\ ServerInactivity)
  /\ SF_vars(OldestArrives)
  /\ SF_vars(OldestIsAcked)
  /\ SF_vars(CloseArrives)
  /\ SF_vars(ClientCloseFin \/ ServerCloseFin)

LiveSpec == Spec /\ Fairness

(* What these steps are worth, each for itself: the oldest packet, when it *)
(* arrives, is received and acknowledged, whatever the receiver has by     *)
(* then; and its ACK makes next_expected move.                             *)
OldestProgress ==
  [][\A s \in {snd_expected} :
       /\ OldestArrives => Received(s)' /\ Ack(s) \in net'
       /\ OldestIsAcked => snd_expected' > s]_vars

(* The thread gave up although the sender has packets to send again: 120   *)
(* retransmissions in a row were lost.                                     *)
GaveUp == sphase = "ended" /\ window # {}

(* Once the server has created the file, an upload comes to its end        *)
(* whatever is lost, duplicated or reordered - every packet of the window, *)
(* the FIN included, is sent again until it is answered - unless the       *)
(* thread gives up.                                                        *)
UploadCompletes ==
  (op = "upload" /\ cphase = "established" /\ sfile = "open")
    ~> (cphase = "done" \/ GaveUp)

(* A download whose file was opened comes to its end, unless its thread    *)
(* gives up or dies on the way (see DownloadThreadSurvives).               *)
DownloadEnds ==
  (op = "download" /\ sfile = "open")
    ~> (cphase = "done" \/ GaveUp \/ sphase = "dead")

(* No server thread stays for ever: whatever the client does or fails to   *)
(* do, the thread leaves its loop.                                         *)
ThreadEnds == (sphase = "running") ~> (sphase \in {"ended", "dead"})

-----------------------------------------------------------------------------
(* What the repository says of the program and the code does not do; each  *)
(* is the property of a run that finds it violated.                        *)

(* cli.py:77: the server accepts requests to "download previously stored   *)
(* files".  The thread that sends one is not ended by a retransmission.    *)
DownloadThreadSurvives == op = "download" /\ stored => sphase # "dead"

(* cli.py:77: "implements Selective Repeat for error recovery", of packets *)
(* that carry a checksum.  Damage is recovered as loss is: an upload whose *)
(* file was created completes all the same.                                *)
Damage == \E m \in net : RecvDamaged(m) /\ UNCHANGED <<sndVars, rcvVars>>
DamageSpec == Init /\ [][Next \/ Damage]_vars /\ Fairness
DamageIsRecovered == UploadCompletes
=============================================================================
