---------------------------- MODULE StopAndWait -----------------------------
(***************************************************************************)
(* A session that runs the stop-and-wait protocol: the StopAndWait objects *)
(* of the two ends (stop_and_wait.py), driven by the same receive loops    *)
(* and event handlers of Client.py and Server.py as SelectiveRepeat.       *)
(*                                                                         *)
(* The attribute `window`, which the handlers also look at, is the empty   *)
(* dictionary of the base class (protocol.py) all along.  The module is    *)
(* shown to implement SelectiveRepeat with a window of one packet.         *)
(***************************************************************************)
EXTENDS Session

VARIABLES
  pos,          \* sender: chunks read from the file so far
  seq_num,      \* sender: the next sequence number
  pending,      \* sender: _pending, as a set of at most one packet
  waiting_ack,  \* sender: _waiting_ack
  late,         \* sender: _pending was sent more than ACK_TIMEOUT ago
  rcv_expected  \* receiver: next_expected

sndVars == <<pos, seq_num, pending, waiting_ack, late>>
vars == <<sessionVars, sndVars, rcv_expected>>

Init ==
  /\ SessionInit
  /\ pos = 0
  /\ seq_num = 1
  /\ pending = {}
  /\ waiting_ack = FALSE
  /\ late = FALSE
  /\ rcv_expected = 1

-----------------------------------------------------------------------------
(* The sending half of the protocol object.                                *)

(* push_payload: the chunk after file position p becomes the pending packet. *)
Push(p) ==
  /\ pos' = p + 1
  /\ pending' = {Data(seq_num, p + 1)}

(* fin: so does the FIN, when the whole file was read. *)
PushFin(p) ==
  /\ pos' = p
  /\ pending' = {Close(seq_num)}

(* Mutants of Acknowledges - any ACK does - and of Unacked: _pending stays. *)
AcknowledgesAny(m) == pending # {}
UnackedAll(m) == pending

(* _handle_ack: the ACK of the pending packet clears it; any other ACK     *)
(* than ACK(0) is no event.                                                *)
Acknowledges(m) == \E p \in pending : m.seq = p.seq
Unacked(m) == {p \in pending : p.seq # m.seq}

(* get_timedouts, when `rest` is pending. *)
TimedOut(rest) == IF late THEN rest ELSE {}

(* The tail of handle_ack, from file position p: one chunk is read and     *)
(* pushed - in the place of whatever is pending; when nothing is left and  *)
(* no ACK is awaited, the FIN is.                                          *)
ReadAndSend(m, also, p, rest, waiting) ==
  IF ReadFrom(p, 1) = 0 /\ waiting
    THEN /\ pos' = p /\ pending' = rest /\ waiting_ack' = waiting
         /\ late' = FALSE
         /\ Receive(m, also)
         /\ UNCHANGED seq_num
    ELSE /\ IF ReadFrom(p, 1) > 0 THEN Push(p) ELSE PushFin(p)
         /\ seq_num' = seq_num + 1
         /\ waiting_ack' = TRUE
         /\ late' = FALSE
         /\ Receive(m, also \cup pending')

Expire ==
  /\ IF op = "upload" THEN cphase = "established" ELSE sphase = "running"
  /\ pending # {} /\ ~late
  /\ late' = TRUE
  /\ UNCHANGED <<sessionVars, pos, seq_num, pending, waiting_ack, rcv_expected>>

-----------------------------------------------------------------------------
(* The client.                                                             *)

ClientHandshakeTimeout == HandshakeTimeout /\ UNCHANGED <<sndVars, rcv_expected>>

(* handle_syn_ack: ACK(0), and an upload sends its first packet at once. *)
ClientRecvSynAck ==
  /\ cphase = "syn_sent"
  /\ cphase' = "established"
  /\ IF op = "upload"
       THEN ReadAndSend(SynAck, {Ack(0)} \cup TimedOut(pending),
                        pos, pending, waiting_ack)
       ELSE Receive(SynAck, {Ack(0)}) /\ UNCHANGED sndVars
  /\ UNCHANGED <<op, size, stored, sphase, sfile, out, rcv_expected>>

(* handle_ack, after _handle_ack cleared _pending and _waiting_ack. *)
ClientRecvAck(m) ==
  /\ op = "upload" /\ cphase = "established"
  /\ m.type = "ACK" /\ m.seq # 0
  /\ IF Acknowledges(m) THEN ReadAndSend(m, TimedOut(Unacked(m)), pos, Unacked(m), FALSE)
                        ELSE Receive(m, {}) /\ UNCHANGED sndVars
  /\ UNCHANGED <<op, size, stored, cphase, sphase, sfile, out, rcv_expected>>

(* Mutant of Repeats: an old packet is not acknowledged again. *)
RepeatsNever(m) == FALSE

(* _handle_data: the expected packet is delivered, an older one is only    *)
(* acknowledged again, a later one is ignored.                             *)
Delivers(m) == m.seq = rcv_expected
Repeats(m) == m.seq < rcv_expected

ClientRecvData(m) ==
  /\ op = "download" /\ cphase = "established"
  /\ m.type = "DATA"
  /\ Receive(m, IF Delivers(m) \/ Repeats(m) THEN {Ack(m.seq)} ELSE {})
  /\ IF Delivers(m)
       THEN out' = Append(out, m.data) /\ rcv_expected' = rcv_expected + 1
       ELSE UNCHANGED <<out, rcv_expected>>
  /\ UNCHANGED <<op, size, stored, cphase, sphase, sfile, sndVars>>

ClientClose(m) == ClientRecvClose(m) /\ UNCHANGED <<sndVars, rcv_expected>>
ClientCloseFin == ClientRecvCloseAck /\ UNCHANGED <<sndVars, rcv_expected>>

(* The upload loop's socket timed out: a late pending packet is sent again. *)
ClientTimeout ==
  /\ op = "upload" /\ cphase = "established"
  /\ late
  /\ net' = net \cup pending
  /\ late' = FALSE
  /\ waiting_ack' = TRUE
  /\ UNCHANGED <<op, size, stored, cphase, sphase, sfile, out,
                 pos, seq_num, pending, rcv_expected>>

-----------------------------------------------------------------------------
(* The server thread.                                                      *)

ServerRecvSyn == RecvSyn /\ UNCHANGED <<sndVars, rcv_expected>>

(* _handle_ack of the server: as for SelectiveRepeat, an expired packet    *)
(* would be sent with `socket.send`, which fails and ends the thread.      *)
ServerSends(m, p, rest, waiting) ==
  IF TimedOut(rest) # {}
    THEN /\ Receive(m, {})
         /\ sphase' = "dead"
         /\ pos' = p /\ pending' = rest /\ waiting_ack' = waiting
         /\ late' = FALSE
         /\ UNCHANGED seq_num
    ELSE ReadAndSend(m, {}, p, rest, waiting) /\ UNCHANGED sphase

(* _handle_init. *)
ServerRecvAckInit ==
  /\ sphase = "running"
  /\ \/ /\ op = "upload"
        /\ Receive(Ack(0), {})
        /\ sfile' = "open"
        /\ out' = <<>>
        /\ UNCHANGED <<sphase, sndVars>>
     \/ /\ op = "download" /\ stored
        /\ sfile' = "open"
        /\ ServerSends(Ack(0), 0, pending, waiting_ack)
        /\ UNCHANGED out
     \/ /\ op = "download" /\ ~stored
        /\ Receive(Ack(0), {})
        /\ sphase' = "dead"
        /\ UNCHANGED <<sfile, out, sndVars>>
  /\ UNCHANGED <<op, size, stored, cphase, rcv_expected>>

(* _handle_data: the ACK is sent, then the chunk is written; a write with  *)
(* no file open raises RuntimeError, which ends the thread.                *)
ServerRecvData(m) ==
  /\ op = "upload" /\ sphase = "running"
  /\ m.type = "DATA"
  /\ Receive(m, IF Delivers(m) \/ Repeats(m) THEN {Ack(m.seq)} ELSE {})
  /\ rcv_expected' = IF Delivers(m) THEN rcv_expected + 1 ELSE rcv_expected
  /\ out' = IF Delivers(m) /\ sfile = "open" THEN Append(out, m.data) ELSE out
  /\ sphase' = IF Delivers(m) /\ sfile # "open" THEN "dead" ELSE sphase
  /\ UNCHANGED <<op, size, stored, cphase, sfile, sndVars>>

(* _handle_ack: as ClientRecvAck, the FIN being sent at eof.               *)
ServerRecvAck(m) ==
  /\ op = "download" /\ sphase = "running"
  /\ m.type = "ACK" /\ m.seq # 0
  /\ IF Acknowledges(m) THEN ServerSends(m, pos, Unacked(m), FALSE)
                        ELSE Receive(m, {}) /\ UNCHANGED <<sphase, sndVars>>
  /\ UNCHANGED <<op, size, stored, cphase, sfile, out, rcv_expected>>

ServerClose(m) == ServerRecvClose(m) /\ UNCHANGED <<sndVars, rcv_expected>>
ServerCloseFin == ServerRecvCloseAck /\ UNCHANGED <<sndVars, rcv_expected>>

(* The queue was empty for ACK_TIMEOUT: a late pending packet is sent      *)
(* again.                                                                  *)
ServerTimeout ==
  /\ op = "download" /\ sphase = "running"
  /\ late
  /\ net' = net \cup pending
  /\ late' = FALSE
  /\ waiting_ack' = TRUE
  /\ UNCHANGED <<op, size, stored, cphase, sphase, sfile, out,
                 pos, seq_num, pending, rcv_expected>>

ServerInactivity == Inactivity /\ UNCHANGED <<sndVars, rcv_expected>>

-----------------------------------------------------------------------------
NetworkLoses == Lose /\ UNCHANGED <<sndVars, rcv_expected>>

ClientNext ==
  \/ ClientHandshakeTimeout \/ ClientRecvSynAck \/ ClientCloseFin
  \/ ClientTimeout
  \/ \E m \in net : ClientRecvAck(m)
  \/ \E m \in net : ClientRecvData(m)
  \/ \E m \in net : ClientClose(m)

ServerNext ==
  \/ ServerRecvSyn \/ ServerRecvAckInit \/ ServerCloseFin \/ ServerTimeout
  \/ \E m \in net : ServerRecvAck(m)
  \/ \E m \in net : ServerRecvData(m)
  \/ \E m \in net : ServerClose(m)

Next ==
  \/ ClientNext \/ ServerNext \/ ServerInactivity
  \/ NetworkLoses \/ Expire

Spec == Init /\ [][Next]_vars

-----------------------------------------------------------------------------
(* Every variable keeps its type; _pending and _waiting_ack agree.         *)
TypeOK ==
  /\ pos \in 0..size
  /\ seq_num \in Nat \ {0}
  /\ \E p \in [type : {"DATA", "CLOSE"}, seq : 1..(size + 1), data : 0..size] :
       pending \subseteq {p}
  /\ waiting_ack = (pending # {})
  /\ late \in BOOLEAN
  /\ rcv_expected \in Nat \ {0}
  /\ out \in Seq(Nat)

(* Stop-and-wait is selective repeat with a window of one packet, so that  *)
(* everything established for SelectiveRepeat holds of these sessions too. *)
SR == INSTANCE SelectiveRepeat WITH
  WINDOW_SIZE <- 1,
  window <- pending,
  expired <- IF late THEN pending ELSE {},
  snd_expected <- IF pending = {} THEN seq_num ELSE seq_num - 1,
  buffer <- <<>>

ImplementsSelectiveRepeat == SR!Spec

(* The packet in flight and the receiver are never more than one number    *)
(* apart: the receiver waits for the pending packet, or has written it and *)
(* waits for the next.                                                     *)
InStep == \A p \in pending : rcv_expected \in {p.seq, p.seq + 1}

(* tp1's cli.py:77: "download previously stored files".  Here the ACK that *)
(* reaches _handle_ack has just cleared the only packet that could be sent *)
(* again, so that the failing `socket.send` of Server.py:142 is never      *)
(* reached.                                                                *)
DownloadThreadSurvives == op = "download" /\ stored => sphase # "dead"

-----------------------------------------------------------------------------
(* Liveness, under the same assumptions as in SelectiveRepeat.             *)

Silent == cphase # "syn_sent" /\ ~(cphase = "established" /\ pending # {})

PendingArrives == \E m \in net \cap pending : ServerRecvData(m) \/ ClientRecvData(m)
PendingIsAcked ==
  \E m \in net : Acknowledges(m) /\ (ClientRecvAck(m) \/ ServerRecvAck(m))
CloseArrives == \E m \in net : ServerClose(m) \/ ClientClose(m)

Fairness ==
  /\ WF_vars(Expire)
  /\ WF_vars(ClientTimeout \/ ServerTimeout)
  /\ WF_vars(ClientHandshakeTimeout)
  /\ WF_vars(Silent /\ ServerInactivity)
  /\ SF_vars(CloseArrives)
  /\ SF_vars(ClientCloseFin \/ ServerCloseFin)
  /\ SF_vars(PendingArrives)
  /\ SF_vars(PendingIsAcked)

LiveSpec == Spec /\ Fairness

(* The thread gave up although there is a packet to send again. *)
GaveUp == sphase = "ended" /\ pending # {}

(* Once its file is open on the server, a transfer in either direction     *)
(* comes to its end - the one pending packet is sent again until answered  *)
(* - unless the thread gives up.                                           *)
TransferCompletes ==
  (cphase = "established" /\ sfile = "open") ~> (cphase = "done" \/ GaveUp)

-----------------------------------------------------------------------------
(* Sessions whose packets may be damaged, too. *)
Damage == \E m \in net : RecvDamaged(m) /\ UNCHANGED <<sndVars, rcv_expected>>
DamageSpec == Init /\ [][Next \/ Damage]_vars
=============================================================================
