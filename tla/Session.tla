------------------------------ MODULE Session -------------------------------
(***************************************************************************)
(* The part of a transfer session that both protocols share: one client    *)
(* program (Client.py), the server thread that serves it (Server.py) and   *)
(* the UDP network between them.  The module holds the connection state,   *)
(* the network, and the handlers that touch no protocol state; the modules *)
(* SelectiveRepeat and StopAndWait EXTEND it with the protocol objects and *)
(* the handlers that use them.                                             *)
(*                                                                         *)
(* A file is abstracted to its number of chunks of PAYLOAD_SIZE bytes, and *)
(* chunk i of the file is the number i.                                    *)
(***************************************************************************)
EXTENDS Naturals, Sequences, FiniteSets

CONSTANTS
  Sizes,          \* the sizes of file the session may be asked to transfer
  MAX_FILE_SIZE   \* largest upload the server accepts (here in chunks)

ASSUME SizesAssumption == Sizes \subseteq Nat
ASSUME MaxFileSizeAssumption == MAX_FILE_SIZE \in Nat \ {0}

VARIABLES
  op,       \* "upload" (client sends) or "download" (server sends)
  size,     \* chunks in the file being transferred
  stored,   \* download: the server does have a file of the requested name
  cphase,   \* the client program
  sphase,   \* the server thread of this client
  sfile,    \* FileHandler.file of the server thread
  out,      \* the chunks written by the receiving end
  net       \* the packets in the network

sessionVars == <<op, size, stored, cphase, sphase, sfile, out, net>>

-----------------------------------------------------------------------------
(* Packets.  The header's operation and protocol bits are the same in      *)
(* every packet of a session; the file name and size of the SYN are the    *)
(* session's own.                                                          *)

NoData == 0

Packet(type, seq, data) == [type |-> type, seq |-> seq, data |-> data]

Syn      == Packet("SYN", 0, NoData)
SynAck   == Packet("SYN_ACK", 0, NoData)
Ack(s)   == Packet("ACK", s, NoData)
Data(s, d) == Packet("DATA", s, d)
Close(s) == Packet("CLOSE", s, NoData)
CloseAck == Packet("CLOSE_ACK", 0, NoData)

(* The packets that open a session.  Each is sent at most once: neither    *)
(* end retransmits them.                                                   *)
Handshake == {Syn, SynAck, Ack(0)}

(* The file size a SYN announces: an upload's real size, and the constant  *)
(* "1000" bytes - one chunk - for a download.                              *)
SynSize == IF op = "upload" THEN size ELSE 1

-----------------------------------------------------------------------------
(* The network loses, reorders and delays packets.  A packet that is not   *)
(* of the handshake may be delivered again: the sender retransmitted it    *)
(* while a first copy was on its way, or the network duplicated it.        *)

Receive(m, replies) ==
  /\ m \in net
  /\ \/ net' = (net \ {m}) \cup replies
     \/ m \notin Handshake /\ net' = net \cup replies

Lose ==
  /\ \E m \in net : net' = net \ {m}
  /\ UNCHANGED <<op, size, stored, cphase, sphase, sfile, out>>

(* file_handler.read(n * PAYLOAD_SIZE): how many chunks that returns with  *)
(* the file position at p.                                                 *)
ReadFrom(p, n) == IF n < size - p THEN n ELSE size - p

-----------------------------------------------------------------------------
(* The session begins with the client's SYN on its way: the client sends   *)
(* it before it reads its socket for the first time.                       *)
SessionInit ==
  /\ op \in {"upload", "download"}
  /\ size \in Sizes
  /\ stored \in BOOLEAN
  /\ op = "upload" => stored
  /\ cphase = "syn_sent"
  /\ sphase = "none"
  /\ sfile = "none"
  /\ out = <<>>
  /\ net = {Syn}

(* wait_response: the socket's timeout is not caught here, so a client     *)
(* that does not get its SYN_ACK in time ends with an exception.           *)
HandshakeTimeout ==
  /\ cphase = "syn_sent"
  /\ cphase' = "dead"
  /\ UNCHANGED <<op, size, stored, sphase, sfile, out, net>>

(* The first packet of an address starts the thread.  A SYN that announces *)
(* too large a file raises FilesizeError, which the thread does not catch. *)
RecvSyn ==
  /\ sphase = "none"
  /\ IF SynSize > MAX_FILE_SIZE
       THEN Receive(Syn, {}) /\ sphase' = "dead"
       ELSE Receive(Syn, {SynAck}) /\ sphase' = "running"
  /\ UNCHANGED <<op, size, stored, cphase, sfile, out>>

(* Upload: the server answers every CLOSE and closes its file; its thread  *)
(* stays, to answer the CLOSE again if the answer is lost.                 *)
ServerRecvClose(m) ==
  /\ op = "upload" /\ sphase = "running"
  /\ m.type = "CLOSE"
  /\ Receive(m, {CloseAck})
  /\ sfile' = IF sfile = "open" THEN "closed" ELSE sfile
  /\ UNCHANGED <<op, size, stored, cphase, sphase, out>>

(* Download: the answer to the server's CLOSE ends its thread. *)
ServerRecvCloseAck ==
  /\ op = "download" /\ sphase = "running"
  /\ Receive(CloseAck, {})
  /\ sphase' = "ended"
  /\ sfile' = "closed"
  /\ UNCHANGED <<op, size, stored, cphase, out>>

(* Download: the client closes its file, which ends its loop, and answers  *)
(* once; nobody is left to answer a retransmitted CLOSE.                   *)
ClientRecvClose(m) ==
  /\ op = "download" /\ cphase = "established"
  /\ m.type = "CLOSE"
  /\ Receive(m, {CloseAck})
  /\ cphase' = "done"
  /\ UNCHANGED <<op, size, stored, sphase, sfile, out>>

(* Upload: the answer to the client's CLOSE ends its loop. *)
ClientRecvCloseAck ==
  /\ op = "upload" /\ cphase = "established"
  /\ Receive(CloseAck, {})
  /\ cphase' = "done"
  /\ UNCHANGED <<op, size, stored, sphase, sfile, out>>

(* Mutant of Inactivity: only a thread whose file is open gives up. *)
InactivityOnceOpen ==
  /\ sphase = "running" /\ sfile # "none"
  /\ sphase' = "ended"
  /\ UNCHANGED <<op, size, stored, cphase, sfile, out, net>>

(* The queue of the thread stays empty for 60 seconds: the thread leaves   *)
(* its loop.  The count of half-second timeouts is abstracted to the       *)
(* decision to give up.                                                    *)
Inactivity ==
  /\ sphase = "running"
  /\ sphase' = "ended"
  /\ UNCHANGED <<op, size, stored, cphase, sfile, out, net>>

-----------------------------------------------------------------------------
(* Damage, a fault the sessions proper leave out: a packet arrives with a  *)
(* checksum that does not match.                                           *)

(* Who reads packet m. *)
ToServer(m) ==
  \/ m \in {Syn, Ack(0)}
  \/ op = "upload" /\ m.type \in {"DATA", "CLOSE"}
  \/ op = "download" /\ m.type \in {"ACK", "CLOSE_ACK"}

(* from_bytes raises ChecksumError.  The thread's first packet: nobody     *)
(* catches it.  Any other: handle_packet does, and raises another          *)
(* exception that nobody catches - SelectiveRepeat has no _handle_corrupt, *)
(* and StopAndWait's returns to code that reads the packet never made.     *)
RecvDamaged(m) ==
  /\ Receive(m, {})
  /\ \/ ToServer(m) /\ sphase \in {"none", "running"}
        /\ sphase' = "dead" /\ UNCHANGED cphase
     \/ ~ToServer(m) /\ cphase \in {"syn_sent", "established"}
        /\ cphase' = "dead" /\ UNCHANGED sphase
  /\ UNCHANGED <<op, size, stored, sfile, out>>
=============================================================================
