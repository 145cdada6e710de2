------------------------------- MODULE Server -------------------------------
(***************************************************************************)
(* The server program of tp1 (server/Server.py) around its sessions: the   *)
(* main loop that reads the socket, the table with one queue for each      *)
(* client address, and the threads that read those queues.  What a thread  *)
(* does with a packet is the subject of the modules SelectiveRepeat and    *)
(* StopAndWait; here a packet is what decides whether the thread goes on.  *)
(*                                                                         *)
(* A step is a stretch that no other thread can observe in part: a block   *)
(* under clientDataQueueLock, a look-up, a put or a get of a queue.        *)
(* Each thread reads the queue that was made with it, so that a queue has  *)
(* the name of its thread.  The name of a thread that closed its session   *)
(* is free for another; what lies in a queue nobody reads is not kept.     *)
(***************************************************************************)
EXTENDS Naturals, Sequences

CONSTANTS
  Addresses,     \* client addresses
  Threads,       \* names of threads, at least one for each address
  MAX_QUEUE      \* bound: packets in a queue when one more arrives

ASSUME ServerAssumption == MAX_QUEUE \in Nat /\ Threads # {}

VARIABLES
  clientDataQueues,  \* address -> its queue, by the name of the thread
  threads,           \* thread -> [addr, phase, queue]
  at,                \* the main loop: before recvfrom, look-up or put
  packet,            \* what it received last: [addr, data]
  found              \* the queue it found last

vars == <<clientDataQueues, threads, at, packet, found>>

(* All that is not an opening or a final packet is "MORE". *)
Data == {"SYN", "MORE", "CLOSE_ACK"}

(* none: not started; new: no packet handled yet; serving: initialized;    *)
(* closing: CLOSE_ACK handled, entry not yet deleted; closed: entry        *)
(* deleted; ended: left by inactivity, HandshakeError or another           *)
(* exception, which leave the entry.                                       *)
Phases == {"none", "new", "serving", "closing", "closed", "ended"}
Live(t) == threads[t].phase \in {"new", "serving", "closing"}

Init ==
  /\ clientDataQueues = <<>>
  /\ threads \in [Threads -> [addr : Addresses, phase : {"none"}, queue : {<<>>}]]
  /\ at = "recv"
  /\ packet \in [addr : Addresses, data : Data]
  /\ found \in Threads

-----------------------------------------------------------------------------
(* The main loop.                                                          *)

(* A new queue for address a, and thread t to read it. *)
Start(a, t) ==
  /\ threads[t].phase \in {"none", "closed"}
  /\ threads' = [threads EXCEPT ![t] = [addr |-> a, phase |-> "new", queue |-> <<>>]]
  /\ clientDataQueues' = [b \in DOMAIN clientDataQueues \cup {a} |->
       IF b = a THEN t ELSE clientDataQueues[b]]

(* Mutant of _raise_thread: no test for a queue that is already there. *)
_raise_thread_always(a) == \E t \in Threads : Start(a, t)

(* Under the lock: an address without a queue gets one, and a thread. *)
_raise_thread(a) ==
  \/ a \in DOMAIN clientDataQueues /\ UNCHANGED <<clientDataQueues, threads>>
  \/ a \notin DOMAIN clientDataQueues /\ \E t \in Threads : Start(a, t)

(* The network delivers whatever some client of the address once sent. *)
Receive(a, d) ==
  /\ at = "recv"
  /\ a \in DOMAIN clientDataQueues =>
       Len(threads[clientDataQueues[a]].queue) < MAX_QUEUE
  /\ _raise_thread(a)
  /\ packet' = [addr |-> a, data |-> d]
  /\ at' = "look"
  /\ UNCHANGED found

(* Mutant of LookUp: the queue found last is used again while it is one of *)
(* the address.                                                            *)
LookUpCached ==
  /\ at = "look"
  /\ IF threads[found].addr = packet.addr THEN at' = "put" /\ UNCHANGED found
     ELSE IF packet.addr \in DOMAIN clientDataQueues
       THEN found' = clientDataQueues[packet.addr] /\ at' = "put"
       ELSE at' = "recv" /\ UNCHANGED found
  /\ UNCHANGED <<clientDataQueues, threads, packet>>

(* self.clientDataQueues[addr], without the lock: a KeyError is printed    *)
(* and the loop goes on, without the packet.                               *)
LookUp ==
  /\ at = "look"
  /\ IF packet.addr \in DOMAIN clientDataQueues
       THEN found' = clientDataQueues[packet.addr] /\ at' = "put"
       ELSE at' = "recv" /\ UNCHANGED found
  /\ UNCHANGED <<clientDataQueues, threads, packet>>

(* The packet joins the queue that was found, read by somebody or not. *)
Put ==
  /\ at = "put"
  /\ threads' = [threads EXCEPT ![found].queue =
       IF Live(found) THEN Append(@, packet.data) ELSE @]
  /\ at' = "recv"
  /\ UNCHANGED <<clientDataQueues, packet, found>>

-----------------------------------------------------------------------------
(* The threads.                                                            *)

(* Mutant of Handshake: a packet that is not a SYN is skipped. *)
HandshakeSkips(t) ==
  /\ threads[t].phase = "new"
  /\ threads[t].queue # <<>>
  /\ threads' = [threads EXCEPT ![t].queue = Tail(@),
       ![t].phase = IF Head(threads[t].queue) = "SYN" THEN "serving" ELSE @]
  /\ UNCHANGED <<clientDataQueues, at, packet, found>>

(* The first packet makes the protocol object: a SYN is answered, or too   *)
(* large (FilesizeError); any other is a HandshakeError.                   *)
Handshake(t) ==
  /\ threads[t].phase = "new"
  /\ threads[t].queue # <<>>
  /\ \E ph \in IF Head(threads[t].queue) = "SYN" THEN {"serving", "ended"}
                                                 ELSE {"ended"} :
       threads' = [threads EXCEPT ![t].phase = ph,
         ![t].queue = IF ph = "serving" THEN Tail(@) ELSE <<>>]
  /\ UNCHANGED <<clientDataQueues, at, packet, found>>

(* A later packet: CLOSE_ACK ends the session, any other may end the       *)
(* thread by an exception.                                                 *)
HandlePacket(t) ==
  /\ threads[t].phase = "serving"
  /\ threads[t].queue # <<>>
  /\ \E ph \in IF Head(threads[t].queue) = "CLOSE_ACK" THEN {"closing"}
                                              ELSE {"serving", "ended"} :
       threads' = [threads EXCEPT ![t].phase = ph,
         ![t].queue = IF ph = "serving" THEN Tail(@) ELSE <<>>]
  /\ UNCHANGED <<clientDataQueues, at, packet, found>>

(* The table without the entry of address a, if it has one. *)
Without(a) == [b \in DOMAIN clientDataQueues \ {a} |-> clientDataQueues[b]]

(* Mutant of handle_close_fin: the thread does not leave its loop. *)
handle_close_fin_again(t) ==
  /\ threads[t].phase = "closing"
  /\ clientDataQueues' = Without(threads[t].addr)
  /\ UNCHANGED <<threads, at, packet, found>>

(* Mutant of handle_close_fin: the entry stays. *)
handle_close_fin_keeps(t) ==
  /\ threads[t].phase = "closing"
  /\ threads' = [threads EXCEPT ![t].phase = "closed", ![t].queue = <<>>]
  /\ UNCHANGED <<clientDataQueues, at, packet, found>>

(* Under the lock: the entry of the address, whosever it is, is deleted.   *)
(* The thread ends right after.                                            *)
handle_close_fin(t) ==
  /\ threads[t].phase = "closing"
  /\ clientDataQueues' = Without(threads[t].addr)
  /\ threads' = [threads EXCEPT ![t].phase = "closed", ![t].queue = <<>>]
  /\ UNCHANGED <<at, packet, found>>

(* The main loop is between two lines with a packet for thread t. *)
OnItsWay(t) ==
  \/ at = "look" /\ packet.addr = threads[t].addr
  \/ at = "put" /\ found = t

(* No packet for 60 seconds: the queue is empty when get times out.  The   *)
(* main loop may hold a packet for the thread at that moment; it will be   *)
(* put in a queue nobody reads.  Only for the first packet of a new thread *)
(* the 60 seconds are taken to be longer than the main loop needs from the *)
(* start of the thread to put.                                             *)
Inactivity(t) ==
  /\ threads[t].phase \in {"new", "serving"}
  /\ threads[t].queue = <<>>
  /\ threads[t].phase = "new" => ~OnItsWay(t)
  /\ threads' = [threads EXCEPT ![t].phase = "ended"]
  /\ UNCHANGED <<clientDataQueues, at, packet, found>>

Next ==
  \/ \E a \in Addresses, d \in Data : Receive(a, d)
  \/ LookUp
  \/ Put
  \/ \E t \in Threads :
       Handshake(t) \/ HandlePacket(t) \/ handle_close_fin(t) \/ Inactivity(t)

Spec == Init /\ [][Next]_vars

-----------------------------------------------------------------------------
TypeOK ==
  /\ threads \in [Threads -> [addr : Addresses, phase : Phases, queue : Seq(Data)]]
  /\ DOMAIN clientDataQueues \subseteq Addresses
  /\ clientDataQueues \in [DOMAIN clientDataQueues -> Threads]
  /\ at \in {"recv", "look", "put"}
  /\ packet \in [addr : Addresses, data : Data]
  /\ found \in Threads

(* A thread that still reads its queue is the one its address finds in the *)
(* table: no address ever has two of them, and none is left unreachable,   *)
(* whatever is started and deleted meanwhile.                              *)
LiveRegistered ==
  \A t \in Threads : Live(t) =>
    /\ threads[t].addr \in DOMAIN clientDataQueues
    /\ clientDataQueues[threads[t].addr] = t

(* A thread that waits for its first packet gets it: the packet that       *)
(* started it is never the one a KeyError loses, nor one for another queue. *)
NewThreadIsFed ==
  \A t \in Threads :
    threads[t].phase = "new" /\ threads[t].queue = <<>> => OnItsWay(t)

(* A KeyError never takes a packet from a session that goes on: a thread   *)
(* of the address took a CLOSE_ACK, and no other serves the address.  The  *)
(* packet that is lost may be a late one of the closed session or the SYN  *)
(* of the client's next.                                                   *)
LossOnlyAfterClose ==
  at = "look" /\ packet.addr \notin DOMAIN clientDataQueues =>
    /\ \E t \in Threads :
         threads[t].addr = packet.addr /\ threads[t].phase = "closed"
    /\ \A t \in Threads : threads[t].addr = packet.addr => ~Live(t)

(* The entry of an address changes only when its own thread ends a session *)
(* that was closed: no late thread deletes the entry of the next session.  *)
EntryEndsWithItsThread ==
  [][\A a \in DOMAIN clientDataQueues :
       \/ a \in DOMAIN clientDataQueues' /\ clientDataQueues'[a] = clientDataQueues[a]
       \/ /\ a \notin DOMAIN clientDataQueues'
          /\ threads[clientDataQueues[a]].phase = "closing"
          /\ threads'[clientDataQueues[a]].phase = "closed"]_vars

-----------------------------------------------------------------------------
(* What Connections promises.  The session of an address is that of the    *)
(* thread in the table, and what it has still to read is the queue of the  *)
(* thread and, behind it, the packet that the main loop has for it.        *)
InboxOf(t) ==
  IF OnItsWay(t) THEN Append(threads[t].queue, packet.data) ELSE threads[t].queue

SessionOf(t) ==
  IF threads[t].phase \in {"new", "serving"}
    THEN [phase |-> threads[t].phase, inbox |-> InboxOf(t)]
    ELSE [phase |-> IF threads[t].phase = "closing" THEN "closing" ELSE "lost",
          inbox |-> <<>>]

Sessions == [a \in Addresses |->
  IF a \in DOMAIN clientDataQueues THEN SessionOf(clientDataQueues[a])
                                   ELSE [phase |-> "free", inbox |-> <<>>]]

Promise == INSTANCE Connections WITH session <- Sessions

(* The unlocked look-up and put, the threads that come and go meanwhile    *)
(* and the deletions do not show: no packet of a session is lost, taken to *)
(* another, or read out of its turn - save the one that the main loop      *)
(* holds at the moment at which the session ends for inactivity.           *)
ImplementsConnections == Promise!Spec

-----------------------------------------------------------------------------
(* Liveness: the operating system runs every thread.                       *)
Fairness ==
  /\ WF_vars(LookUp) /\ WF_vars(Put)
  /\ \A t \in Threads :
       WF_vars(Handshake(t) \/ HandlePacket(t)) /\ WF_vars(handle_close_fin(t))

FairSpec == Spec /\ Fairness

(* A client that opens a session is answered or refused: every thread that *)
(* was started handles its first packet.                                   *)
StartedIsAnswered ==
  \A t \in Threads : (threads[t].phase = "new") ~> (threads[t].phase # "new")

(* A closed session frees its address for the next one.                    *)
CloseFreesAddress ==
  \A t \in Threads :
    (threads[t].phase = "closing") ~> (\A a \in DOMAIN clientDataQueues : clientDataQueues[a] # t)

-----------------------------------------------------------------------------
(* What the repository says and the code does not do.                      *)

(* cli.py:77: the server "will accept incoming requests": a SYN is taken   *)
(* to a thread that will read it.                                          *)
SynReachesThread ==
  [][\A a \in Addresses : Receive(a, "SYN") =>
       threads'[clientDataQueues'[a]].phase \in {"new", "serving", "closing"}]_vars
=============================================================================
