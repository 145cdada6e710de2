---------------------------- MODULE Connections ----------------------------
(***************************************************************************)
(* What the server promises a client address: its first packet opens a     *)
(* session, and every packet that arrives while the session lasts is       *)
(* handled by it, once and in the order of arrival.  A session may end for *)
(* inactivity just as a packet arrives, and loses this one packet.  One    *)
(* that is closed leaves its address free for the next; one that ends      *)
(* otherwise does not, and the address is lost for ever.                   *)
(*                                                                         *)
(* Arrival is one step here.  In Server it takes the main loop three, with *)
(* the threads running in between, and the packet is in no queue for the   *)
(* time of two; Server is shown to implement this module all the same.     *)
(***************************************************************************)
EXTENDS Naturals, Sequences

CONSTANTS
  Addresses,     \* client addresses
  Data           \* "SYN", "CLOSE_ACK", and others

VARIABLE session     \* address -> [phase, inbox]

(* free: no session; new: no packet handled yet; closing: the CLOSE_ACK is *)
(* handled; lost: ended in another way.                                    *)
Session(ph, q) == [phase |-> ph, inbox |-> q]
Free == Session("free", <<>>)

Init == session = [a \in Addresses |-> Free]

Becomes(a, ph, q) == session' = [session EXCEPT ![a] = Session(ph, q)]

(* A packet of an address opens its session or joins what it has to read.  *)
Arrive(a, d) ==
  \/ session[a].phase = "free" /\ Becomes(a, "new", <<d>>)
  \/ /\ session[a].phase \in {"new", "serving"}
     /\ Becomes(a, session[a].phase, Append(session[a].inbox, d))

(* The oldest packet is handled.  The first has to be a SYN, a CLOSE_ACK   *)
(* closes, and any may end the session.                                    *)
Handle(a) ==
  /\ session[a].phase \in {"new", "serving"}
  /\ session[a].inbox # <<>>
  /\ LET d == Head(session[a].inbox) IN
     \/ /\ IF session[a].phase = "new" THEN d = "SYN" ELSE d # "CLOSE_ACK"
        /\ Becomes(a, "serving", Tail(session[a].inbox))
     \/ /\ session[a].phase = "serving" /\ d = "CLOSE_ACK"
        /\ Becomes(a, "closing", <<>>)
     \/ /\ session[a].phase = "new" \/ d # "CLOSE_ACK"
        /\ Becomes(a, "lost", <<>>)

(* The address of a closed session is free again. *)
Release(a) == session[a].phase = "closing" /\ Becomes(a, "free", <<>>)

(* A session ends for inactivity only when it has handled whatever came,   *)
(* its first packet at least, but for one packet that arrives that moment. *)
Expire(a) ==
  /\ session[a].phase = "serving" /\ Len(session[a].inbox) =< 1
  /\ Becomes(a, "lost", <<>>)

Next == \E a \in Addresses :
  (\E d \in Data : Arrive(a, d)) \/ Handle(a) \/ Release(a) \/ Expire(a)

Spec == Init /\ [][Next]_session
=============================================================================
