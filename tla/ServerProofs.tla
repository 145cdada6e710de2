---------------------------- MODULE ServerProofs ----------------------------
(***************************************************************************)
(* Proofs about Server, for every set of addresses and threads.  That a    *)
(* thread which still reads its queue is the registered one is inductive   *)
(* only with its converse, OwnEntries: what an address finds in the table  *)
(* is a thread of its own that has not deleted the entry.                  *)
(***************************************************************************)
EXTENDS Server, SequenceTheorems, TLAPS

OwnEntries ==
  \A a \in DOMAIN clientDataQueues :
    /\ threads[clientDataQueues[a]].addr = a
    /\ threads[clientDataQueues[a]].phase \notin {"none", "closed"}

ServerInv ==
  TypeOK /\ LiveRegistered /\ OwnEntries /\ NewThreadIsFed /\ LossOnlyAfterClose

-----------------------------------------------------------------------------
LEMMA InitServerInv == Init => ServerInv
<1> SUFFICES ASSUME Init PROVE ServerInv
  OBVIOUS
<1>1. DOMAIN clientDataQueues = {} /\ \A t \in Threads : threads[t].phase = "none"
  BY DEF Init
<1>2. TypeOK
  <2>1. \A t \in Threads :
          threads[t] \in [addr : Addresses, phase : Phases, queue : Seq(Data)]
    <3>1. <<>> \in Seq(Data) /\ "none" \in Phases
      BY DEF Phases
    <3> SUFFICES ASSUME NEW t \in Threads
                 PROVE  threads[t] \in [addr : Addresses, phase : Phases, queue : Seq(Data)]
      OBVIOUS
    <3>2. threads[t] \in [addr : Addresses, phase : {"none"}, queue : {<<>>}]
      BY DEF Init
    <3> QED
      BY <3>1, <3>2
  <2>2. threads \in [Threads -> [addr : Addresses, phase : Phases, queue : Seq(Data)]]
    BY <2>1 DEF Init
  <2>3. clientDataQueues \in [DOMAIN clientDataQueues -> Threads]
    BY <1>1 DEF Init
  <2> QED
    BY <1>1, <2>2, <2>3 DEF Init, TypeOK
<1>3. LiveRegistered /\ OwnEntries /\ NewThreadIsFed /\ LossOnlyAfterClose
  BY <1>1 DEF Init, LiveRegistered, OwnEntries, NewThreadIsFed, LossOnlyAfterClose, Live
<1> QED
  BY <1>2, <1>3 DEF ServerInv

(* A packet arrives: a thread that is started is the first of its address. *)
LEMMA ReceiveKeeps ==
  ASSUME ServerInv, NEW a \in Addresses, NEW d \in Data, Receive(a, d)
  PROVE  ServerInv'
<1> USE DEF ServerInv
<1>1. CASE a \in DOMAIN clientDataQueues /\ UNCHANGED <<clientDataQueues, threads>>
  BY <1>1 DEF Receive, TypeOK, LiveRegistered, OwnEntries, NewThreadIsFed,
              LossOnlyAfterClose, Live, OnItsWay
<1>2. CASE a \notin DOMAIN clientDataQueues /\ \E t \in Threads : Start(a, t)
  <2>1. PICK t \in Threads : Start(a, t)
    BY <1>2
  <2>2. /\ DOMAIN clientDataQueues' = DOMAIN clientDataQueues \cup {a}
        /\ clientDataQueues'[a] = t
        /\ \A b \in DOMAIN clientDataQueues : clientDataQueues'[b] = clientDataQueues[b]
    BY <1>2, <2>1 DEF Start
  <2>3. /\ threads'[t] = [addr |-> a, phase |-> "new", queue |-> <<>>]
        /\ \A u \in Threads \ {t} : threads'[u] = threads[u]
        /\ threads[t].phase \in {"none", "closed"}
    BY <2>1 DEF Start, TypeOK
  <2>4. at = "recv" /\ at' = "look" /\ packet' = [addr |-> a, data |-> d] /\ found' = found
    BY DEF Receive
  <2>5. TypeOK'
    <3>1. [addr |-> a, phase |-> "new", queue |-> <<>>]
            \in [addr : Addresses, phase : Phases, queue : Seq(Data)]
      BY DEF Phases
    <3>2. threads' \in [Threads -> [addr : Addresses, phase : Phases, queue : Seq(Data)]]
      BY <2>1, <3>1 DEF Start, TypeOK
    <3>3. clientDataQueues' \in [DOMAIN clientDataQueues' -> Threads]
      BY <2>1, <2>2 DEF Start, TypeOK
    <3> QED
      BY <2>2, <2>4, <3>2, <3>3 DEF TypeOK
  <2>6. OwnEntries'
    <3>1. \A b \in DOMAIN clientDataQueues : clientDataQueues[b] # t
      BY <2>3 DEF OwnEntries
    <3> QED
      BY <2>2, <2>3, <3>1 DEF OwnEntries, TypeOK
  <2>7. LiveRegistered'
    BY <1>2, <2>2, <2>3 DEF LiveRegistered, Live
  <2>8. NewThreadIsFed'
    BY <2>3, <2>4 DEF NewThreadIsFed, OnItsWay
  <2>9. LossOnlyAfterClose'
    BY <2>2, <2>4 DEF LossOnlyAfterClose
  <2> QED
    BY <2>5, <2>6, <2>7, <2>8, <2>9
<1> QED
  BY <1>1, <1>2 DEF Receive, _raise_thread

LEMMA LookUpKeeps == ASSUME ServerInv, LookUp PROVE ServerInv'
<1> USE DEF ServerInv
<1>1. TypeOK' /\ LiveRegistered' /\ OwnEntries'
  BY DEF LookUp, TypeOK, LiveRegistered, OwnEntries, Live
<1>2. NewThreadIsFed'
  <2> SUFFICES ASSUME NEW t \in Threads,
                      threads[t].phase = "new", threads[t].queue = <<>>
               PROVE  OnItsWay(t)'
    BY DEF LookUp, NewThreadIsFed
  <2>1. packet.addr = threads[t].addr
    BY DEF NewThreadIsFed, OnItsWay, LookUp
  <2>2. packet.addr \in DOMAIN clientDataQueues /\ clientDataQueues[packet.addr] = t
    BY <2>1 DEF LiveRegistered, Live
  <2> QED
    BY <2>2 DEF LookUp, OnItsWay
<1>3. LossOnlyAfterClose'
  BY DEF LookUp, LossOnlyAfterClose
<1> QED
  BY <1>1, <1>2, <1>3

LEMMA PutKeeps == ASSUME ServerInv, Put PROVE ServerInv'
<1> USE DEF ServerInv
<1>1. \A t \in Threads :
        /\ threads'[t].addr = threads[t].addr
        /\ threads'[t].phase = threads[t].phase
        /\ t # found => threads'[t] = threads[t]
  BY DEF Put, TypeOK
<1>2. threads'[found].queue = IF Live(found) THEN Append(threads[found].queue, packet.data)
                                             ELSE threads[found].queue
  BY DEF Put, TypeOK
<1>3. threads' \in [Threads -> [addr : Addresses, phase : Phases, queue : Seq(Data)]]
  <2>1. Append(threads[found].queue, packet.data) \in Seq(Data)
    BY DEF TypeOK
  <2> QED
    BY <2>1 DEF Put, TypeOK
<1>4. TypeOK'
  BY <1>3 DEF Put, TypeOK
<1>5. LiveRegistered' /\ OwnEntries'
  BY <1>1 DEF Put, LiveRegistered, OwnEntries, Live, TypeOK
<1>6. NewThreadIsFed'
  <2> SUFFICES ASSUME NEW t \in Threads,
                      threads'[t].phase = "new", threads'[t].queue = <<>>
               PROVE  FALSE
    BY DEF NewThreadIsFed
  <2>1. threads[t].phase = "new"
    BY <1>1
  <2>2. CASE t = found
    <3>1. Live(found) /\ threads[found].queue \in Seq(Data)
      BY <2>1, <2>2 DEF Live, TypeOK
    <3>2. Append(threads[found].queue, packet.data) # <<>>
      BY <3>1, AppendProperties DEF TypeOK
    <3> QED
      BY <1>2, <2>2, <3>1, <3>2
  <2>3. CASE t # found
    BY <1>1, <2>1, <2>3 DEF NewThreadIsFed, OnItsWay, Put
  <2> QED
    BY <2>2, <2>3
<1>7. LossOnlyAfterClose'
  BY DEF Put, LossOnlyAfterClose
<1> QED
  BY <1>4, <1>5, <1>6, <1>7

(* A thread moves on to phase ph and keeps its entry, with queue q. *)
LEMMA MoveKeeps ==
  ASSUME ServerInv, NEW t \in Threads, threads[t].phase \in {"new", "serving"},
         NEW ph \in {"serving", "closing", "ended"}, NEW q \in Seq(Data),
         threads' = [threads EXCEPT ![t].phase = ph, ![t].queue = q],
         UNCHANGED <<clientDataQueues, at, packet, found>>
  PROVE  ServerInv'
<1> USE DEF ServerInv
<1>1. /\ threads'[t] = [addr |-> threads[t].addr, phase |-> ph, queue |-> q]
      /\ \A u \in Threads \ {t} : threads'[u] = threads[u]
      /\ \A u \in Threads : threads'[u].addr = threads[u].addr
  BY DEF TypeOK
<1>2. TypeOK'
  BY DEF TypeOK, Phases
<1>3. LiveRegistered'
  BY <1>1 DEF LiveRegistered, Live
<1>4. OwnEntries'
  BY <1>1 DEF OwnEntries, TypeOK
<1>5. NewThreadIsFed'
  <2> SUFFICES ASSUME NEW u \in Threads,
                      threads'[u].phase = "new", threads'[u].queue = <<>>
               PROVE  OnItsWay(u)'
    BY DEF NewThreadIsFed
  <2>1. u # t
    <3>1. threads'[t].phase = ph /\ ph # "new"
      BY <1>1
    <3> QED
      BY <3>1
  <2>2. OnItsWay(u)
    BY <1>1, <2>1 DEF NewThreadIsFed
  <2> QED
    BY <1>1, <2>2 DEF OnItsWay
<1>6. LossOnlyAfterClose'
  <2> SUFFICES ASSUME at = "look", packet.addr \notin DOMAIN clientDataQueues
               PROVE  /\ \E u \in Threads : threads'[u].addr = packet.addr
                                         /\ threads'[u].phase = "closed"
                      /\ \A u \in Threads : threads'[u].addr = packet.addr => ~Live(u)'
    BY DEF LossOnlyAfterClose
  <2>1. PICK u \in Threads : threads[u].addr = packet.addr /\ threads[u].phase = "closed"
    BY DEF LossOnlyAfterClose
  <2>2. threads[t].addr # packet.addr
    BY DEF LossOnlyAfterClose, Live
  <2> QED
    BY <1>1, <2>1, <2>2 DEF LossOnlyAfterClose, Live
<1> QED
  BY <1>2, <1>3, <1>4, <1>5, <1>6

LEMMA CloseFinKeeps ==
  ASSUME ServerInv, NEW t \in Threads, handle_close_fin(t)
  PROVE  ServerInv'
<1> USE DEF ServerInv
<1> DEFINE a == threads[t].addr
<1>1. /\ threads'[t].phase = "closed" /\ threads'[t].addr = a
      /\ \A u \in Threads \ {t} : threads'[u] = threads[u]
  BY DEF handle_close_fin, TypeOK
<1>2. /\ DOMAIN clientDataQueues' = DOMAIN clientDataQueues \ {a}
      /\ \A b \in DOMAIN clientDataQueues' : clientDataQueues'[b] = clientDataQueues[b]
  BY DEF handle_close_fin, Without
<1>3. a \in DOMAIN clientDataQueues /\ clientDataQueues[a] = t
  BY DEF handle_close_fin, LiveRegistered, Live
<1>4. \A u \in Threads \ {t} : Live(u) => threads[u].addr # a
  BY <1>3 DEF LiveRegistered
<1>5. TypeOK'
  <2>1. <<>> \in Seq(Data) /\ "closed" \in Phases
    BY DEF Phases
  <2>2. threads' \in [Threads -> [addr : Addresses, phase : Phases, queue : Seq(Data)]]
    BY <2>1 DEF handle_close_fin, TypeOK
  <2> QED
    BY <1>2, <2>2 DEF handle_close_fin, Without, TypeOK
<1>6. LiveRegistered'
  BY <1>1, <1>2, <1>4 DEF LiveRegistered, Live
<1>7. OwnEntries'
  <2>1. \A b \in DOMAIN clientDataQueues' : clientDataQueues[b] \in Threads \ {t}
    BY <1>2, <1>3 DEF OwnEntries, TypeOK
  <2> QED
    BY <1>1, <1>2, <2>1 DEF OwnEntries
<1>8. NewThreadIsFed'
  BY <1>1 DEF NewThreadIsFed, OnItsWay, handle_close_fin
<1>9. LossOnlyAfterClose'
  <2> SUFFICES ASSUME at = "look", packet.addr \notin DOMAIN clientDataQueues'
               PROVE  /\ \E u \in Threads : threads'[u].addr = packet.addr
                                         /\ threads'[u].phase = "closed"
                      /\ \A u \in Threads : threads'[u].addr = packet.addr => ~Live(u)'
    BY DEF LossOnlyAfterClose, handle_close_fin
  <2>1. CASE packet.addr = a
    BY <1>1, <1>4, <2>1 DEF Live
  <2>2. CASE packet.addr # a
    <3>1. packet.addr \notin DOMAIN clientDataQueues
      BY <1>2, <2>2
    <3>2. PICK u \in Threads : threads[u].addr = packet.addr /\ threads[u].phase = "closed"
      BY <3>1 DEF LossOnlyAfterClose
    <3>3. threads'[u] = threads[u]
      BY <1>1, <2>2, <3>2
    <3> QED
      BY <1>1, <2>2, <3>1, <3>2, <3>3 DEF LossOnlyAfterClose, Live
  <2> QED
    BY <2>1, <2>2
<1> QED
  BY <1>5, <1>6, <1>7, <1>8, <1>9

LEMMA NextServerInv == ServerInv /\ [Next]_vars => ServerInv'
<1> SUFFICES ASSUME ServerInv, [Next]_vars PROVE ServerInv'
  OBVIOUS
<1>1. ASSUME NEW t \in Threads, Handshake(t) PROVE ServerInv'
  <2>1. PICK ph \in {"serving", "ended"} :
          threads' = [threads EXCEPT ![t].phase = ph,
            ![t].queue = IF ph = "serving" THEN Tail(@) ELSE <<>>]
    BY <1>1 DEF Handshake
  <2> DEFINE q == IF ph = "serving" THEN Tail(threads[t].queue) ELSE <<>>
  <2>2. q \in Seq(Data)
    BY <1>1 DEF Handshake, ServerInv, TypeOK
  <2>3. threads' = [threads EXCEPT ![t].phase = ph, ![t].queue = q]
    BY <2>1
  <2> QED
    BY <1>1, <2>2, <2>3, MoveKeeps DEF Handshake
<1>2. ASSUME NEW t \in Threads, HandlePacket(t) PROVE ServerInv'
  <2>1. PICK ph \in {"serving", "closing", "ended"} :
          threads' = [threads EXCEPT ![t].phase = ph,
            ![t].queue = IF ph = "serving" THEN Tail(@) ELSE <<>>]
    BY <1>2 DEF HandlePacket
  <2> DEFINE q == IF ph = "serving" THEN Tail(threads[t].queue) ELSE <<>>
  <2>2. q \in Seq(Data)
    BY <1>2 DEF HandlePacket, ServerInv, TypeOK
  <2>3. threads' = [threads EXCEPT ![t].phase = ph, ![t].queue = q]
    BY <2>1
  <2> QED
    BY <1>2, <2>2, <2>3, MoveKeeps DEF HandlePacket
<1>3. ASSUME NEW t \in Threads, Inactivity(t) PROVE ServerInv'
  <2>1. threads' = [threads EXCEPT ![t].phase = "ended", ![t].queue = <<>>]
    BY <1>3 DEF Inactivity, ServerInv, TypeOK
  <2>2. <<>> \in Seq(Data)
    OBVIOUS
  <2> QED
    BY <1>3, <2>1, <2>2, MoveKeeps DEF Inactivity
<1>4. CASE UNCHANGED vars
  BY <1>4 DEF vars, ServerInv, TypeOK, LiveRegistered, OwnEntries, NewThreadIsFed,
              LossOnlyAfterClose, Live, OnItsWay
<1> QED
  BY <1>1, <1>2, <1>3, <1>4, ReceiveKeeps, LookUpKeeps, PutKeeps, CloseFinKeeps DEF Next

-----------------------------------------------------------------------------
(* The inductive invariant of the server program.                          *)
THEOREM ServerInvariant == Spec => []ServerInv
BY InitServerInv, NextServerInv, PTL DEF Spec

(* Every variable of the main loop and the threads keeps its type.         *)
THEOREM ServerTypeCorrect == Spec => []TypeOK
<1>1. ServerInv => TypeOK
  BY DEF ServerInv
<1> QED
  BY <1>1, ServerInvariant, PTL

(* No address has two threads, and no thread becomes unreachable, whatever *)
(* the order of starts and deletions.                                      *)
THEOREM ServerLiveRegistered == Spec => []LiveRegistered
<1>1. ServerInv => LiveRegistered
  BY DEF ServerInv
<1> QED
  BY <1>1, ServerInvariant, PTL

(* The packet that starts a thread is never lost.                          *)
THEOREM ServerNewThreadIsFed == Spec => []NewThreadIsFed
<1>1. ServerInv => NewThreadIsFed
  BY DEF ServerInv
<1> QED
  BY <1>1, ServerInvariant, PTL

(* The unlocked look-up loses only packets of sessions that are over.      *)
THEOREM ServerLossOnlyAfterClose == Spec => []LossOnlyAfterClose
<1>1. ServerInv => LossOnlyAfterClose
  BY DEF ServerInv
<1> QED
  BY <1>1, ServerInvariant, PTL

(* No thread deletes the entry of another.                                 *)
THEOREM ServerEntryEndsWithItsThread == Spec => EntryEndsWithItsThread
<1> DEFINE A == \A a \in DOMAIN clientDataQueues :
       \/ a \in DOMAIN clientDataQueues' /\ clientDataQueues'[a] = clientDataQueues[a]
       \/ /\ a \notin DOMAIN clientDataQueues'
          /\ threads[clientDataQueues[a]].phase = "closing"
          /\ threads'[clientDataQueues[a]].phase = "closed"
<1>1. ASSUME ServerInv, [Next]_vars PROVE [A]_vars
  <2>1. ASSUME NEW t \in Threads, handle_close_fin(t) PROVE A
    <3>1. /\ threads[t].addr \in DOMAIN clientDataQueues
          /\ clientDataQueues[threads[t].addr] = t
          /\ threads[t].phase = "closing" /\ threads'[t].phase = "closed"
      BY <1>1, <2>1 DEF handle_close_fin, ServerInv, LiveRegistered, Live, TypeOK
    <3> QED
      BY <2>1, <3>1 DEF handle_close_fin, Without
  <2>2. ASSUME NEW a \in Addresses, NEW d \in Data, Receive(a, d) PROVE A
    BY <2>2 DEF Receive, _raise_thread, Start
  <2>3. CASE LookUp
    BY <2>3 DEF LookUp
  <2>4. CASE Put
    BY <2>4 DEF Put
  <2>5. ASSUME NEW t \in Threads, Handshake(t) \/ HandlePacket(t) \/ Inactivity(t)
        PROVE  A
    BY <2>5 DEF Handshake, HandlePacket, Inactivity
  <2> QED
    BY <1>1, <2>1, <2>2, <2>3, <2>4, <2>5 DEF Next
<1> QED
  BY <1>1, ServerInvariant, PTL DEF Spec, EntryEndsWithItsThread
-----------------------------------------------------------------------------
(* The refinement of Connections.  A step changes the session of one       *)
(* address, or none; then it is enough to say what becomes of that one.    *)
LEMMA OneChanges ==
  ASSUME NEW a \in Addresses, NEW ph, NEW q,
         \A b \in Addresses \ {a} : Sessions'[b] = Sessions[b],
         Sessions'[a] = [phase |-> ph, inbox |-> q]
  PROVE  Promise!Becomes(a, ph, q)
<1>1. /\ DOMAIN Sessions = Addresses /\ DOMAIN Sessions' = Addresses
      /\ Sessions = [b \in Addresses |-> Sessions[b]]
      /\ Sessions' = [b \in Addresses |-> Sessions'[b]]
  BY DEF Sessions
<1> HIDE DEF Sessions
<1>2. Sessions' = [b \in Addresses |->
        IF b = a THEN [phase |-> ph, inbox |-> q] ELSE Sessions[b]]
  BY <1>1
<1>3. [Sessions EXCEPT ![a] = [phase |-> ph, inbox |-> q]] = [b \in Addresses |->
        IF b = a THEN [phase |-> ph, inbox |-> q] ELSE Sessions[b]]
  BY <1>1
<1> QED
  BY <1>2, <1>3 DEF Promise!Becomes, Promise!Session

(* If no session changes, the step is a stutter.                           *)
LEMMA NoneChanges ==
  ASSUME \A b \in Addresses : Sessions'[b] = Sessions[b]
  PROVE  Sessions' = Sessions
  BY DEF Sessions

(* The session of thread t depends on the thread and on what the main loop *)
(* has for it.                                                             *)
LEMMA SameSession ==
  ASSUME NEW t, threads'[t] = threads[t], OnItsWay(t)' <=> OnItsWay(t),
         OnItsWay(t) => packet'.data = packet.data
  PROVE  SessionOf(t)' = SessionOf(t)
  BY DEF SessionOf, InboxOf

(* A packet arrives.                                                       *)
LEMMA ReceiveArrives ==
  ASSUME ServerInv, NEW a \in Addresses, NEW d \in Data, Receive(a, d)
  PROVE  Promise!Arrive(a, d) \/ Sessions' = Sessions
<1> USE DEF ServerInv
<1>1. /\ at = "recv" /\ at' = "look" /\ packet' = [addr |-> a, data |-> d] /\ found' = found
  BY DEF Receive
<1>2. \A t \in Threads : ~OnItsWay(t) /\ (OnItsWay(t)' <=> threads'[t].addr = a)
  BY <1>1 DEF OnItsWay
<1>3. ASSUME NEW b \in Addresses \ {a}, NEW t \in Threads,
             b \in DOMAIN clientDataQueues, clientDataQueues[b] = t,
             b \in DOMAIN clientDataQueues', clientDataQueues'[b] = t,
             threads'[t] = threads[t]
      PROVE  Sessions'[b] = Sessions[b]
  <2>1. threads'[t].addr = b
    BY <1>3 DEF OwnEntries
  <2>2. SessionOf(t)' = SessionOf(t)
    BY <1>2, <1>3, <2>1, SameSession
  <2> QED
    BY <1>3, <2>2 DEF Sessions
<1>4. ASSUME NEW b \in Addresses \ {a}, b \notin DOMAIN clientDataQueues,
             b \notin DOMAIN clientDataQueues'
      PROVE  Sessions'[b] = Sessions[b]
  BY <1>4 DEF Sessions
<1>5. CASE a \in DOMAIN clientDataQueues /\ UNCHANGED <<clientDataQueues, threads>>
  <2>1. \A b \in Addresses \ {a} : Sessions'[b] = Sessions[b]
    BY <1>3, <1>4, <1>5 DEF TypeOK
  <2>0. PICK t \in Threads : t = clientDataQueues[a]
    BY <1>5 DEF TypeOK
  <2>2. /\ threads[t].addr = a /\ threads'[t] = threads[t]
        /\ Sessions[a] = SessionOf(t) /\ Sessions'[a] = SessionOf(t)'
    BY <1>5, <2>0 DEF Sessions, OwnEntries, TypeOK
  <2>3. CASE threads[t].phase \in {"new", "serving"}
    <3>1. /\ Sessions[a] = [phase |-> threads[t].phase, inbox |-> threads[t].queue]
          /\ Sessions'[a] = [phase |-> threads[t].phase,
                             inbox |-> Append(threads[t].queue, d)]
      BY <1>1, <1>2, <2>2, <2>3 DEF SessionOf, InboxOf
    <3>2. /\ Sessions[a].phase = threads[t].phase
          /\ Sessions'[a] = [phase |-> Sessions[a].phase,
                             inbox |-> Append(Sessions[a].inbox, d)]
      BY <3>1
    <3> QED
      BY <2>1, <2>3, <3>2, OneChanges DEF Promise!Arrive
  <2>4. CASE threads[t].phase \notin {"new", "serving"}
    <3>1. Sessions'[a] = Sessions[a]
      BY <2>2, <2>4 DEF SessionOf
    <3> QED
      BY <2>1, <3>1, NoneChanges
  <2> QED
    BY <2>3, <2>4
<1>6. CASE a \notin DOMAIN clientDataQueues /\ \E t \in Threads : Start(a, t)
  <2>1. PICK t \in Threads : Start(a, t)
    BY <1>6
  <2>2. /\ DOMAIN clientDataQueues' = DOMAIN clientDataQueues \cup {a}
        /\ clientDataQueues'[a] = t
        /\ \A b \in DOMAIN clientDataQueues : clientDataQueues'[b] = clientDataQueues[b]
    BY <1>6, <2>1 DEF Start
  <2>3. /\ threads'[t] = [addr |-> a, phase |-> "new", queue |-> <<>>]
        /\ \A u \in Threads \ {t} : threads'[u] = threads[u]
        /\ threads[t].phase \in {"none", "closed"}
    BY <2>1 DEF Start, TypeOK
  <2>4. \A b \in DOMAIN clientDataQueues : clientDataQueues[b] \in Threads \ {t}
    BY <2>3 DEF OwnEntries, TypeOK
  <2>5. \A b \in Addresses \ {a} : Sessions'[b] = Sessions[b]
    BY <1>3, <1>4, <2>2, <2>3, <2>4
  <2>6. Sessions[a].phase = "free"
    BY <1>6 DEF Sessions
  <2>7. Sessions'[a] = [phase |-> "new", inbox |-> Append(<<>>, d)]
    BY <1>1, <1>2, <2>2, <2>3 DEF Sessions, SessionOf, InboxOf
  <2>8. Append(<<>>, d) = <<d>>
    OBVIOUS
  <2> QED
    BY <2>5, <2>6, <2>7, <2>8, OneChanges DEF Promise!Arrive
<1> QED
  BY <1>5, <1>6 DEF Receive, _raise_thread

(* The main loop looks the queue up: the packet stays on its way to the    *)
(* thread it was on its way to.                                            *)
LEMMA LookUpStutters == ASSUME ServerInv, LookUp PROVE Sessions' = Sessions
<1> USE DEF ServerInv
<1>1. UNCHANGED <<clientDataQueues, threads, packet>>
  BY DEF LookUp
<1>2. ASSUME NEW a \in DOMAIN clientDataQueues
      PROVE  OnItsWay(clientDataQueues[a])' <=> OnItsWay(clientDataQueues[a])
  BY <1>1 DEF LookUp, OnItsWay, OwnEntries
<1>3. ASSUME NEW a \in DOMAIN clientDataQueues
      PROVE  SessionOf(clientDataQueues[a])' = SessionOf(clientDataQueues[a])
  BY <1>1, <1>2 DEF SessionOf, InboxOf
<1> QED
  BY <1>1, <1>3 DEF Sessions

(* The packet joins the queue behind which it was counted.                 *)
LEMMA PutStutters == ASSUME ServerInv, Put PROVE Sessions' = Sessions
<1> USE DEF ServerInv
<1>1. /\ at = "put" /\ at' = "recv" /\ UNCHANGED <<clientDataQueues, packet, found>>
  BY DEF Put
<1>2. ASSUME NEW t \in Threads PROVE SessionOf(t)' = SessionOf(t)
  <2>1. /\ (OnItsWay(t) <=> t = found) /\ ~OnItsWay(t)'
    BY <1>1 DEF OnItsWay
  <2>2. CASE t # found
    BY <1>2, <2>1, <2>2, SameSession DEF Put, TypeOK
  <2>3. CASE t = found /\ ~Live(t)
    BY <2>3 DEF Put, TypeOK, SessionOf, Live
  <2>4. CASE t = found /\ Live(t)
    <3>1. /\ threads'[t].phase = threads[t].phase
          /\ threads'[t].queue = Append(threads[t].queue, packet.data)
      BY <2>4 DEF Put, TypeOK
    <3> QED
      BY <2>1, <2>4, <3>1 DEF SessionOf, InboxOf
  <2> QED
    BY <2>2, <2>3, <2>4
<1>3. \A a \in DOMAIN clientDataQueues : clientDataQueues[a] \in Threads
  BY DEF TypeOK
<1> QED
  BY <1>1, <1>2, <1>3 DEF Sessions

(* A thread that moves on changes the session of its own address.          *)
LEMMA MoveChangesOne ==
  ASSUME ServerInv, NEW t \in Threads, threads[t].phase \in {"new", "serving"},
         NEW ph \in {"serving", "closing", "ended"}, NEW q \in Seq(Data),
         threads' = [threads EXCEPT ![t].phase = ph, ![t].queue = q],
         UNCHANGED <<clientDataQueues, at, packet, found>>
  PROVE  /\ \A b \in Addresses \ {threads[t].addr} : Sessions'[b] = Sessions[b]
         /\ threads[t].addr \in Addresses
         /\ Sessions[threads[t].addr] = [phase |-> threads[t].phase, inbox |-> InboxOf(t)]
         /\ Sessions'[threads[t].addr] =
              IF ph = "serving"
                THEN [phase |-> "serving",
                      inbox |-> IF OnItsWay(t) THEN Append(q, packet.data) ELSE q]
                ELSE [phase |-> IF ph = "closing" THEN "closing" ELSE "lost", inbox |-> <<>>]
<1> USE DEF ServerInv
<1> DEFINE a == threads[t].addr
<1>1. /\ threads'[t] = [addr |-> a, phase |-> ph, queue |-> q]
      /\ \A u \in Threads \ {t} : threads'[u] = threads[u]
  BY DEF TypeOK
<1>2. a \in DOMAIN clientDataQueues /\ clientDataQueues[a] = t /\ a \in Addresses
  BY DEF LiveRegistered, Live, TypeOK
<1>3. \A u \in Threads : OnItsWay(u)' <=> OnItsWay(u)
  <2>1. \A u \in Threads : threads'[u].addr = threads[u].addr
    BY DEF TypeOK
  <2> QED
    BY <2>1 DEF OnItsWay
<1>4. ASSUME NEW b \in Addresses \ {a} PROVE Sessions'[b] = Sessions[b]
  <2>1. CASE b \in DOMAIN clientDataQueues
    <3>1. clientDataQueues[b] \in Threads \ {t}
      BY <2>1 DEF OwnEntries, TypeOK
    <3>2. SessionOf(clientDataQueues[b])' = SessionOf(clientDataQueues[b])
      BY <1>1, <1>3, <3>1 DEF SessionOf, InboxOf
    <3> QED
      BY <2>1, <3>2 DEF Sessions
  <2>2. CASE b \notin DOMAIN clientDataQueues
    BY <2>2 DEF Sessions
  <2> QED
    BY <2>1, <2>2
<1>5. Sessions[a] = SessionOf(t) /\ Sessions'[a] = SessionOf(t)'
  BY <1>2 DEF Sessions
<1>6. Sessions[a] = [phase |-> threads[t].phase, inbox |-> InboxOf(t)]
  BY <1>5 DEF SessionOf
<1>7. Sessions'[a] =
        IF ph = "serving"
          THEN [phase |-> "serving",
                inbox |-> IF OnItsWay(t) THEN Append(q, packet.data) ELSE q]
          ELSE [phase |-> IF ph = "closing" THEN "closing" ELSE "lost", inbox |-> <<>>]
  <2>1. threads'[t].phase = ph /\ threads'[t].queue = q /\ packet' = packet
    BY <1>1
  <2>2. CASE ph = "serving"
    BY <1>3, <1>5, <2>1, <2>2 DEF SessionOf, InboxOf
  <2>3. CASE ph # "serving"
    BY <1>5, <2>1, <2>3 DEF SessionOf
  <2> QED
    BY <2>2, <2>3
<1> QED
  BY <1>2, <1>4, <1>6, <1>7

(* What a thread takes from its queue is the oldest packet of its inbox.   *)
LEMMA OldestOfInbox ==
  ASSUME ServerInv, NEW t \in Threads, threads[t].queue # <<>>
  PROVE  /\ InboxOf(t) # <<>>
         /\ Head(InboxOf(t)) = Head(threads[t].queue)
         /\ Tail(InboxOf(t)) = IF OnItsWay(t) THEN Append(Tail(threads[t].queue), packet.data)
                                             ELSE Tail(threads[t].queue)
         /\ Tail(threads[t].queue) \in Seq(Data)
<1> DEFINE q == threads[t].queue
<1>1. q \in Seq(Data) /\ q # <<>> /\ packet.data \in Data
  BY DEF ServerInv, TypeOK
<1> HIDE DEF q
<1>2. /\ Head(Append(q, packet.data)) = Head(q)
      /\ Tail(Append(q, packet.data)) = Append(Tail(q), packet.data)
      /\ Append(q, packet.data) # <<>>
      /\ Tail(q) \in Seq(Data)
  BY <1>1, HeadTailAppend, AppendProperties, HeadTailProperties
<1>3. InboxOf(t) = IF OnItsWay(t) THEN Append(q, packet.data) ELSE q
  BY DEF InboxOf, q
<1> QED
  BY <1>1, <1>2, <1>3 DEF q

(* Each step of a thread is one of its session.                            *)
LEMMA ThreadImplements ==
  ASSUME ServerInv, NEW t \in Threads,
         Handshake(t) \/ HandlePacket(t) \/ handle_close_fin(t) \/ Inactivity(t)
  PROVE  Promise!Next
<1> USE DEF ServerInv
<1> DEFINE a == threads[t].addr
<1>1. CASE Handshake(t)
  <2>1. PICK ph \in {"serving", "ended"} :
          /\ threads' = [threads EXCEPT ![t].phase = ph,
               ![t].queue = IF ph = "serving" THEN Tail(@) ELSE <<>>]
          /\ ph = "serving" => Head(threads[t].queue) = "SYN"
    BY <1>1 DEF Handshake
  <2> DEFINE q == IF ph = "serving" THEN Tail(threads[t].queue) ELSE <<>>
  <2>2. threads[t].phase = "new" /\ threads[t].queue # <<>>
    BY <1>1 DEF Handshake
  <2>3. q \in Seq(Data) /\ threads' = [threads EXCEPT ![t].phase = ph, ![t].queue = q]
    BY <2>1, <2>2, OldestOfInbox
  <2>4. /\ \A b \in Addresses \ {a} : Sessions'[b] = Sessions[b]
        /\ a \in Addresses
        /\ Sessions[a] = [phase |-> "new", inbox |-> InboxOf(t)]
        /\ Sessions'[a] = IF ph = "serving"
             THEN [phase |-> "serving",
                   inbox |-> IF OnItsWay(t) THEN Append(q, packet.data) ELSE q]
             ELSE [phase |-> "lost", inbox |-> <<>>]
    BY <1>1, <2>2, <2>3, MoveChangesOne DEF Handshake
  <2>5. CASE ph = "serving"
    <3>1. Sessions'[a] = [phase |-> "serving", inbox |-> Tail(InboxOf(t))]
      BY <2>2, <2>4, <2>5, OldestOfInbox
    <3>2. Head(InboxOf(t)) = "SYN" /\ InboxOf(t) # <<>>
      BY <2>1, <2>2, <2>5, OldestOfInbox
    <3> DEFINE rest == Tail(InboxOf(t))
    <3>3. Sessions'[a] = [phase |-> "serving", inbox |-> rest]
      BY <3>1
    <3> HIDE DEF rest
    <3>4. Promise!Becomes(a, "serving", rest)
      BY <2>4, <3>3, OneChanges
    <3>5. Sessions[a].phase = "new" /\ Sessions[a].inbox = InboxOf(t)
      BY <2>4
    <3> QED
      BY <2>4, <3>2, <3>4, <3>5 DEF Promise!Handle, Promise!Next, rest
  <2>6. CASE ph = "ended"
    <3>1. InboxOf(t) # <<>>
      BY <2>2, OldestOfInbox
    <3> QED
      BY <2>4, <2>6, <3>1, OneChanges DEF Promise!Handle, Promise!Next
  <2> QED
    BY <2>5, <2>6
<1>2. CASE HandlePacket(t)
  <2>1. PICK ph \in {"serving", "closing", "ended"} :
          /\ threads' = [threads EXCEPT ![t].phase = ph,
               ![t].queue = IF ph = "serving" THEN Tail(@) ELSE <<>>]
          /\ (ph = "closing") <=> (Head(threads[t].queue) = "CLOSE_ACK")
    BY <1>2 DEF HandlePacket
  <2> DEFINE q == IF ph = "serving" THEN Tail(threads[t].queue) ELSE <<>>
  <2>2. threads[t].phase = "serving" /\ threads[t].queue # <<>>
    BY <1>2 DEF HandlePacket
  <2>3. q \in Seq(Data) /\ threads' = [threads EXCEPT ![t].phase = ph, ![t].queue = q]
    BY <2>1, <2>2, OldestOfInbox
  <2>4. /\ \A b \in Addresses \ {a} : Sessions'[b] = Sessions[b]
        /\ a \in Addresses
        /\ Sessions[a] = [phase |-> "serving", inbox |-> InboxOf(t)]
        /\ Sessions'[a] = IF ph = "serving"
             THEN [phase |-> "serving",
                   inbox |-> IF OnItsWay(t) THEN Append(q, packet.data) ELSE q]
             ELSE [phase |-> IF ph = "closing" THEN "closing" ELSE "lost", inbox |-> <<>>]
    BY <1>2, <2>2, <2>3, MoveChangesOne DEF HandlePacket
  <2>5. InboxOf(t) # <<>> /\ Head(InboxOf(t)) = Head(threads[t].queue)
    BY <2>2, OldestOfInbox
  <2>6. CASE ph = "serving"
    <3>1. Sessions'[a] = [phase |-> "serving", inbox |-> Tail(InboxOf(t))]
      BY <2>2, <2>4, <2>6, OldestOfInbox
    <3>2. Head(InboxOf(t)) # "CLOSE_ACK"
      BY <2>1, <2>5, <2>6
    <3> DEFINE rest == Tail(InboxOf(t))
    <3>3. Sessions'[a] = [phase |-> "serving", inbox |-> rest]
      BY <3>1
    <3> HIDE DEF rest
    <3>4. Promise!Becomes(a, "serving", rest)
      BY <2>4, <3>3, OneChanges
    <3>5. Sessions[a].phase = "serving" /\ Sessions[a].inbox = InboxOf(t)
      BY <2>4
    <3> QED
      BY <2>4, <2>5, <3>2, <3>4, <3>5 DEF Promise!Handle, Promise!Next, rest
  <2>7. CASE ph = "closing"
    BY <2>1, <2>4, <2>5, <2>7, OneChanges DEF Promise!Handle, Promise!Next
  <2>8. CASE ph = "ended"
    BY <2>1, <2>4, <2>5, <2>8, OneChanges DEF Promise!Handle, Promise!Next
  <2> QED
    BY <2>6, <2>7, <2>8
<1>3. CASE handle_close_fin(t)
  <2>1. /\ a \in DOMAIN clientDataQueues /\ clientDataQueues[a] = t /\ a \in Addresses
        /\ threads[t].phase = "closing"
    BY <1>3 DEF handle_close_fin, LiveRegistered, Live, TypeOK
  <2>2. /\ DOMAIN clientDataQueues' = DOMAIN clientDataQueues \ {a}
        /\ \A b \in DOMAIN clientDataQueues' : clientDataQueues'[b] = clientDataQueues[b]
    BY <1>3 DEF handle_close_fin, Without
  <2>3. \A u \in Threads \ {t} : threads'[u] = threads[u] /\ (OnItsWay(u)' <=> OnItsWay(u))
    BY <1>3 DEF handle_close_fin, TypeOK, OnItsWay
  <2>4. ASSUME NEW b \in Addresses \ {a} PROVE Sessions'[b] = Sessions[b]
    <3>1. CASE b \in DOMAIN clientDataQueues
      <4>1. PICK u \in Threads \ {t} : u = clientDataQueues[b]
        BY <2>1, <3>1 DEF OwnEntries, TypeOK
      <4>2. SessionOf(u)' = SessionOf(u)
        BY <1>3, <2>3, <4>1, SameSession DEF handle_close_fin
      <4> QED
        BY <2>2, <3>1, <4>1, <4>2 DEF Sessions
    <3>2. CASE b \notin DOMAIN clientDataQueues
      BY <2>2, <3>2 DEF Sessions
    <3> QED
      BY <3>1, <3>2
  <2>5. Sessions'[a] = [phase |-> "free", inbox |-> <<>>] /\ Sessions[a].phase = "closing"
    BY <2>1, <2>2 DEF Sessions, SessionOf
  <2> QED
    BY <2>1, <2>4, <2>5, OneChanges DEF Promise!Release, Promise!Next
<1>4. CASE Inactivity(t)
  <2>1. /\ threads[t].phase \in {"new", "serving"}
        /\ threads[t].queue = <<>>
        /\ threads[t].phase = "new" => ~OnItsWay(t)
    BY <1>4 DEF Inactivity
  <2>2. threads[t].phase = "serving"
    BY <2>1 DEF NewThreadIsFed
  <2>3. threads' = [threads EXCEPT ![t].phase = "ended", ![t].queue = <<>>]
    BY <1>4, <2>1 DEF Inactivity, TypeOK
  <2>4. <<>> \in Seq(Data)
    OBVIOUS
  <2>5. /\ \A b \in Addresses \ {a} : Sessions'[b] = Sessions[b]
        /\ a \in Addresses
        /\ Sessions[a] = [phase |-> "serving", inbox |-> InboxOf(t)]
        /\ Sessions'[a] = [phase |-> "lost", inbox |-> <<>>]
    BY <1>4, <2>1, <2>2, <2>3, <2>4, MoveChangesOne DEF Inactivity
  <2>6. Len(InboxOf(t)) =< 1
    BY <2>1 DEF InboxOf, ServerInv, TypeOK
  <2> QED
    BY <2>5, <2>6, OneChanges DEF Promise!Expire, Promise!Next
<1> QED
  BY <1>1, <1>2, <1>3, <1>4

(* The server implements Connections: whatever the order of the look-ups,  *)
(* the deletions and the starts of threads, each packet that arrives for a *)
(* session is handled by it, once and in turn, save one that arrives as it *)
(* ends for inactivity (Server.start, handle_client, handle_close_fin).    *)
THEOREM ServerImplementsConnections == Spec => ImplementsConnections
<1>1. Init => Promise!Init
  BY DEF Init, Promise!Init, Promise!Free, Promise!Session, Sessions
<1>2. ASSUME ServerInv, [Next]_vars PROVE [Promise!Next]_Sessions
  <2>1. ASSUME NEW a \in Addresses, NEW d \in Data, Receive(a, d)
        PROVE  [Promise!Next]_Sessions
    BY <1>2, <2>1, ReceiveArrives DEF Promise!Next
  <2>2. CASE UNCHANGED vars
    BY <2>2 DEF vars, Sessions, SessionOf, InboxOf, OnItsWay
  <2> QED
    BY <1>2, <2>1, <2>2, LookUpStutters, PutStutters, ThreadImplements DEF Next
<1> QED
  BY <1>1, <1>2, ServerInvariant, PTL DEF Spec, ImplementsConnections, Promise!Spec
=============================================================================
