---------------------------- MODULE FileTransfer ----------------------------
(***************************************************************************)
(* What a transfer promises its user, whatever the protocol underneath: a  *)
(* file of `size` chunks is copied chunk by chunk, in order and without    *)
(* gaps, and the client program only reports the transfer as finished when *)
(* the copy is complete.  Nothing is said about how long it takes, and the *)
(* transfer may stop half-way.  SelectiveRepeat and, through it,           *)
(* StopAndWait are shown to implement this module.                         *)
(***************************************************************************)
EXTENDS Naturals, Sequences

CONSTANT Sizes    \* the file sizes, in chunks of PAYLOAD_SIZE bytes

VARIABLES
  size,           \* number of chunks of the file being copied
  copy,           \* the chunks written by the receiving end, oldest first
  finished        \* the client program has left its transfer loop

vars == <<size, copy, finished>>

(* The first n chunks of a file, in order; a chunk is named by its index.  *)
Chunks(n) == [i \in 1..n |-> i]

Init ==
  /\ size \in Sizes
  /\ copy = <<>>
  /\ finished = FALSE

(* The receiver appends the next chunks of the file, at least one of them. *)
Deliver ==
  /\ ~finished
  /\ \E n \in (Len(copy) + 1)..size : copy' = Chunks(n)
  /\ UNCHANGED <<size, finished>>

(* The client reports success. *)
Finish ==
  /\ ~finished
  /\ Len(copy) = size
  /\ finished' = TRUE
  /\ UNCHANGED <<size, copy>>

Next == Deliver \/ Finish

Spec == Init /\ [][Next]_vars
=============================================================================
