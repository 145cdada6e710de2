---------------------------- MODULE MCStopAndWait ---------------------------
(* The constants of the runs of StopAndWait. *)
EXTENDS StopAndWait

MCSizes == 0..4
=============================================================================
