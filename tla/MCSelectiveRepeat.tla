-------------------------- MODULE MCSelectiveRepeat -------------------------
(* The constants of the runs of SelectiveRepeat. *)
EXTENDS SelectiveRepeat

MCSizes == 0..4
MCLiveSizes == {0, 2}  \* an empty file, and one of several packets
=============================================================================
