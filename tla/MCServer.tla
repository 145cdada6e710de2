------------------------------ MODULE MCServer ------------------------------
(* The constants of the runs of Server. *)
EXTENDS Server

CONSTANTS t1, t2, t3
MCAddresses == {"c1", "c2"}
MCThreads == {t1, t2, t3}
MCLiveThreads == {t1, t2}
=============================================================================
