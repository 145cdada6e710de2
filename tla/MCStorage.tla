------------------------------ MODULE MCStorage -----------------------------
(* The constants of the runs of Storage. *)
EXTENDS Storage

MCUploads == {"u1", "u2"}
MCDownloads == {"d1"}
MCLengths == {0, 2, 3}   \* empty, and two of different numbers of buffers
=============================================================================
