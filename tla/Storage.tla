------------------------------ MODULE Storage -------------------------------
(***************************************************************************)
(* One stored file of the server of tp1, and the server threads that hold  *)
(* it open: each has a FileHandler of its own (common/file_handling.py),   *)
(* and they know nothing of each other.  Files of different names do not   *)
(* meet, so one name is enough.                                            *)
(*                                                                         *)
(* What is written stays in the buffer of the file object until the buffer *)
(* is full or the file is closed; what is read comes from a buffer too,    *)
(* filled ahead.  The protocols are abstracted to their promise, the       *)
(* module FileTransfer: chunks are handed over in order, one at a time.    *)
(***************************************************************************)
EXTENDS Naturals, Sequences

CONSTANTS
  Uploads, Downloads,   \* the threads, by what they do
  Lengths,              \* sizes of the uploaded files, in chunks
  BUFFER                \* chunks that a buffer holds

ASSUME StorageAssumption ==
  /\ Uploads \cap Downloads = {}
  /\ Lengths \subseteq Nat
  /\ BUFFER \in Nat \ {0}

VARIABLES
  exists,   \* there is a file of that name
  disk,     \* its chunks
  length,   \* upload -> size of the file its client sends
  file,     \* thread -> [phase, pos, buf]: its file object, with the
            \* position of the system's file and the chunks in its buffer
  got,      \* download -> the chunks read and sent
  latest,   \* history: the upload that opened the file last, as a set
  overlap   \* history: the threads that had the file open while the upload
            \* of another thread had it open

vars == <<exists, disk, length, file, got, latest, overlap>>

Threads == Uploads \cup Downloads

(* none: not opened yet; open; answered: CLOSE_ACK sent, file still open;  *)
(* empty: read() returned nothing; closed: the session ended well; failed: *)
(* the thread ended by inactivity or an exception; stalled: nothing will   *)
(* arrive at the thread any more.                                          *)
Phases == {"none", "open", "answered", "empty", "closed", "failed", "stalled"}
IsOpen(t) == file[t].phase \in {"open", "answered", "empty"}

(* The chunks of upload t, and those of a hole that a write past the end   *)
(* of the file leaves.                                                     *)
Chunk(t, i) == [of |-> t, at |-> i]
Content(t) == [i \in 1..length[t] |-> Chunk(t, i)]
Hole == [of |-> "hole", at |-> 0]

Init ==
  /\ exists = FALSE
  /\ disk = <<>>
  /\ length \in [Uploads -> Lengths]
  /\ file = [t \in Threads |-> [phase |-> "none", pos |-> 0, buf |-> <<>>]]
  /\ got = [t \in Downloads |-> <<>>]
  /\ latest = {}
  /\ overlap = {}

(* Thread t opens the file; downloads do not disturb anybody. *)
Opened(t) ==
  LET others  == {u \in Threads \ {t} : IsOpen(u)}
      writing == others \cap Uploads # {}
  IN  overlap' = overlap \cup (IF writing THEN {t} ELSE {})
                         \cup (IF t \in Uploads THEN others ELSE {})

-----------------------------------------------------------------------------
(* Uploads.                                                                *)

(* Mutant of create_file: the old content stays. *)
create_file_keeps(t) ==
  /\ file[t].phase = "none"
  /\ exists' = TRUE
  /\ file' = [file EXCEPT ![t].phase = "open"]
  /\ latest' = {t}
  /\ Opened(t)
  /\ UNCHANGED <<disk, length, got>>

(* create_file, open_for_write: mode "wb" empties the file at once. *)
create_file(t) ==
  /\ file[t].phase = "none"
  /\ exists' = TRUE
  /\ disk' = <<>>
  /\ file' = [file EXCEPT ![t].phase = "open"]
  /\ latest' = {t}
  /\ Opened(t)
  /\ UNCHANGED <<length, got>>

(* Mutant of Flushed: written at the end of the file (mode "ab"). *)
FlushedAtEnd(t) == disk \o file[t].buf

(* The content of the disk when the buffer of t goes to its position. *)
Flushed(t) ==
  LET p == file[t].pos
      b == file[t].buf
      n == IF b # <<>> /\ p + Len(b) > Len(disk) THEN p + Len(b) ELSE Len(disk)
  IN  [i \in 1..n |-> IF i \in (p + 1)..(p + Len(b)) THEN b[i - p]
                      ELSE IF i <= Len(disk) THEN disk[i] ELSE Hole]

(* write: a full buffer goes to the disk first. *)
write(t) ==
  LET f == file[t]
      c == Chunk(t, f.pos + Len(f.buf) + 1)
  IN  /\ f.phase = "open"
      /\ f.pos + Len(f.buf) < length[t]
      /\ IF Len(f.buf) < BUFFER
           THEN file' = [file EXCEPT ![t].buf = Append(@, c)] /\ UNCHANGED disk
           ELSE /\ file' = [file EXCEPT ![t].buf = <<c>>, ![t].pos = @ + Len(f.buf)]
                /\ disk' = Flushed(t)
      /\ UNCHANGED <<exists, length, got, latest, overlap>>

(* _handle_close, first half: the CLOSE of a client that has sent all its  *)
(* chunks is answered ...                                                  *)
AnswerClose(t) ==
  /\ file[t].phase = "open"
  /\ file[t].pos + Len(file[t].buf) = length[t]
  /\ file' = [file EXCEPT ![t].phase = "answered"]
  /\ UNCHANGED <<exists, disk, length, got, latest, overlap>>

(* The file object of t goes, and its buffer is written. *)
Release(t, phase) ==
  /\ disk' = Flushed(t)
  /\ file' = [file EXCEPT ![t] =
       [phase |-> phase, pos |-> @.pos + Len(@.buf), buf |-> <<>>]]
  /\ UNCHANGED <<exists, length, got, latest, overlap>>

(* ... and second half: the file is closed. *)
close(t) == file[t].phase = "answered" /\ Release(t, "closed")

(* The thread of an upload ends otherwise; its file object goes with it.   *)
Fail(t) == file[t].phase = "open" /\ Release(t, "failed")

-----------------------------------------------------------------------------
(* Downloads.                                                              *)

(* open_for_read: without a file, FileNotFoundError ends the thread. *)
open_for_read(t) ==
  /\ file[t].phase = "none"
  /\ file' = [file EXCEPT ![t].phase = IF exists THEN "open" ELSE "failed"]
  /\ IF exists THEN Opened(t) ELSE UNCHANGED overlap
  /\ UNCHANGED <<exists, disk, length, got, latest>>

(* Mutant of Ahead: the position of the file is not looked at. *)
AheadFromStart(t, n) == SubSeq(disk, 1, n)

(* What n chunks in one read of the system are. *)
Ahead(t, n) == SubSeq(disk, file[t].pos + 1, file[t].pos + n)

(* read: the next chunk, from the buffer, or from the disk with some of    *)
(* the chunks after it ...                                                 *)
read(t) ==
  /\ file[t].phase = "open"
  /\ UNCHANGED <<exists, disk, length, latest, overlap>>
  /\ \/ /\ file[t].buf # <<>>
        /\ got' = [got EXCEPT ![t] = Append(@, Head(file[t].buf))]
        /\ file' = [file EXCEPT ![t].buf = Tail(@)]
     \/ /\ file[t].buf = <<>>
        /\ \E n \in 1..BUFFER :
             /\ file[t].pos + n =< Len(disk)
             /\ got' = [got EXCEPT ![t] = Append(@, Head(Ahead(t, n)))]
             /\ file' = [file EXCEPT ![t].buf = Tail(Ahead(t, n)), ![t].pos = @ + n]

(* ... or nothing, when neither has a chunk left. *)
ReadNothing(t) ==
  /\ file[t].phase = "open"
  /\ file[t].buf = <<>> /\ file[t].pos >= Len(disk)
  /\ file' = [file EXCEPT ![t].phase = "empty"]
  /\ UNCHANGED <<exists, disk, length, got, latest, overlap>>

(* Mutant of eof: one chunk too far. *)
eof_past(t) == file[t].pos - Len(file[t].buf) > Len(disk)

(* eof: tell() >= size(), the size on the disk at this moment. *)
eof(t) == file[t].pos - Len(file[t].buf) >= Len(disk)

(* The end of _handle_ack.  As long as packets are outstanding, another    *)
(* ACK will come.  When none is, the FIN is sent, if the file is at eof;   *)
(* if it is not, nothing was sent that could be answered.                  *)
CheckEof(t) ==
  /\ file[t].phase = "empty"
  /\ \E ph \in {"open", IF eof(t) THEN "closed" ELSE "stalled"} :
       file' = [file EXCEPT ![t].phase = ph]
  /\ UNCHANGED <<exists, disk, length, got, latest, overlap>>

Next ==
  \/ \E t \in Uploads :
       create_file(t) \/ write(t) \/ AnswerClose(t) \/ close(t) \/ Fail(t)
  \/ \E t \in Downloads : open_for_read(t) \/ read(t) \/ ReadNothing(t) \/ CheckEof(t)

Spec == Init /\ [][Next]_vars

-----------------------------------------------------------------------------
(* Types; no buffer holds more than BUFFER chunks. *)
TypeOK ==
  /\ exists \in BOOLEAN
  /\ length \in [Uploads -> Lengths]
  /\ \A t \in Threads :
       /\ file[t].phase \in Phases
       /\ file[t].pos \in Nat
       /\ Len(file[t].buf) =< BUFFER
  /\ latest \subseteq Uploads
  /\ overlap \subseteq Threads

Place(i) == {Hole} \cup {Chunk(t, i) : t \in Uploads}
InPlace(s) == \A i \in DOMAIN s : s[i] \in Place(i)

(* No thread stores or reads a chunk anywhere but in its place in its      *)
(* file, whatever the others do: the file is truncated under a writer that *)
(* goes on at its own position, and grows under a reader.                  *)
ChunksInPlace == InPlace(disk) /\ \A t \in Downloads : InPlace(got[t])

(* What is stored is the last upload, if nobody else wrote meanwhile:      *)
(* nothing is left of a longer file it replaced, or of a failed one.       *)
LoneUploadStored ==
  \A t \in latest \ overlap : file[t].phase = "closed" => disk = Content(t)

(* A download that no upload met sends the whole stored file. *)
LoneDownloadWhole ==
  [][\A t \in Downloads \ overlap :
       file'[t].phase = "closed" /\ file[t].phase # "closed" => got[t] = disk]_vars

(* A download that no upload met never runs dry: the read that finds the   *)
(* end of the file and the test for eof after it agree, so that the FIN is *)
(* sent and no thread waits for an ACK of nothing.                         *)
LoneDownloadGoesOn == \A d \in Downloads \ overlap : file[d].phase # "stalled"
=============================================================================
