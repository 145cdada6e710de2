---------------------------- MODULE StorageProofs ---------------------------
(***************************************************************************)
(* Theorems about Storage, for any threads, sizes and buffer.              *)
(***************************************************************************)
EXTENDS Storage, SequenceTheorems, TLAPS

Chunks == {Hole} \cup {Chunk(t, i) : t \in Uploads, i \in Nat}
Files == [phase : Phases, pos : Nat, buf : Seq(Chunks)]

TypeInv ==
  /\ exists \in BOOLEAN
  /\ disk \in Seq(Chunks)
  /\ length \in [Uploads -> Lengths]
  /\ file \in [Threads -> Files]
  /\ \A t \in Threads : Len(file[t].buf) =< BUFFER
  /\ got \in [Downloads -> Seq(Chunks)]
  /\ latest \subseteq Uploads
  /\ overlap \subseteq Threads

(* Phases of either kind of thread; what a thread has before it begins.    *)
PhaseInv ==
  /\ \A t \in Uploads : file[t].phase \in {"none", "open", "answered", "closed", "failed"}
  /\ \A d \in Downloads : file[d].phase \notin {"answered"}
  /\ \A t \in Threads : file[t].phase = "none" => file[t].pos = 0 /\ file[t].buf = <<>>
  /\ \A d \in Downloads : file[d].phase = "none" => got[d] = <<>>

(* The buffer of an upload continues what it wrote, and that of a download *)
(* what it sent.                                                           *)
Continues(t) ==
  \A k \in 1..Len(file[t].buf) : file[t].buf[k] = Chunk(t, file[t].pos + k)
Sent(d) == file[d].pos - Len(file[d].buf)
AheadInPlace(d) ==
  /\ Len(got[d]) = Sent(d)
  /\ \A k \in 1..Len(file[d].buf) : file[d].buf[k] \in Place(Sent(d) + k)

PlaceInv ==
  /\ \A t \in Uploads : Continues(t)
  /\ \A d \in Downloads : AheadInPlace(d)
  /\ ChunksInPlace

(* What the upload that opened the file last has made of it, when it is    *)
(* not disturbed.                                                          *)
Holds(t, n) == Len(disk) = n /\ \A i \in 1..n : disk[i] = Chunk(t, i)
LoneUpload(t) ==
  /\ \A u \in Uploads \ {t} : ~IsOpen(u)
  /\ file[t].phase \in {"open", "answered"} => Holds(t, file[t].pos)
  /\ file[t].phase = "answered" => file[t].pos + Len(file[t].buf) = length[t]
  /\ file[t].phase = "closed" => Holds(t, length[t])

(* What an undisturbed download has read. *)
LoneDownload(d) ==
  file[d].phase \in {"open", "empty"} =>
    /\ \A u \in Uploads : ~IsOpen(u)
    /\ file[d].pos =< Len(disk)
    /\ \A k \in 1..Len(got[d]) : got[d][k] = disk[k]
    /\ \A k \in 1..Len(file[d].buf) : file[d].buf[k] = disk[Sent(d) + k]

LoneInv ==
  /\ \A t \in latest \ overlap : LoneUpload(t)
  /\ \A d \in Downloads \ overlap : LoneDownload(d)

StorageInv == TypeInv /\ PhaseInv /\ PlaceInv /\ LoneInv

-----------------------------------------------------------------------------
(* Lemmas on chunks and sequences.                                         *)

LEMMA ChunkInPlace ==
  ASSUME NEW i \in Nat
  PROVE  /\ Place(i) \subseteq Chunks
         /\ \A t \in Uploads : Chunk(t, i) \in Place(i)
         /\ Hole \in Place(i)
  BY DEF Place, Chunks

(* Appending to, and taking the head and the tail of, a sequence.          *)
LEMMA AppendFacts ==
  ASSUME NEW S, NEW s \in Seq(S), NEW e \in S
  PROVE  /\ Append(s, e) \in Seq(S)
         /\ Len(Append(s, e)) = Len(s) + 1
         /\ \A i \in 1..Len(s) : Append(s, e)[i] = s[i]
         /\ Append(s, e)[Len(s) + 1] = e
  OBVIOUS

LEMMA TailFacts ==
  ASSUME NEW S, NEW s \in Seq(S), s # <<>>
  PROVE  /\ Head(s) = s[1] /\ Head(s) \in S
         /\ Tail(s) \in Seq(S)
         /\ Len(Tail(s)) = Len(s) - 1 /\ Len(s) >= 1
         /\ \A i \in 1..(Len(s) - 1) : Tail(s)[i] = s[i + 1]
  OBVIOUS

(* What the system returns for n chunks.                                   *)
LEMMA AheadFacts ==
  ASSUME TypeInv, NEW d \in Downloads, NEW n \in Nat, file[d].pos + n =< Len(disk)
  PROVE  /\ Ahead(d, n) \in Seq(Chunks)
         /\ Len(Ahead(d, n)) = n
         /\ \A k \in 1..n : Ahead(d, n)[k] = disk[file[d].pos + k]
  <1>1. file[d].pos \in Nat /\ disk \in Seq(Chunks)
    BY DEF TypeInv, Files, Threads
  <1>2. \A i \in (file[d].pos + 1)..(file[d].pos + n) : disk[i] \in Chunks
    BY <1>1
  <1> DEFINE m == file[d].pos + 1
             e == file[d].pos + n
             A == SubSeq(disk, m, e)
  <1>3. m \in Int /\ e \in Int /\ e - m + 1 = n /\ (IF m =< e THEN e - m + 1 ELSE 0) = n
    BY <1>1
  <1>4. \A k \in 1..n : m + k - 1 = file[d].pos + k
    BY <1>1
  <1>5. /\ A \in Seq(Chunks)
        /\ Len(A) = IF m =< e THEN e - m + 1 ELSE 0
        /\ \A k \in 1..(e - m + 1) : A[k] = disk[m + k - 1]
    <2> HIDE DEF m, e
    <2> QED BY <1>2, <1>3, SubSeqProperties DEF m, e
  <1>6. \A k \in 1..n : A[k] = disk[file[d].pos + k]
    <2> HIDE DEF m, e, A
    <2> QED BY <1>3, <1>4, <1>5
  <1> QED
    BY <1>3, <1>5, <1>6 DEF Ahead

(* What flushing makes of the disk: the buffer is at its place, the rest   *)
(* as it was, and a hole in between.                                       *)
LEMMA FlushedFacts ==
  ASSUME TypeInv, NEW t \in Threads
  PROVE  LET p == file[t].pos
             b == file[t].buf
             F == Flushed(t)
         IN  /\ F \in Seq(Chunks)
             /\ Len(F) = IF b # <<>> /\ p + Len(b) > Len(disk) THEN p + Len(b)
                         ELSE Len(disk)
             /\ \A i \in 1..Len(F) :
                  F[i] = IF i \in (p + 1)..(p + Len(b)) THEN b[i - p]
                         ELSE IF i =< Len(disk) THEN disk[i] ELSE Hole
  <1> DEFINE p == file[t].pos
             b == file[t].buf
             n == IF b # <<>> /\ p + Len(b) > Len(disk) THEN p + Len(b) ELSE Len(disk)
             G == [i \in 1..n |-> IF i \in (p + 1)..(p + Len(b)) THEN b[i - p]
                                   ELSE IF i =< Len(disk) THEN disk[i] ELSE Hole]
  <1>1. p \in Nat /\ b \in Seq(Chunks) /\ disk \in Seq(Chunks)
    BY DEF TypeInv, Files
  <1>2. n \in Nat
    BY <1>1
  <1>3. Hole \in Chunks
    BY DEF Chunks
  <1>4. \A i \in 1..n : G[i] \in Chunks
    BY <1>1, <1>3
  <1>5. G \in [1..n -> Chunks]
    BY <1>4
  <1>6. G \in Seq(Chunks) /\ Len(G) = n
    <2> HIDE DEF G, n
    <2> QED BY <1>2, <1>5
  <1>7. Flushed(t) = G
    BY DEF Flushed
  <1> QED
    BY <1>6, <1>7

-----------------------------------------------------------------------------
(* The invariant holds initially ...                                       *)
LEMMA InitHolds == Init => StorageInv
  <1> SUFFICES ASSUME Init PROVE StorageInv
    OBVIOUS
  <1> USE StorageAssumption DEF Init, Threads
  <1>1. \A t \in Threads : file[t].phase = "none" /\ file[t].pos = 0 /\ file[t].buf = <<>>
    OBVIOUS
  <1>2. TypeInv
    <2>1. [phase |-> "none", pos |-> 0, buf |-> <<>>] \in Files
      BY DEF Files, Phases
    <2>2. file \in [Threads -> Files]
      BY <2>1
    <2>3. Len(<<>>) =< BUFFER /\ <<>> \in Seq(Chunks)
      OBVIOUS
    <2> QED
      BY <1>1, <2>2, <2>3 DEF TypeInv
  <1>3. PhaseInv
    BY <1>1 DEF PhaseInv
  <1>4. PlaceInv
    <2>1. \A t \in Uploads : Continues(t)
      BY <1>1 DEF Continues
    <2>2. \A d \in Downloads : AheadInPlace(d)
      BY <1>1 DEF AheadInPlace, Sent
    <2> QED
      BY <2>1, <2>2 DEF PlaceInv, ChunksInPlace, InPlace
  <1>5. LoneInv
    BY <1>1 DEF LoneInv, LoneDownload
  <1> QED
    BY <1>2, <1>3, <1>4, <1>5 DEF StorageInv

(* ... and every action preserves it.  What a thread does to its file      *)
(* object leaves the others alone:                                         *)
LEMMA OneFile ==
  ASSUME TypeInv, NEW t \in Threads, NEW f \in Files, file' = [file EXCEPT ![t] = f]
  PROVE  /\ file' \in [Threads -> Files]
         /\ file'[t] = f
         /\ \A u \in Threads \ {t} : file'[u] = file[u]
  BY DEF TypeInv

LEMMA CreateStep ==
  ASSUME StorageInv, NEW t \in Uploads, create_file(t)
  PROVE  StorageInv'
  <1> USE StorageAssumption
  <1>t. t \in Threads /\ file[t] \in Files
    BY DEF Threads, StorageInv, TypeInv
  <1> DEFINE f == [file[t] EXCEPT !.phase = "open"]
  <1>f. /\ f \in Files /\ f.phase = "open" /\ f.pos = 0 /\ f.buf = <<>>
        /\ file[t].phase = "none"
    BY <1>t DEF create_file, Files, Phases, StorageInv, PhaseInv
  <1>1. /\ file' \in [Threads -> Files]
        /\ file'[t] = f
        /\ \A u \in Threads \ {t} : file'[u] = file[u]
    <2>1. file' = [file EXCEPT ![t] = f]
      BY DEF create_file
    <2> HIDE DEF f
    <2> QED BY <1>t, <1>f, <2>1, OneFile DEF StorageInv
  <1> HIDE DEF f
  <1>2. /\ exists' = TRUE /\ disk' = <<>> /\ latest' = {t}
        /\ length' = length /\ got' = got /\ Opened(t)
    BY DEF create_file
  <1>3. overlap' \subseteq Threads
    BY <1>2, <1>t DEF Opened, StorageInv, TypeInv
  <1>4. TypeInv'
    BY <1>1, <1>2, <1>3, <1>f DEF StorageInv, TypeInv
  <1>5. PhaseInv'
    BY <1>1, <1>2, <1>f DEF StorageInv, PhaseInv, Threads
  <1>6. PlaceInv'
    <2>1. \A u \in Uploads : Continues(u)'
      BY <1>1, <1>f DEF StorageInv, PlaceInv, Continues, Threads
    <2>2. \A d \in Downloads : AheadInPlace(d)'
      BY <1>1, <1>2 DEF StorageInv, PlaceInv, AheadInPlace, Sent, Threads
    <2>3. ChunksInPlace'
      BY <1>2 DEF StorageInv, PlaceInv, ChunksInPlace, InPlace, Place
    <2> QED
      BY <2>1, <2>2, <2>3 DEF PlaceInv
  <1>7. LoneInv'
    <2>1. ASSUME NEW u \in latest' \ overlap'
          PROVE  LoneUpload(u)'
      <3>1. u = t
        BY <1>2, <2>1
      <3>2. \A v \in Uploads \ {t} : ~IsOpen(v)
        BY <1>2, <2>1, <3>1, <1>t DEF Opened, Threads
      <3>3. \A v \in Uploads \ {t} : ~IsOpen(v)'
        BY <3>2, <1>1 DEF IsOpen, Threads
      <3> QED
        BY <1>1, <1>2, <1>f, <3>1, <3>3 DEF LoneUpload, Holds
    <2>2. ASSUME NEW d \in Downloads \ overlap'
          PROVE  LoneDownload(d)'
      <3>1. ~IsOpen(d) /\ d # t
        BY <1>2, <2>2, <1>t DEF Opened, Threads
      <3> QED
        BY <3>1, <1>1 DEF IsOpen, LoneDownload, Threads
    <2> QED
      BY <2>1, <2>2 DEF LoneInv
  <1> QED
    BY <1>4, <1>5, <1>6, <1>7 DEF StorageInv

(* What a step that writes the buffer of an upload does to the disk.       *)
LEMMA FlushedInPlace ==
  ASSUME StorageInv, NEW t \in Uploads, disk' = Flushed(t)
  PROVE  /\ InPlace(disk)'
         /\ \A n \in Nat : n = file[t].pos /\ Holds(t, n) =>
              /\ Len(disk') = n + Len(file[t].buf)
              /\ \A i \in 1..(n + Len(file[t].buf)) : disk'[i] = Chunk(t, i)
  <1> DEFINE p == file[t].pos
             b == file[t].buf
  <1>1. t \in Threads /\ p \in Nat /\ b \in Seq(Chunks) /\ disk \in Seq(Chunks)
    BY DEF Threads, StorageInv, TypeInv, Files
  <1>2. /\ disk' \in Seq(Chunks)
        /\ Len(disk') = IF b # <<>> /\ p + Len(b) > Len(disk) THEN p + Len(b)
                        ELSE Len(disk)
        /\ \A i \in 1..Len(disk') :
             disk'[i] = IF i \in (p + 1)..(p + Len(b)) THEN b[i - p]
                        ELSE IF i =< Len(disk) THEN disk[i] ELSE Hole
    BY <1>1, FlushedFacts DEF StorageInv
  <1>3. \A i \in (p + 1)..(p + Len(b)) : b[i - p] = Chunk(t, i)
    <2>1. \A k \in 1..Len(b) : b[k] = Chunk(t, p + k)
      BY DEF StorageInv, PlaceInv, Continues
    <2> TAKE i \in (p + 1)..(p + Len(b))
    <2>2. i - p \in 1..Len(b) /\ p + (i - p) = i
      BY <1>1
    <2> QED
      BY <2>1, <2>2
  <1>4. \A i \in 1..Len(disk) : disk[i] \in Place(i)
    BY <1>1 DEF StorageInv, PlaceInv, ChunksInPlace, InPlace
  <1> HIDE DEF p, b
  <1>5. ASSUME NEW i \in 1..Len(disk')
        PROVE  disk'[i] \in Place(i)
    <2>1. Chunk(t, i) \in Place(i) /\ Hole \in Place(i)
      BY ChunkInPlace, <1>2
    <2>2. CASE i \in (p + 1)..(p + Len(b))
      BY <2>1, <2>2, <1>2, <1>3
    <2>3. CASE i \notin (p + 1)..(p + Len(b)) /\ i =< Len(disk)
      BY <2>3, <1>1, <1>2, <1>4
    <2>4. CASE i \notin (p + 1)..(p + Len(b)) /\ ~(i =< Len(disk))
      BY <2>1, <2>4, <1>2
    <2> QED
      BY <2>2, <2>3, <2>4
  <1>6. InPlace(disk)'
    BY <1>2, <1>5 DEF InPlace
  <1>7. ASSUME p = Len(disk), \A i \in 1..p : disk[i] = Chunk(t, i)
        PROVE  /\ Len(disk') = p + Len(b)
               /\ \A i \in 1..(p + Len(b)) : disk'[i] = Chunk(t, i)
    BY <1>1, <1>2, <1>3, <1>7
  <1> QED
    BY <1>6, <1>7 DEF Holds, p, b

LEMMA WriteStep ==
  ASSUME StorageInv, NEW t \in Uploads, write(t)
  PROVE  StorageInv'
  <1> USE StorageAssumption
  <1> DEFINE p == file[t].pos
             b == file[t].buf
             c == Chunk(t, p + Len(b) + 1)
  <1>t. /\ t \in Threads /\ file[t] \in Files /\ p \in Nat /\ b \in Seq(Chunks)
        /\ Len(b) =< BUFFER /\ Len(b) \in Nat
        /\ file[t].phase = "open" /\ disk \in Seq(Chunks)
    BY DEF Threads, StorageInv, TypeInv, Files, write
  <1>c. c \in Chunks
    BY <1>t DEF Chunks
  <1>0. /\ exists' = exists /\ length' = length /\ got' = got
        /\ latest' = latest /\ overlap' = overlap
    BY DEF write
  <1> DEFINE full == ~(Len(b) < BUFFER)
             f == IF full THEN [file[t] EXCEPT !.buf = <<c>>, !.pos = p + Len(b)]
                  ELSE [file[t] EXCEPT !.buf = Append(b, c)]
  <1>1. file' = [file EXCEPT ![t] = f] /\ disk' = IF full THEN Flushed(t) ELSE disk
    BY <1>t DEF write, Files
  <1>2. /\ f \in Files /\ f.phase = "open"
        /\ f.pos = IF full THEN p + Len(b) ELSE p
        /\ f.buf = IF full THEN <<c>> ELSE Append(b, c)
    <2>1. <<c>> \in Seq(Chunks) /\ Append(b, c) \in Seq(Chunks) /\ p + Len(b) \in Nat
      BY <1>t, <1>c
    <2> HIDE DEF c
    <2> QED BY <1>t, <2>1 DEF Files
  <1>3. Len(f.buf) =< BUFFER
    <2>1. Len(<<c>>) = 1 /\ Len(Append(b, c)) = Len(b) + 1
      BY <1>t, <1>c
    <2> HIDE DEF c, f
    <2> QED BY <1>t, <1>2, <2>1
  <1>4. \A k \in 1..Len(f.buf) : f.buf[k] = Chunk(t, f.pos + k)
    <2>1. \A k \in 1..Len(b) : b[k] = Chunk(t, p + k)
      BY DEF StorageInv, PlaceInv, Continues
    <2>2. CASE full
      BY <2>2, <1>2, <1>t
    <2>3. CASE ~full
      <3>1. /\ Len(f.buf) = Len(b) + 1
            /\ \A k \in 1..Len(b) : f.buf[k] = b[k]
            /\ f.buf[Len(b) + 1] = c
        <4> HIDE DEF c, f
        <4> QED BY <2>3, <1>2, <1>t, <1>c, AppendFacts
      <3> HIDE DEF f
      <3>2. f.pos = p
        BY <2>3, <1>2
      <3>3. c = Chunk(t, p + (Len(b) + 1))
        <4>1. (p + Len(b)) + 1 = p + (Len(b) + 1)
          BY <1>t
        <4> HIDE DEF p, b
        <4> QED BY <4>1
      <3> HIDE DEF c, p, b, full
      <3>4. ASSUME NEW k \in 1..Len(f.buf)
            PROVE  f.buf[k] = Chunk(t, p + k)
        <4>1. CASE k \in 1..Len(b)
          BY <4>1, <2>1, <3>1
        <4>2. CASE k = Len(b) + 1
          BY <4>2, <3>1, <3>3
        <4> QED
          BY <4>1, <4>2, <3>1, <1>t
      <3> QED
        BY <3>2, <3>4
    <2> QED
      BY <2>2, <2>3
  <1> HIDE DEF f, c
  <1>5. /\ file' \in [Threads -> Files]
        /\ file'[t] = f
        /\ \A u \in Threads \ {t} : file'[u] = file[u]
    BY <1>t, <1>1, <1>2, OneFile DEF StorageInv
  <1>6. TypeInv'
    <2>1. disk' \in Seq(Chunks)
      BY <1>1, <1>t, FlushedFacts DEF StorageInv
    <2> QED
      BY <2>1, <1>0, <1>3, <1>5 DEF StorageInv, TypeInv
  <1>7. PhaseInv'
    BY <1>0, <1>2, <1>5 DEF StorageInv, PhaseInv, Threads
  <1>8. PlaceInv'
    <2>1. \A u \in Uploads : Continues(u)'
      BY <1>4, <1>5 DEF StorageInv, PlaceInv, Continues, Threads
    <2>2. \A d \in Downloads : AheadInPlace(d)'
      BY <1>5, <1>0 DEF StorageInv, PlaceInv, AheadInPlace, Sent, Threads
    <2>3. ChunksInPlace'
      BY <1>1, <1>0, FlushedInPlace DEF StorageInv, PlaceInv, ChunksInPlace, InPlace
    <2> QED
      BY <2>1, <2>2, <2>3 DEF PlaceInv
  <1>9. LoneInv'
    <2>1. \A u \in Uploads : IsOpen(u)' <=> IsOpen(u)
      BY <1>2, <1>5, <1>t DEF IsOpen, Threads
    <2>2. ASSUME NEW u \in latest' \ overlap'
          PROVE  LoneUpload(u)'
      <3>1. LoneUpload(u) /\ u \in Uploads
        BY <2>2, <1>0 DEF StorageInv, LoneInv, TypeInv
      <3>2. u = t
        BY <3>1, <1>t DEF LoneUpload, IsOpen
      <3>3. Len(disk') = f.pos /\ \A i \in 1..f.pos : disk'[i] = Chunk(t, i)
        <4>1. Holds(t, p)
          BY <3>1, <3>2, <1>t DEF LoneUpload
        <4>2. CASE full
          <5>1. disk' = Flushed(t) /\ f.pos = p + Len(b)
            BY <4>2, <1>1, <1>2
          <5> QED
            BY <4>1, <5>1, <1>t, FlushedInPlace
        <4>3. CASE ~full
          <5>1. disk' = disk /\ f.pos = p
            BY <4>3, <1>1, <1>2
          <5> QED
            BY <4>1, <5>1 DEF Holds
        <4> QED
          BY <4>2, <4>3
      <3> QED
        BY <2>1, <3>1, <3>2, <3>3, <1>2, <1>5, <1>t DEF LoneUpload, Holds
    <2>3. ASSUME NEW d \in Downloads \ overlap'
          PROVE  LoneDownload(d)'
      <3>1. LoneDownload(d) /\ IsOpen(t) /\ d # t /\ file'[d] = file[d]
        BY <2>3, <1>0, <1>5, <1>t DEF StorageInv, LoneInv, IsOpen, Threads
      <3> QED
        BY <3>1 DEF LoneDownload
    <2> QED
      BY <2>2, <2>3 DEF LoneInv
  <1> QED
    BY <1>6, <1>7, <1>8, <1>9 DEF StorageInv

LEMMA AnswerStep ==
  ASSUME StorageInv, NEW t \in Uploads, AnswerClose(t)
  PROVE  StorageInv'
  <1> USE StorageAssumption
  <1>t. /\ t \in Threads /\ file[t] \in Files /\ file[t].phase = "open"
        /\ file[t].pos + Len(file[t].buf) = length[t]
    BY DEF Threads, StorageInv, TypeInv, AnswerClose
  <1>0. /\ exists' = exists /\ disk' = disk /\ length' = length /\ got' = got
        /\ latest' = latest /\ overlap' = overlap
    BY DEF AnswerClose
  <1> DEFINE f == [file[t] EXCEPT !.phase = "answered"]
  <1>1. file' = [file EXCEPT ![t] = f]
    BY DEF AnswerClose
  <1>2. /\ f \in Files /\ f.phase = "answered"
        /\ f.pos = file[t].pos /\ f.buf = file[t].buf
    BY <1>t DEF Files, Phases
  <1> HIDE DEF f
  <1>3. /\ file' \in [Threads -> Files]
        /\ file'[t] = f
        /\ \A u \in Threads \ {t} : file'[u] = file[u]
    BY <1>t, <1>1, <1>2, OneFile DEF StorageInv
  <1>4. TypeInv'
    BY <1>0, <1>2, <1>3 DEF StorageInv, TypeInv
  <1>5. PhaseInv'
    BY <1>0, <1>2, <1>3 DEF StorageInv, PhaseInv, Threads
  <1>6. PlaceInv'
    <2>1. \A u \in Uploads : Continues(u)'
      BY <1>2, <1>3 DEF StorageInv, PlaceInv, Continues, Threads
    <2>2. \A d \in Downloads : AheadInPlace(d)'
      BY <1>3, <1>0 DEF StorageInv, PlaceInv, AheadInPlace, Sent, Threads
    <2> QED
      BY <1>0, <2>1, <2>2 DEF StorageInv, PlaceInv, ChunksInPlace, InPlace
  <1>7. LoneInv'
    <2>1. \A u \in Uploads : IsOpen(u)' <=> IsOpen(u)
      BY <1>2, <1>3, <1>t DEF IsOpen, Threads
    <2>2. ASSUME NEW u \in latest' \ overlap'
          PROVE  LoneUpload(u)'
      <3>1. LoneUpload(u) /\ u \in Uploads
        BY <2>2, <1>0 DEF StorageInv, LoneInv, TypeInv
      <3>2. u = t
        BY <3>1, <1>t DEF LoneUpload, IsOpen
      <3> QED
        BY <2>1, <3>1, <3>2, <1>0, <1>2, <1>3, <1>t DEF LoneUpload, Holds
    <2>3. ASSUME NEW d \in Downloads \ overlap'
          PROVE  LoneDownload(d)'
      <3>1. LoneDownload(d) /\ IsOpen(t) /\ d # t /\ file'[d] = file[d]
        BY <2>3, <1>0, <1>3, <1>t DEF StorageInv, LoneInv, IsOpen, Threads
      <3> QED
        BY <3>1 DEF LoneDownload
    <2> QED
      BY <2>2, <2>3 DEF LoneInv
  <1> QED
    BY <1>4, <1>5, <1>6, <1>7 DEF StorageInv

(* close and Fail. *)
LEMMA ReleaseStep ==
  ASSUME StorageInv, NEW t \in Uploads, NEW ph \in {"closed", "failed"},
         Release(t, ph), file[t].phase = IF ph = "closed" THEN "answered" ELSE "open"
  PROVE  StorageInv'
  <1> USE StorageAssumption
  <1>t. /\ t \in Threads /\ file[t] \in Files /\ file[t].pos \in Nat
        /\ file[t].buf \in Seq(Chunks) /\ file[t].phase \in {"open", "answered"}
    BY DEF Threads, StorageInv, TypeInv, Files
  <1>0. /\ exists' = exists /\ length' = length /\ got' = got
        /\ latest' = latest /\ overlap' = overlap /\ disk' = Flushed(t)
    BY DEF Release
  <1> DEFINE f == [phase |-> ph, pos |-> file[t].pos + Len(file[t].buf), buf |-> <<>>]
  <1>1. file' = [file EXCEPT ![t] = f]
    BY DEF Release
  <1>2. /\ f \in Files /\ f.phase = ph
        /\ f.pos = file[t].pos + Len(file[t].buf) /\ f.buf = <<>>
    BY <1>t DEF Files, Phases
  <1> HIDE DEF f
  <1>3. /\ file' \in [Threads -> Files]
        /\ file'[t] = f
        /\ \A u \in Threads \ {t} : file'[u] = file[u]
    BY <1>t, <1>1, <1>2, OneFile DEF StorageInv
  <1>4. TypeInv'
    <2>1. disk' \in Seq(Chunks)
      BY <1>0, <1>t, FlushedFacts DEF StorageInv
    <2>2. Len(f.buf) =< BUFFER
      BY <1>2
    <2> QED
      BY <2>1, <2>2, <1>0, <1>2, <1>3 DEF StorageInv, TypeInv
  <1>5. PhaseInv'
    BY <1>0, <1>2, <1>3 DEF StorageInv, PhaseInv, Threads
  <1>6. PlaceInv'
    <2>1. \A u \in Uploads : Continues(u)'
      BY <1>2, <1>3 DEF StorageInv, PlaceInv, Continues, Threads
    <2>2. \A d \in Downloads : AheadInPlace(d)'
      BY <1>3, <1>0 DEF StorageInv, PlaceInv, AheadInPlace, Sent, Threads
    <2>3. ChunksInPlace'
      BY <1>0, FlushedInPlace DEF StorageInv, PlaceInv, ChunksInPlace, InPlace
    <2> QED
      BY <2>1, <2>2, <2>3 DEF PlaceInv
  <1>7. LoneInv'
    <2>1. \A u \in Uploads : IsOpen(u)' => IsOpen(u)
      BY <1>2, <1>3, <1>t DEF IsOpen, Threads
    <2>2. ASSUME NEW u \in latest' \ overlap'
          PROVE  LoneUpload(u)'
      <3>1. LoneUpload(u) /\ u \in Uploads
        BY <2>2, <1>0 DEF StorageInv, LoneInv, TypeInv
      <3>2. u = t
        BY <3>1, <1>t DEF LoneUpload, IsOpen
      <3>3. Len(disk') = f.pos /\ \A i \in 1..f.pos : disk'[i] = Chunk(t, i)
        BY <3>1, <3>2, <1>0, <1>2, <1>t, FlushedInPlace DEF LoneUpload, Holds
      <3>4. ph = "closed" => f.pos = length[t]
        BY <3>1, <3>2, <1>2 DEF LoneUpload
      <3> QED
        BY <2>1, <3>1, <3>2, <3>3, <3>4, <1>0, <1>2, <1>3, <1>t DEF LoneUpload, Holds
    <2>3. ASSUME NEW d \in Downloads \ overlap'
          PROVE  LoneDownload(d)'
      <3>1. LoneDownload(d) /\ IsOpen(t) /\ d # t /\ file'[d] = file[d]
        BY <2>3, <1>0, <1>3, <1>t DEF StorageInv, LoneInv, IsOpen, Threads
      <3> QED
        BY <3>1 DEF LoneDownload
    <2> QED
      BY <2>2, <2>3 DEF LoneInv
  <1> QED
    BY <1>4, <1>5, <1>6, <1>7 DEF StorageInv

LEMMA OpenForReadStep ==
  ASSUME StorageInv, NEW d \in Downloads, open_for_read(d)
  PROVE  StorageInv'
  <1> USE StorageAssumption
  <1>t. /\ d \in Threads /\ d \notin Uploads /\ file[d] \in Files
        /\ file[d].phase = "none" /\ file[d].pos = 0 /\ file[d].buf = <<>>
        /\ got[d] = <<>>
    BY DEF Threads, StorageInv, TypeInv, PhaseInv, open_for_read
  <1>0. /\ exists' = exists /\ disk' = disk /\ length' = length /\ got' = got
        /\ latest' = latest
    BY DEF open_for_read
  <1> DEFINE f == [file[d] EXCEPT !.phase = IF exists THEN "open" ELSE "failed"]
  <1>1. file' = [file EXCEPT ![d] = f]
    BY DEF open_for_read
  <1>2. /\ f \in Files /\ f.phase \in {"open", "failed"}
        /\ f.pos = 0 /\ f.buf = <<>> /\ (f.phase = "open" => exists)
    BY <1>t DEF Files, Phases
  <1> HIDE DEF f
  <1>3. /\ file' \in [Threads -> Files]
        /\ file'[d] = f
        /\ \A u \in Threads \ {d} : file'[u] = file[u]
    BY <1>t, <1>1, <1>2, OneFile DEF StorageInv
  <1>o. /\ overlap \subseteq overlap' /\ overlap' \subseteq overlap \cup {d}
        /\ f.phase = "open" /\ d \notin overlap' => \A u \in Uploads : ~IsOpen(u)
    <2>1. CASE exists
      BY <2>1, <1>2, <1>t DEF open_for_read, Opened, Threads
    <2>2. CASE ~exists
      BY <2>2, <1>2 DEF open_for_read
    <2> QED
      BY <2>1, <2>2
  <1>4. TypeInv'
    <2>1. Len(f.buf) =< BUFFER
      BY <1>2
    <2>2. overlap' \subseteq Threads
      BY <1>o, <1>t DEF StorageInv, TypeInv
    <2> QED
      BY <2>1, <2>2, <1>0, <1>2, <1>3 DEF StorageInv, TypeInv
  <1>5. PhaseInv'
    BY <1>0, <1>2, <1>3, <1>t DEF StorageInv, PhaseInv, Threads
  <1>6. PlaceInv'
    <2>1. \A u \in Uploads : Continues(u)'
      BY <1>3, <1>t DEF StorageInv, PlaceInv, Continues, Threads
    <2>2. \A e \in Downloads : AheadInPlace(e)'
      BY <1>3, <1>0, <1>2, <1>t DEF StorageInv, PlaceInv, AheadInPlace, Sent, Threads
    <2> QED
      BY <1>0, <2>1, <2>2 DEF StorageInv, PlaceInv, ChunksInPlace, InPlace
  <1>7. LoneInv'
    <2>1. \A u \in Uploads : IsOpen(u)' <=> IsOpen(u)
      BY <1>3, <1>t DEF IsOpen, Threads
    <2>2. ASSUME NEW u \in latest' \ overlap'
          PROVE  LoneUpload(u)'
      <3>1. LoneUpload(u) /\ u \in Uploads /\ file'[u] = file[u]
        BY <2>2, <1>0, <1>o, <1>3, <1>t DEF StorageInv, LoneInv, TypeInv, Threads
      <3> QED
        BY <2>1, <3>1, <1>0 DEF LoneUpload, Holds
    <2>3. ASSUME NEW e \in Downloads \ overlap'
          PROVE  LoneDownload(e)'
      <3>1. CASE e = d
        <4>1. f.phase = "open" => \A u \in Uploads : ~IsOpen(u)'
          BY <2>1, <2>3, <3>1, <1>o
        <4>2. Len(disk) \in Nat
          BY DEF StorageInv, TypeInv
        <4> QED
          BY <3>1, <4>1, <4>2, <1>0, <1>2, <1>3, <1>t DEF LoneDownload
      <3>2. CASE e # d
        <4>1. LoneDownload(e) /\ file'[e] = file[e]
          BY <2>3, <3>2, <1>o, <1>3 DEF StorageInv, LoneInv, Threads
        <4> QED
          BY <2>1, <4>1, <1>0 DEF LoneDownload, Sent
      <3> QED
        BY <3>1, <3>2
    <2> QED
      BY <2>2, <2>3 DEF LoneInv
  <1> QED
    BY <1>4, <1>5, <1>6, <1>7 DEF StorageInv

(* ReadNothing and CheckEof: a download with an empty buffer, or one that  *)
(* keeps it, changes its phase only.                                       *)
LEMMA PhaseStep ==
  ASSUME StorageInv, NEW d \in Downloads,
         NEW ph \in {"open", "empty", "closed", "stalled"},
         file[d].phase \in {"open", "empty"},
         file' = [file EXCEPT ![d].phase = ph],
         UNCHANGED <<exists, disk, length, got, latest, overlap>>
  PROVE  StorageInv'
  <1> USE StorageAssumption
  <1>t. d \in Threads /\ d \notin Uploads /\ file[d] \in Files
    BY DEF Threads, StorageInv, TypeInv
  <1> DEFINE f == [file[d] EXCEPT !.phase = ph]
  <1>1. file' = [file EXCEPT ![d] = f]
    OBVIOUS
  <1>2. f \in Files /\ f.phase = ph /\ f.pos = file[d].pos /\ f.buf = file[d].buf
    BY <1>t DEF Files, Phases
  <1> HIDE DEF f
  <1>3. /\ file' \in [Threads -> Files]
        /\ file'[d] = f
        /\ \A u \in Threads \ {d} : file'[u] = file[u]
    BY <1>t, <1>1, <1>2, OneFile DEF StorageInv
  <1>4. TypeInv'
    BY <1>2, <1>3 DEF StorageInv, TypeInv
  <1>5. PhaseInv'
    BY <1>2, <1>3, <1>t DEF StorageInv, PhaseInv, Threads
  <1>6. PlaceInv'
    <2>1. \A u \in Uploads : Continues(u)'
      BY <1>3, <1>t DEF StorageInv, PlaceInv, Continues, Threads
    <2>2. \A e \in Downloads : AheadInPlace(e)'
      BY <1>2, <1>3, <1>t DEF StorageInv, PlaceInv, AheadInPlace, Sent, Threads
    <2> QED
      BY <2>1, <2>2 DEF StorageInv, PlaceInv, ChunksInPlace, InPlace
  <1>7. LoneInv'
    <2>1. \A u \in Uploads : IsOpen(u)' <=> IsOpen(u)
      BY <1>3, <1>t DEF IsOpen, Threads
    <2>2. ASSUME NEW u \in latest' \ overlap'
          PROVE  LoneUpload(u)'
      <3>1. LoneUpload(u) /\ u \in Uploads /\ file'[u] = file[u]
        BY <2>2, <1>3, <1>t DEF StorageInv, LoneInv, TypeInv, Threads
      <3> QED
        BY <2>1, <3>1 DEF LoneUpload, Holds
    <2>3. ASSUME NEW e \in Downloads \ overlap'
          PROVE  LoneDownload(e)'
      <3>1. LoneDownload(e)
        BY <2>3 DEF StorageInv, LoneInv
      <3>2. CASE e = d
        BY <2>1, <3>1, <3>2, <1>2, <1>3 DEF LoneDownload, Sent
      <3>3. CASE e # d
        BY <2>1, <3>1, <3>3, <1>3 DEF LoneDownload, Sent, Threads
      <3> QED
        BY <3>2, <3>3
    <2> QED
      BY <2>2, <2>3 DEF LoneInv
  <1> QED
    BY <1>4, <1>5, <1>6, <1>7 DEF StorageInv

(* The two cases of read have the same effect: chunk c is sent, and what   *)
(* is left in the buffer is what comes after it.                           *)
Reads(d, f, c) ==
  /\ f \in Files /\ f.phase = "open" /\ Len(f.buf) =< BUFFER
  /\ f.pos - Len(f.buf) = Sent(d) + 1
  /\ c \in Place(Sent(d) + 1)
  /\ \A k \in 1..Len(f.buf) : f.buf[k] \in Place((Sent(d) + 1) + k)
  /\ LoneDownload(d) =>
       /\ f.pos =< Len(disk)
       /\ c = disk[Sent(d) + 1]
       /\ \A k \in 1..Len(f.buf) : f.buf[k] = disk[(Sent(d) + 1) + k]

LEMMA ReadsStep ==
  ASSUME StorageInv, NEW d \in Downloads, NEW f, NEW c, Reads(d, f, c),
         file[d].phase = "open",
         file' = [file EXCEPT ![d] = f],
         got' = [got EXCEPT ![d] = Append(@, c)],
         UNCHANGED <<exists, disk, length, latest, overlap>>
  PROVE  StorageInv'
  <1> USE StorageAssumption
  <1>t. /\ d \in Threads /\ d \notin Uploads /\ got[d] \in Seq(Chunks)
        /\ Len(got[d]) = Sent(d) /\ Len(got[d]) \in Nat
    BY DEF Threads, StorageInv, TypeInv, PlaceInv, AheadInPlace
  <1>c. c \in Chunks
    BY <1>t, ChunkInPlace DEF Reads
  <1>1. /\ file' \in [Threads -> Files]
        /\ file'[d] = f
        /\ \A u \in Threads \ {d} : file'[u] = file[u]
    BY <1>t, OneFile DEF StorageInv, Reads
  <1>2. /\ got' \in [Downloads -> Seq(Chunks)]
        /\ got'[d] = Append(got[d], c)
        /\ \A e \in Downloads \ {d} : got'[e] = got[e]
    BY <1>t, <1>c DEF StorageInv, TypeInv
  <1>3. /\ Len(got'[d]) = Sent(d) + 1
        /\ \A k \in 1..Sent(d) : got'[d][k] = got[d][k]
        /\ got'[d][Sent(d) + 1] = c
    BY <1>t, <1>c, <1>2, AppendFacts
  <1>s. Sent(d)' = Sent(d) + 1
    BY <1>1 DEF Reads, Sent
  <1>4. TypeInv'
    BY <1>1, <1>2 DEF StorageInv, TypeInv, Reads
  <1>5. PhaseInv'
    BY <1>1, <1>2, <1>t DEF StorageInv, PhaseInv, Threads, Reads
  <1>6. PlaceInv'
    <2>1. \A u \in Uploads : Continues(u)'
      BY <1>1, <1>t DEF StorageInv, PlaceInv, Continues, Threads
    <2>2. AheadInPlace(d)'
      BY <1>1, <1>3, <1>s DEF AheadInPlace, Reads
    <2>3. \A e \in Downloads \ {d} : AheadInPlace(e)'
      BY <1>1, <1>2 DEF StorageInv, PlaceInv, AheadInPlace, Sent, Threads
    <2>4. InPlace(got[d])'
      <3>1. \A k \in 1..Sent(d) : got[d][k] \in Place(k)
        BY <1>t DEF StorageInv, PlaceInv, ChunksInPlace, InPlace
      <3>2. c \in Place(Sent(d) + 1)
        BY DEF Reads
      <3>3. DOMAIN (got'[d]) = 1..(Sent(d) + 1)
        BY <1>2, <1>3, <1>t
      <3>4. ASSUME NEW k \in 1..(Sent(d) + 1)
            PROVE  got'[d][k] \in Place(k)
        <4>1. CASE k \in 1..Sent(d)
          BY <4>1, <3>1, <1>3
        <4>2. CASE k = Sent(d) + 1
          BY <4>2, <3>2, <1>3
        <4> QED
          BY <4>1, <4>2, <1>t
      <3> QED
        BY <3>3, <3>4 DEF InPlace, Place
    <2>5. \A e \in Downloads \ {d} : InPlace(got[e])'
      BY <1>2 DEF StorageInv, PlaceInv, ChunksInPlace, InPlace, Place
    <2>6. InPlace(disk)'
      BY DEF StorageInv, PlaceInv, ChunksInPlace, InPlace, Place
    <2> QED
      BY <2>1, <2>2, <2>3, <2>4, <2>5, <2>6 DEF PlaceInv, ChunksInPlace
  <1>7. LoneInv'
    <2>1. \A u \in Uploads : IsOpen(u)' <=> IsOpen(u)
      BY <1>1, <1>t DEF IsOpen, Threads
    <2>2. ASSUME NEW u \in latest' \ overlap'
          PROVE  LoneUpload(u)'
      <3>1. LoneUpload(u) /\ u \in Uploads /\ file'[u] = file[u]
        BY <2>2, <1>1, <1>t DEF StorageInv, LoneInv, TypeInv, Threads
      <3> QED
        BY <2>1, <3>1 DEF LoneUpload, Holds
    <2>3. ASSUME NEW e \in Downloads \ overlap'
          PROVE  LoneDownload(e)'
      <3>1. LoneDownload(e)
        BY <2>3 DEF StorageInv, LoneInv
      <3>2. CASE e = d
        <4>1. \A k \in 1..Sent(d) : got[d][k] = disk[k]
          BY <3>1, <3>2, <1>t DEF LoneDownload
        <4>2. ASSUME NEW k \in 1..(Sent(d) + 1)
              PROVE  got'[d][k] = disk[k]
          <5>1. CASE k \in 1..Sent(d)
            BY <5>1, <4>1, <1>3
          <5>2. CASE k = Sent(d) + 1
            BY <5>2, <3>1, <3>2, <1>3 DEF Reads
          <5> QED
            BY <5>1, <5>2, <1>t
        <4>3. /\ f.pos =< Len(disk)
              /\ \A k \in 1..Len(f.buf) : f.buf[k] = disk[(Sent(d) + 1) + k]
          BY <3>1, <3>2 DEF Reads
        <4>4. \A u \in Uploads : ~IsOpen(u)'
          BY <2>1, <3>1, <3>2 DEF LoneDownload
        <4> QED
          BY <3>2, <4>2, <4>3, <4>4, <1>1, <1>3, <1>s DEF LoneDownload
      <3>3. CASE e # d
        BY <2>1, <3>1, <3>3, <1>1, <1>2 DEF LoneDownload, Sent, Threads
      <3> QED
        BY <3>2, <3>3
    <2> QED
      BY <2>2, <2>3 DEF LoneInv
  <1> QED
    BY <1>4, <1>5, <1>6, <1>7 DEF StorageInv

LEMMA ReadStep ==
  ASSUME StorageInv, NEW d \in Downloads, read(d)
  PROVE  StorageInv'
  <1> USE StorageAssumption
  <1> DEFINE p == file[d].pos
             b == file[d].buf
  <1>t. /\ file[d] \in Files /\ p \in Nat /\ b \in Seq(Chunks) /\ Len(b) \in Nat
        /\ Len(b) =< BUFFER /\ disk \in Seq(Chunks) /\ file[d].phase = "open"
        /\ Sent(d) = p - Len(b) /\ Sent(d) \in Nat
    <2>1. file[d] \in Files /\ got[d] \in Seq(Chunks) /\ file[d].phase = "open"
          /\ Len(b) =< BUFFER /\ disk \in Seq(Chunks) /\ Len(got[d]) = Sent(d)
      BY DEF read, StorageInv, TypeInv, Threads, PlaceInv, AheadInPlace
    <2> QED
      BY <2>1 DEF Files, Sent
  <1>0. UNCHANGED <<exists, disk, length, latest, overlap>>
    BY DEF read
  <1>b. \A k \in 1..Len(b) : b[k] \in Place(Sent(d) + k)
    BY DEF StorageInv, PlaceInv, AheadInPlace
  <1>l. LoneDownload(d) => /\ p =< Len(disk)
                           /\ \A k \in 1..Len(b) : b[k] = disk[Sent(d) + k]
    BY <1>t DEF LoneDownload
  <1>1. CASE /\ b # <<>>
             /\ got' = [got EXCEPT ![d] = Append(@, Head(b))]
             /\ file' = [file EXCEPT ![d].buf = Tail(@)]
    <2> DEFINE f == [file[d] EXCEPT !.buf = Tail(b)]
    <2>1. /\ Head(b) = b[1] /\ Tail(b) \in Seq(Chunks)
          /\ Len(Tail(b)) = Len(b) - 1 /\ Len(b) >= 1
          /\ \A i \in 1..(Len(b) - 1) : Tail(b)[i] = b[i + 1]
      BY <1>1, <1>t, TailFacts
    <2>2. f \in Files /\ f.phase = "open" /\ f.pos = p /\ f.buf = Tail(b)
      BY <2>1, <1>t DEF Files
    <2>3. file' = [file EXCEPT ![d] = f]
      BY <1>1
    <2> HIDE DEF f, p, b
    <2>4. ASSUME NEW k \in 1..Len(f.buf)
          PROVE  /\ f.buf[k] \in Place((Sent(d) + 1) + k)
                 /\ LoneDownload(d) => f.buf[k] = disk[(Sent(d) + 1) + k]
      <3>1. k + 1 \in 1..Len(b) /\ f.buf[k] = b[k + 1]
        BY <1>t, <2>1, <2>2
      <3>2. Sent(d) + (k + 1) = (Sent(d) + 1) + k
        BY <1>t
      <3> QED
        BY <3>1, <3>2, <1>b, <1>l
    <2>5. /\ Head(b) \in Place(Sent(d) + 1)
          /\ LoneDownload(d) => Head(b) = disk[Sent(d) + 1]
      BY <2>1, <1>b, <1>l, <1>t
    <2>6. Len(f.buf) =< BUFFER /\ f.pos - Len(f.buf) = Sent(d) + 1
      BY <1>t, <2>1, <2>2
    <2>7. Reads(d, f, Head(b))
      BY <2>2, <2>4, <2>5, <2>6, <1>l DEF Reads
    <2> QED
      BY <2>3, <2>7, <1>0, <1>1, <1>t, ReadsStep DEF b
  <1>2. ASSUME b = <<>>, NEW n \in 1..BUFFER, p + n =< Len(disk),
               got' = [got EXCEPT ![d] = Append(@, Head(Ahead(d, n)))],
               file' = [file EXCEPT ![d].buf = Tail(Ahead(d, n)), ![d].pos = @ + n]
        PROVE  StorageInv'
    <2> DEFINE A == Ahead(d, n)
               f == [file[d] EXCEPT !.buf = Tail(A), !.pos = p + n]
    <2>n. n \in Nat /\ n >= 1 /\ Sent(d) = p
      BY <1>2, <1>t
    <2>0. /\ A \in Seq(Chunks) /\ Len(A) = n
          /\ \A k \in 1..n : A[k] = disk[p + k]
      BY <2>n, <1>2, AheadFacts DEF StorageInv
    <2> HIDE DEF A
    <2>1. /\ Head(A) = A[1] /\ Tail(A) \in Seq(Chunks)
          /\ Len(Tail(A)) = n - 1
          /\ \A i \in 1..(n - 1) : Tail(A)[i] = A[i + 1]
      <3>1. A # <<>>
        BY <2>0, <2>n
      <3> QED
        BY <3>1, <2>0, TailFacts
    <2>2. f \in Files /\ f.phase = "open" /\ f.pos = p + n /\ f.buf = Tail(A)
      <3>1. p + n \in Nat
        BY <2>n, <1>t
      <3> HIDE DEF p, b
      <3> QED BY <2>1, <3>1, <1>t DEF Files
    <2>3. file' = [file EXCEPT ![d] = f]
      BY <1>2, <1>t DEF A, Files
    <2> HIDE DEF f, p, b
    <2>i. \A i \in 1..Len(disk) : disk[i] \in Place(i)
      BY <1>t DEF StorageInv, PlaceInv, ChunksInPlace, InPlace
    <2>4. ASSUME NEW k \in 1..Len(f.buf)
          PROVE  /\ f.buf[k] \in Place((Sent(d) + 1) + k)
                 /\ f.buf[k] = disk[(Sent(d) + 1) + k]
      <3>1. k + 1 \in 1..n /\ f.buf[k] = A[k + 1]
        BY <2>n, <2>1, <2>2
      <3>2. A[k + 1] = disk[p + (k + 1)]
        BY <3>1, <2>0
      <3>3. p + (k + 1) = (Sent(d) + 1) + k /\ (Sent(d) + 1) + k \in 1..Len(disk)
        BY <1>t, <1>2, <2>n, <3>1
      <3> QED
        BY <3>1, <3>2, <3>3, <2>i
    <2>5. Head(A) \in Place(Sent(d) + 1) /\ Head(A) = disk[Sent(d) + 1]
      <3>1. Sent(d) + 1 \in 1..Len(disk)
        BY <1>t, <1>2, <2>n
      <3> QED
        BY <3>1, <2>0, <2>1, <2>n, <2>i
    <2>6. Len(f.buf) =< BUFFER /\ f.pos - Len(f.buf) = Sent(d) + 1
      BY <1>t, <1>2, <2>n, <2>1, <2>2
    <2>7. f.pos =< Len(disk)
      BY <2>2, <1>2
    <2>8. Reads(d, f, Head(A))
      BY <2>2, <2>4, <2>5, <2>6, <2>7 DEF Reads
    <2> QED
      BY <2>3, <2>8, <1>0, <1>2, <1>t, ReadsStep DEF A
  <1> QED
    BY <1>1, <1>2 DEF read

-----------------------------------------------------------------------------
LEMMA StepKeeps ==
  ASSUME StorageInv, [Next]_vars
  PROVE  StorageInv'
  <1>1. ASSUME NEW t \in Uploads, create_file(t) PROVE StorageInv'
    BY <1>1, CreateStep
  <1>2. ASSUME NEW t \in Uploads, write(t) PROVE StorageInv'
    BY <1>2, WriteStep
  <1>3. ASSUME NEW t \in Uploads, AnswerClose(t) PROVE StorageInv'
    BY <1>3, AnswerStep
  <1>4. ASSUME NEW t \in Uploads, close(t) PROVE StorageInv'
    BY <1>4, ReleaseStep DEF close
  <1>5. ASSUME NEW t \in Uploads, Fail(t) PROVE StorageInv'
    BY <1>5, ReleaseStep DEF Fail
  <1>6. ASSUME NEW d \in Downloads, open_for_read(d) PROVE StorageInv'
    BY <1>6, OpenForReadStep
  <1>7. ASSUME NEW d \in Downloads, read(d) PROVE StorageInv'
    BY <1>7, ReadStep
  <1>8. ASSUME NEW d \in Downloads, ReadNothing(d) PROVE StorageInv'
    BY <1>8, PhaseStep DEF ReadNothing
  <1>9. ASSUME NEW d \in Downloads, CheckEof(d) PROVE StorageInv'
    <2>1. PICK ph \in {"open", IF eof(d) THEN "closed" ELSE "stalled"} :
            file' = [file EXCEPT ![d].phase = ph]
      BY <1>9 DEF CheckEof
    <2>2. ph \in {"open", "empty", "closed", "stalled"}
      BY <2>1
    <2>3. file[d].phase = "empty" /\ UNCHANGED <<exists, disk, length, got, latest, overlap>>
      BY <1>9 DEF CheckEof
    <2> QED
      BY <2>1, <2>2, <2>3, PhaseStep
  <1>10. CASE UNCHANGED vars
    BY <1>10 DEF vars, StorageInv, TypeInv, PhaseInv, PlaceInv, Continues, AheadInPlace,
         Sent, ChunksInPlace, InPlace, Place, LoneInv, LoneUpload, LoneDownload, Holds, IsOpen
  <1> QED
    BY <1>1, <1>2, <1>3, <1>4, <1>5, <1>6, <1>7, <1>8, <1>9, <1>10 DEF Next

(* The invariant of the storage, for any number of threads.                *)
THEOREM StorageInvariant == Spec => []StorageInv
  <1>1. Init => StorageInv
    BY InitHolds
  <1>2. StorageInv /\ [Next]_vars => StorageInv'
    BY StepKeeps
  <1> QED
    BY <1>1, <1>2, PTL DEF Spec

(* Every variable keeps its type; no buffer of a file object outgrows      *)
(* BUFFER.                                                                 *)
THEOREM StorageTypeCorrect == Spec => []TypeOK
  <1>1. StorageInv => TypeOK
    BY DEF StorageInv, TypeInv, TypeOK, Files
  <1> QED
    BY <1>1, StorageInvariant, PTL

(* However many threads write, truncate and read one file, every chunk on  *)
(* the disk and every chunk sent is at its place in its own file.          *)
THEOREM StorageChunksInPlace == Spec => []ChunksInPlace
  <1>1. StorageInv => ChunksInPlace
    BY DEF StorageInv, PlaceInv
  <1> QED
    BY <1>1, StorageInvariant, PTL

(* An upload that had the file to itself has stored its file exactly, also *)
(* over a longer one, or over what failed uploads left.                    *)
THEOREM StorageLoneUpload == Spec => []LoneUploadStored
  <1>1. ASSUME StorageInv, NEW t \in latest \ overlap, file[t].phase = "closed"
        PROVE  disk = Content(t)
    <2>1. t \in Uploads /\ length[t] \in Nat /\ disk \in Seq(Chunks)
      BY <1>1, StorageAssumption DEF StorageInv, TypeInv
    <2>2. Len(disk) = length[t] /\ \A i \in 1..length[t] : disk[i] = Chunk(t, i)
      BY <1>1 DEF StorageInv, LoneInv, LoneUpload, Holds
    <2>3. disk = [i \in 1..Len(disk) |-> disk[i]]
      BY <2>1
    <2> QED
      BY <2>2, <2>3 DEF Content
  <1>2. StorageInv => LoneUploadStored
    BY <1>1 DEF LoneUploadStored
  <1> QED
    BY <1>2, StorageInvariant, PTL

LEMMA SameChunks ==
  ASSUME NEW r \in Seq(Chunks), NEW s \in Seq(Chunks), Len(r) = Len(s),
         \A k \in 1..Len(r) : r[k] = s[k]
  PROVE  r = s
  OBVIOUS

(* A download that had the file without an upload has sent all of it when  *)
(* it ends.                                                                *)
THEOREM StorageLoneDownload == Spec => LoneDownloadWhole
  <1>1. ASSUME StorageInv, [Next]_vars, NEW d \in Downloads \ overlap,
               file'[d].phase = "closed", file[d].phase # "closed"
        PROVE  got[d] = disk
    <2>1. d \in Threads /\ d \notin Uploads /\ file \in [Threads -> Files]
      BY <1>1, StorageAssumption DEF StorageInv, TypeInv, Threads
    <2>2. CheckEof(d)
      <3>1. ASSUME NEW t \in Uploads,
                   create_file(t) \/ write(t) \/ AnswerClose(t) \/ close(t) \/ Fail(t)
            PROVE  FALSE
        BY <1>1, <2>1, <3>1
           DEF create_file, write, AnswerClose, close, Fail, Release, Threads
      <3>2. ASSUME NEW e \in Downloads,
                   open_for_read(e) \/ read(e) \/ ReadNothing(e)
            PROVE  FALSE
        BY <1>1, <2>1, <3>2 DEF open_for_read, read, ReadNothing, Threads, Files
      <3>3. ASSUME NEW e \in Downloads, CheckEof(e) PROVE e = d
        BY <1>1, <2>1, <3>3 DEF CheckEof, Threads
      <3>4. ~UNCHANGED vars
        BY <1>1 DEF vars
      <3> QED
        BY <1>1, <3>1, <3>2, <3>3, <3>4 DEF Next
    <2>3. file[d].phase = "empty" /\ eof(d)
      BY <1>1, <2>1, <2>2 DEF CheckEof
    <2>4. /\ file[d].pos =< Len(disk)
          /\ \A k \in 1..Len(got[d]) : got[d][k] = disk[k]
      BY <1>1, <2>3 DEF StorageInv, LoneInv, LoneDownload
    <2>5. /\ got[d] \in Seq(Chunks) /\ disk \in Seq(Chunks)
          /\ file[d].pos \in Nat /\ Len(file[d].buf) \in Nat
          /\ Len(got[d]) = file[d].pos - Len(file[d].buf)
      BY <1>1, <2>1 DEF StorageInv, TypeInv, PlaceInv, AheadInPlace, Sent, Files
    <2>6. Len(got[d]) = Len(disk)
      BY <2>3, <2>4, <2>5 DEF eof
    <2> QED
      BY <2>4, <2>5, <2>6, SameChunks
  <1>2. StorageInv /\ [Next]_vars =>
          [\A t \in Downloads \ overlap :
             file'[t].phase = "closed" /\ file[t].phase # "closed" => got[t] = disk]_vars
    BY <1>1
  <1> QED
    BY <1>2, StorageInvariant, PTL DEF Spec, LoneDownloadWhole

(* What an undisturbed download saw of the end of the file is still so when *)
(* it tests for it.                                                        *)
AtEnd(d) ==
  /\ file[d].phase # "stalled"
  /\ file[d].phase = "empty" => file[d].buf = <<>> /\ file[d].pos >= Len(disk)
EndInv == \A d \in Downloads \ overlap : AtEnd(d)

(* A thread that is not d leaves d and what it saw alone, or disturbs it.  *)
LEMMA OtherKeepsEnd ==
  ASSUME StorageInv, NEW d \in Downloads \ overlap', AtEnd(d),
         NEW t \in Threads \ {d}, NEW f, file' = [file EXCEPT ![t] = f],
         disk' = disk \/ file[d].phase # "empty"
  PROVE  AtEnd(d)'
  <1>1. file'[d] = file[d]
    BY DEF StorageInv, TypeInv, Threads
  <1> QED
    BY <1>1 DEF AtEnd

(* An upload that changes the disk is not open beside an undisturbed       *)
(* download.                                                               *)
LEMMA UploadKeepsEnd ==
  ASSUME StorageInv, NEW d \in Downloads \ overlap', d \notin overlap, AtEnd(d),
         NEW t \in Uploads,
         create_file(t) \/ write(t) \/ AnswerClose(t) \/ close(t) \/ Fail(t)
  PROVE  AtEnd(d)'
  <1>1. t \in Threads \ {d} /\ d \in Threads \ {t}
    BY StorageAssumption DEF Threads
  <1>2. CASE create_file(t)
    <2>1. ~IsOpen(d)
      BY <1>1, <1>2 DEF create_file, Opened
    <2> QED
      BY <1>1, <1>2, <2>1, OtherKeepsEnd DEF create_file, IsOpen
  <1>3. CASE AnswerClose(t)
    BY <1>1, <1>3, OtherKeepsEnd DEF AnswerClose
  <1>4. CASE write(t) \/ close(t) \/ Fail(t)
    <2>1. IsOpen(t)
      BY <1>4 DEF write, close, Fail, IsOpen
    <2>2. file[d].phase # "empty"
      BY <2>1 DEF StorageInv, LoneInv, LoneDownload
    <2>3. \E f : file' = [file EXCEPT ![t] = f]
      BY <1>4 DEF write, close, Fail, Release
    <2> QED
      BY <1>1, <2>2, <2>3, OtherKeepsEnd
  <1> QED
    BY <1>2, <1>3, <1>4

LEMMA DownloadKeepsEnd ==
  ASSUME StorageInv, NEW d \in Downloads \ overlap', d \notin overlap, AtEnd(d),
         NEW e \in Downloads,
         open_for_read(e) \/ read(e) \/ ReadNothing(e) \/ CheckEof(e)
  PROVE  AtEnd(d)'
  <1>1. d \in Threads /\ e \in Threads /\ file[d] \in Files
    BY DEF Threads, StorageInv, TypeInv
  <1>2. disk' = disk
    BY DEF open_for_read, read, ReadNothing, CheckEof
  <1>3. CASE e # d
    <2>1. \E f : file' = [file EXCEPT ![e] = f]
      BY DEF open_for_read, read, ReadNothing, CheckEof
    <2> QED
      BY <1>1, <1>2, <1>3, <2>1, OtherKeepsEnd
  <1>4. CASE e = d
    <2>1. CASE open_for_read(d)
      BY <1>1, <2>1 DEF open_for_read, AtEnd, StorageInv, TypeInv, Files
    <2>2. CASE read(d)
      <3>1. PICK b, p : file' = [file EXCEPT ![d].buf = b]
                     \/ file' = [file EXCEPT ![d].buf = b, ![d].pos = p]
        BY <2>2 DEF read
      <3>2. file'[d].phase = file[d].phase /\ file[d].phase = "open"
        BY <1>1, <2>2, <3>1 DEF read, StorageInv, TypeInv, Files
      <3> QED
        BY <3>2 DEF AtEnd
    <2>3. CASE ReadNothing(d)
      BY <1>1, <1>2, <2>3 DEF ReadNothing, AtEnd, StorageInv, TypeInv, Files
    <2>4. CASE CheckEof(d)
      <3>1. eof(d)
        BY <1>1, <2>4 DEF CheckEof, AtEnd, eof, StorageInv, TypeInv, Files
      <3>2. PICK ph \in {"open", "closed"} : file' = [file EXCEPT ![d].phase = ph]
        BY <2>4, <3>1 DEF CheckEof
      <3> QED
        BY <1>1, <3>2 DEF AtEnd, StorageInv, TypeInv, Files
    <2> QED
      BY <1>4, <2>1, <2>2, <2>3, <2>4
  <1> QED
    BY <1>3, <1>4

(* A download that no upload met never ends in waiting for an ACK of       *)
(* nothing: at the end of the file it sends the FIN.                       *)
THEOREM StorageLoneDownloadEnds == Spec => []LoneDownloadGoesOn
  <1>1. Init => EndInv
    BY DEF Init, EndInv, AtEnd, Threads
  <1>2. StorageInv /\ EndInv /\ [Next]_vars => EndInv'
    <2> SUFFICES ASSUME StorageInv, EndInv, [Next]_vars, NEW d \in Downloads \ overlap'
                 PROVE  AtEnd(d)'
      BY DEF EndInv
    <2>1. overlap \subseteq overlap'
      BY DEF Next, vars, create_file, write, AnswerClose, close, Fail, Release,
             open_for_read, read, ReadNothing, CheckEof, Opened
    <2>2. d \notin overlap /\ AtEnd(d)
      BY <2>1 DEF EndInv
    <2>3. CASE UNCHANGED vars
      BY <2>2, <2>3 DEF vars, AtEnd
    <2>4. CASE Next
      BY <2>2, <2>4, UploadKeepsEnd, DownloadKeepsEnd DEF Next
    <2> QED
      BY <2>3, <2>4
  <1>3. EndInv => LoneDownloadGoesOn
    BY DEF EndInv, AtEnd, LoneDownloadGoesOn
  <1> QED
    BY <1>1, <1>2, <1>3, StorageInvariant, PTL DEF Spec
=============================================================================
