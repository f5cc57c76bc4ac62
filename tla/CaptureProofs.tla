----------------------------- MODULE CaptureProofs -----------------------------
(***************************************************************************)
(* Proofs about CaptureRecorder for any settings, sizes and faults: that a *)
(* record that a reader can be shown is in the recording, through kills,   *)
(* failed writes and prunings, that pages fit together, and that the       *)
(* recordings stay within the budget.                                      *)
(***************************************************************************)
EXTENDS CaptureRecorder, SequenceTheorems, FiniteSetTheorems, WellFoundedInduction, TLAPS

Recording == [bytes : Seq(Ports) \cup {None}, rows : Seq(Row) \cup {None},
              info : Config \cup {None}]

(* Rows that point into the bytes, of ports of the header. *)
Sound(bytes, rows, ports) ==
  /\ bytes \in Seq(Ports) /\ rows \in Seq(Row)
  /\ \A i \in DOMAIN rows :
       /\ rows[i].offset \in DOMAIN bytes /\ bytes[rows[i].offset] = rows[i].port
       /\ rows[i].port \in ports

Begins(a, b) ==
  /\ Len(a) <= Len(b) /\ \A i \in DOMAIN a : a[i] = b[i]

(* A recording that is listed is sound; numbers beyond F are not in use.   *)
DiskOK(d, F) ==
  /\ d \in [File -> Recording]
  /\ \A n \in File :
       /\ d[n].bytes # None /\ d[n].info # None => Sound(d[n].bytes, d[n].rows, d[n].info.ports)
       /\ n > F => d[n] = Gone

(* What a store has in memory is sound, and goes on from what is on the    *)
(* disk of its file.                                                       *)
StoreOK(s, d, F) ==
  /\ s \in [config : Config, file : {n \in File : n <= F} \cup {None},
            bytes : Seq(Ports), rows : Seq(Row), used : {s.used}, dead : BOOLEAN]
  /\ Sound(s.bytes, s.rows, s.config.ports)
  /\ s.file = None => s.bytes = <<>> /\ s.rows = <<>>
  /\ s.file # None /\ ~s.dead =>
       /\ d[s.file].bytes \in Seq(Ports) /\ d[s.file].rows \in Seq(Row)
       /\ Begins(d[s.file].bytes, s.bytes) /\ Begins(d[s.file].rows, s.rows)
       /\ d[s.file].info # None =>
            Sound(d[s.file].bytes, d[s.file].rows, d[s.file].info.ports)
       /\ Len(s.bytes) <= SegmentRows

(* A reader has read the recording from its anchor down; or the recording  *)
(* is gone, and nobody writes it any more: file f is written.              *)
ViewOK(v, d, f, F) ==
  v # NoView =>
    /\ v \in [file : {n \in File : n <= F}, anchor : Nat, page : Nat \ {0}, read : {v.read}]
    /\ \/ /\ d[v.file].rows \in Seq(Row) /\ v.anchor <= Len(d[v.file].rows)
          /\ v.read = [i \in 1..AtMost(v.page * PageRows, v.anchor) |->
                         d[v.file].rows[v.anchor + 1 - i]]
       \/ d[v.file].rows = None /\ f # v.file

(* The disk, the reader and a store go together; there may be no store.    *)
Good(d, s, F, v) == DiskOK(d, F) /\ StoreOK(s, d, F) /\ ViewOK(v, d, s.file, F)

All(d, s, F, v) ==
  (s = None /\ DiskOK(d, F) /\ ViewOK(v, d, None, F)) \/ Good(d, s, F, v)

(* The recorder works with its store's settings, a packet is of one of its *)
(* ports, and a file is opened for a packet only.                          *)
LoopInv ==
  /\ wanted \in Config /\ config \in Config \cup {None}
  /\ pc \in {"down", "loop", "broken"} \cup Stages
  /\ proc \in BOOLEAN /\ (proc => config # None /\ config.on)
  /\ store # None => store.config = config
  /\ pc \in Stages =>
       /\ store.config = config /\ ~store.dead /\ config # None /\ packet \in config.ports
       /\ pc # "rotate" => Len(store.bytes) < SegmentRows
       /\ pc = "write" => store.file # None
  /\ files \in Nat /\ packets \in Nat /\ packets <= MaxPackets
  /\ files <= packets
  /\ pc \in {"rotate", "check", "room", "open"} => files < packets

CapInv ==
  /\ LoopInv
  /\ All(disk, store, files, view)
  /\ pc \in Stages => Good(disk, store, files, view)
-----------------------------------------------------------------------------
(* What a prefix is, entry by entry. *)
LEMMA BeginsIsPrefix ==
  ASSUME NEW X, NEW a \in Seq(X), NEW b \in Seq(X), Begins(a, b)
  PROVE  IsPrefix(a, b)
<1>1. Len(a) \in Nat /\ Len(b) \in Nat /\ Len(a) <= Len(b)
  BY DEF Begins
<1>2. /\ SubSeq(a, 1, Len(a)) \in Seq(X) /\ SubSeq(b, 1, Len(a)) \in Seq(X)
      /\ Len(SubSeq(a, 1, Len(a))) = Len(a) /\ Len(SubSeq(b, 1, Len(a))) = Len(a)
  BY <1>1
<1>3. \A i \in 1..Len(a) : SubSeq(a, 1, Len(a))[i] = a[i] /\ SubSeq(b, 1, Len(a))[i] = b[i]
  BY <1>1
<1>4. \A i \in 1..Len(a) : a[i] = b[i]
  BY DEF Begins
<1>5. SubSeq(a, 1, Len(a)) = SubSeq(b, 1, Len(a))
  BY <1>2, <1>3, <1>4
<1> QED
  BY <1>1, <1>5 DEF IsPrefix

(* Rows stay sound when bytes are added. *)
LEMMA SoundLater ==
  ASSUME NEW a, NEW b \in Seq(Ports), NEW rows, NEW ports,
         Sound(a, rows, ports), Begins(a, b)
  PROVE  Sound(b, rows, ports)
<1>1. a \in Seq(Ports) /\ \A i \in DOMAIN a : i \in DOMAIN b /\ a[i] = b[i]
  BY DEF Sound, Begins
<1> QED
  BY <1>1 DEF Sound

(* A packet and its row are added to both. *)
LEMMA SoundAppend ==
  ASSUME NEW bytes, NEW rows, NEW ports \in SUBSET Ports, NEW p \in ports,
         Sound(bytes, rows, ports)
  PROVE  /\ Sound(Append(bytes, p), rows, ports)
         /\ Sound(Append(bytes, p), Append(rows, [port |-> p, offset |-> Len(bytes) + 1]), ports)
<1> DEFINE row == [port |-> p, offset |-> Len(bytes) + 1]
           b2 == Append(bytes, p)
           r2 == Append(rows, row)
<1>1. bytes \in Seq(Ports) /\ rows \in Seq(Row) /\ Len(bytes) \in Nat /\ Len(rows) \in Nat
  BY DEF Sound
<1>2. row \in Row
  BY <1>1 DEF Row
<1>3. /\ b2 \in Seq(Ports) /\ Len(b2) = Len(bytes) + 1 /\ b2[Len(bytes) + 1] = p
      /\ \A i \in 1..Len(bytes) : b2[i] = bytes[i]
  BY <1>1
<1>4. /\ r2 \in Seq(Row) /\ Len(r2) = Len(rows) + 1 /\ r2[Len(rows) + 1] = row
      /\ \A i \in 1..Len(rows) : r2[i] = rows[i]
  BY <1>1, <1>2
<1>5. Begins(bytes, b2)
  BY <1>1, <1>3 DEF Begins
<1>6. Sound(b2, rows, ports)
  BY <1>3, <1>5, SoundLater
<1>7. Sound(b2, r2, ports)
  <2> SUFFICES ASSUME NEW i \in DOMAIN r2
               PROVE  /\ r2[i].offset \in DOMAIN b2 /\ b2[r2[i].offset] = r2[i].port
                      /\ r2[i].port \in ports
    BY <1>3, <1>4 DEF Sound
  <2>1. i \in 1..Len(rows) \/ i = Len(rows) + 1
    BY <1>1, <1>4
  <2>2. CASE i \in 1..Len(rows)
    <3>1. i \in DOMAIN rows /\ r2[i] = rows[i]
      BY <2>2, <1>1, <1>4
    <3> QED
      BY <3>1, <1>6 DEF Sound
  <2>3. CASE i = Len(rows) + 1
    <3>1. r2[i].offset = Len(bytes) + 1 /\ r2[i].port = p
      BY <2>3, <1>4
    <3>2. Len(bytes) + 1 \in DOMAIN b2
      BY <1>1, <1>3
    <3> QED
      BY <3>1, <3>2, <1>3
  <2> QED
    BY <2>1, <2>2, <2>3
<1> QED
  BY <1>6, <1>7

(* What is on the disk is where the store began, also after it has gone on. *)
LEMMA BeginsAppend ==
  ASSUME NEW X, NEW a \in Seq(X), NEW b \in Seq(X), NEW x \in X, Begins(a, b)
  PROVE  Begins(a, Append(b, x)) /\ Append(b, x) \in Seq(X) /\ Len(Append(b, x)) = Len(b) + 1
<1>1. Len(a) \in Nat /\ Len(b) \in Nat /\ Len(Append(b, x)) = Len(b) + 1
  OBVIOUS
<1>2. \A i \in 1..Len(b) : Append(b, x)[i] = b[i]
  OBVIOUS
<1> QED
  BY <1>1, <1>2 DEF Begins

-----------------------------------------------------------------------------
(* The fields of a store that changes. *)
LEMMA StoreFields ==
  ASSUME NEW s, NEW F, NEW d, StoreOK(s, d, F)
  PROVE  /\ \A w : [s EXCEPT !.dead = w] \in
              [config : {s.config}, file : {s.file}, bytes : {s.bytes}, rows : {s.rows},
               used : {s.used}, dead : {w}]
         /\ \A w : [s EXCEPT !.used = w] \in
              [config : {s.config}, file : {s.file}, bytes : {s.bytes}, rows : {s.rows},
               used : {w}, dead : {s.dead}]
         /\ Closed(s) \in
              [config : {s.config}, file : {None}, bytes : {<<>>}, rows : {<<>>},
               used : {s.used}, dead : {FALSE}]
<1> DEFINE A == {n \in File : n <= F} \cup {None}
<1>1. s \in [config : Config, file : A, bytes : Seq(Ports), rows : Seq(Row),
             used : {s.used}, dead : BOOLEAN]
  BY DEF StoreOK
<1>2. \A w : [s EXCEPT !.dead = w] \in
              [config : {s.config}, file : {s.file}, bytes : {s.bytes}, rows : {s.rows},
               used : {s.used}, dead : {w}]
  BY <1>1
<1>3. \A w : [s EXCEPT !.used = w] \in
              [config : {s.config}, file : {s.file}, bytes : {s.bytes}, rows : {s.rows},
               used : {w}, dead : {s.dead}]
  BY <1>1
<1>4. \A x, y, z, w : [s EXCEPT !.file = x, !.bytes = y, !.rows = z, !.dead = w] \in
              [config : {s.config}, file : {x}, bytes : {y}, rows : {z},
               used : {s.used}, dead : {w}]
  BY <1>1
<1>5. Closed(s) = [s EXCEPT !.file = None, !.bytes = <<>>, !.rows = <<>>, !.dead = FALSE]
  BY DEF Closed
<1> QED
  BY <1>2, <1>3, <1>4, <1>5

(* A store that forgets its file, is dead or counts anew has nothing that  *)
(* the disk has not; and neither has none.                                 *)
LEMMA WithoutStore ==
  ASSUME NEW d, NEW s, NEW F, NEW v, All(d, s, F, v)
  PROVE  All(d, None, F, v) /\ DiskOK(d, F) /\ ViewOK(v, d, None, F)
<1>1. DiskOK(d, F)
  BY DEF All, Good
<1>2. ViewOK(v, d, None, F)
  BY ConstantsAssumption DEF All, Good, ViewOK, File
<1> QED
  BY <1>1, <1>2 DEF All

LEMMA StoreClosed ==
  ASSUME NEW d, NEW s, NEW F, NEW v, Good(d, s, F, v)
  PROVE  /\ Good(d, Closed(s), F, v)
         /\ Closed(s).file = None /\ Closed(s).bytes = <<>> /\ Closed(s).dead = FALSE
         /\ Closed(s).config = s.config
<1>1. StoreOK(s, d, F)
  BY DEF Good
<1> DEFINE t == Closed(s)
<1>2. /\ t \in [config : {s.config}, file : {None}, bytes : {<<>>}, rows : {<<>>},
                used : {s.used}, dead : {FALSE}]
  BY <1>1, StoreFields
<1>3. Sound(<<>>, <<>>, s.config.ports)
  BY DEF Sound
<1> HIDE DEF t
<1>4. /\ t.file = None /\ t.bytes = <<>> /\ t.rows = <<>> /\ t.dead = FALSE
      /\ t.config = s.config /\ t.used = s.used
  BY <1>2
<1>5. s.config \in Config /\ <<>> \in Seq(Ports) /\ <<>> \in Seq(Row)
  BY <1>1 DEF StoreOK
<1>6. t \in [config : Config, file : {n \in File : n <= F} \cup {None},
             bytes : Seq(Ports), rows : Seq(Row), used : {t.used}, dead : BOOLEAN]
  BY <1>2, <1>4, <1>5
<1>7. StoreOK(t, d, F)
  BY <1>3, <1>4, <1>6 DEF StoreOK
<1>8. ViewOK(v, d, t.file, F)
  BY <1>4, ConstantsAssumption DEF Good, ViewOK, File
<1> QED
  BY <1>4, <1>7, <1>8 DEF Good, t

LEMMA ClosedAnywhere ==
  ASSUME NEW d, NEW s, NEW F, NEW v, Good(d, s, F, v), NEW e, NEW t, All(e, t, F, v)
  PROVE  Good(e, Closed(s), F, v) /\ Closed(s).config = s.config
<1>1. Good(d, Closed(s), F, v) /\ Closed(s).file = None /\ Closed(s).config = s.config
  BY StoreClosed
<1>2. StoreOK(Closed(s), e, F)
  BY <1>1 DEF Good, StoreOK
<1>3. DiskOK(e, F) /\ ViewOK(v, e, None, F)
  BY WithoutStore
<1> QED
  BY <1>1, <1>2, <1>3 DEF Good

LEMMA StoreDies ==
  ASSUME NEW d, NEW s, NEW F, NEW v, Good(d, s, F, v)
  PROVE  Good(d, [s EXCEPT !.dead = TRUE], F, v) /\ [s EXCEPT !.dead = TRUE].config = s.config
<1>1. StoreOK(s, d, F)
  BY DEF Good
<1> DEFINE t == [s EXCEPT !.dead = TRUE]
<1>2. /\ t \in [config : {s.config}, file : {s.file}, bytes : {s.bytes}, rows : {s.rows},
                used : {s.used}, dead : {TRUE}]
  BY <1>1, StoreFields
<1> HIDE DEF t
<1>4. /\ t.file = s.file /\ t.bytes = s.bytes /\ t.rows = s.rows /\ t.dead
      /\ t.config = s.config /\ t.used = s.used
  BY <1>2
<1>5. t \in [config : Config, file : {n \in File : n <= F} \cup {None},
             bytes : Seq(Ports), rows : Seq(Row), used : {t.used}, dead : BOOLEAN]
  BY <1>1, <1>2, <1>4 DEF StoreOK
<1>6. StoreOK(t, d, F)
  BY <1>1, <1>4, <1>5 DEF StoreOK
<1>7. ViewOK(v, d, t.file, F)
  BY <1>4 DEF Good, ViewOK
<1> QED
  BY <1>4, <1>6, <1>7 DEF Good, t

Counted(s, u) == [s EXCEPT !.used = u]

LEMMA StoreCounts ==
  ASSUME NEW d, NEW s, NEW F, NEW v, NEW u, Good(d, s, F, v)
  PROVE  /\ Good(d, Counted(s, u), F, v)
         /\ Counted(s, u).config = s.config /\ Counted(s, u).bytes = s.bytes
         /\ Counted(s, u).file = s.file /\ (Counted(s, u).dead <=> s.dead)
<1> DEFINE t == Counted(s, u)
<1>1. StoreOK(s, d, F)
  BY DEF Good
<1>2. /\ t \in [config : {s.config}, file : {s.file}, bytes : {s.bytes}, rows : {s.rows},
                used : {u}, dead : {s.dead}]
  BY <1>1, StoreFields DEF Counted
<1> HIDE DEF t
<1>4. /\ t.file = s.file /\ t.bytes = s.bytes /\ t.rows = s.rows /\ t.dead = s.dead
      /\ t.config = s.config /\ t.used = u
  BY <1>2
<1>5. t \in [config : Config, file : {n \in File : n <= F} \cup {None},
             bytes : Seq(Ports), rows : Seq(Row), used : {t.used}, dead : BOOLEAN]
  BY <1>1, <1>2, <1>4 DEF StoreOK
<1>6. StoreOK(t, d, F)
  BY <1>1, <1>4, <1>5 DEF StoreOK
<1>7. ViewOK(v, d, t.file, F)
  BY <1>4 DEF Good, ViewOK
<1> QED
  BY <1>4, <1>6, <1>7 DEF Good, t

(* The first store, and one for new settings. *)
LEMMA StoreNew ==
  ASSUME NEW d, NEW s, NEW F, NEW v, NEW u, NEW c \in Config, All(d, s, F, v)
  PROVE  Good(d, NewStore(c, u), F, v)
<1> DEFINE t == NewStore(c, u)
<1>1. Sound(<<>>, <<>>, c.ports)
  BY DEF Sound
<1>2. /\ t \in [config : Config, file : {n \in File : n <= F} \cup {None},
                bytes : Seq(Ports), rows : Seq(Row), used : {t.used}, dead : BOOLEAN]
      /\ t.config = c /\ t.file = None /\ t.bytes = <<>> /\ t.rows = <<>>
  BY DEF NewStore
<1> HIDE DEF t
<1>3. StoreOK(t, d, F)
  BY <1>1, <1>2 DEF StoreOK
<1>4. DiskOK(d, F) /\ ViewOK(v, d, t.file, F)
  BY <1>2, WithoutStore
<1> QED
  BY <1>3, <1>4 DEF Good, t

(* The first half of a flush: the rows on the disk are sound in more bytes. *)
LEMMA BytesWritten ==
  ASSUME NEW d, NEW s, NEW F \in Nat, NEW v, ~s.dead, Good(d, s, F, v)
  PROVE  Good(WithBytes(d, s), s, F, v)
<1> DEFINE f == s.file
           e == WithBytes(d, s)
<1>1. /\ DiskOK(d, F) /\ StoreOK(s, d, F) /\ ViewOK(v, d, s.file, F)
  BY DEF Good
<1>2. CASE f = None
  BY <1>2, <1>1 DEF Good, WithBytes, Open
<1>3. CASE f # None
  <2>1. f \in File /\ f <= F
    BY <1>1, <1>3 DEF StoreOK
  <2>2. /\ d \in [File -> Recording] /\ d[f] \in Recording
    BY <1>1, <2>1 DEF DiskOK
  <2>3. /\ e = [d EXCEPT ![f].bytes = s.bytes]
        /\ s.bytes \in Seq(Ports)
    BY <1>1, <1>3 DEF WithBytes, Open, StoreOK, Sound
  <2>4. /\ \A n \in File \ {f} : e[n] = d[n]
        /\ e[f] = [bytes |-> s.bytes, rows |-> d[f].rows, info |-> d[f].info]
        /\ e \in [File -> Recording]
    BY <2>1, <2>2, <2>3 DEF Recording
  <2>5. /\ d[f].bytes \in Seq(Ports) /\ Begins(d[f].bytes, s.bytes)
        /\ d[f].info # None => Sound(d[f].bytes, d[f].rows, d[f].info.ports)
    BY <1>1, <1>3 DEF StoreOK
  <2>6. d[f].info # None => Sound(s.bytes, d[f].rows, d[f].info.ports)
    BY <2>3, <2>5, SoundLater
  <2>7. DiskOK(e, F)
    <3>1. ASSUME NEW n \in File
          PROVE  /\ e[n].bytes # None /\ e[n].info # None =>
                      Sound(e[n].bytes, e[n].rows, e[n].info.ports)
                 /\ n > F => e[n] = Gone
      <4>1. CASE n = f
        <5>1. ~(n > F)
          BY <4>1, <2>1, <1>1 DEF StoreOK, File
        <5> QED
          BY <4>1, <5>1, <2>4, <2>6
      <4>2. CASE n # f
        BY <4>2, <2>4, <1>1 DEF DiskOK
      <4> QED
        BY <4>1, <4>2
    <3> QED
      BY <2>4, <3>1 DEF DiskOK
  <2>8. Begins(s.bytes, s.bytes)
    BY <2>3 DEF Begins
  <2>9. StoreOK(s, e, F)
    BY <1>1, <1>3, <2>4, <2>1, <2>3, <2>6, <2>8 DEF StoreOK
  <2>10. \A n \in File : e[n].rows = d[n].rows
    BY <2>4
  <2>11. ViewOK(v, e, s.file, F)
    BY <1>1, <2>10 DEF ViewOK
  <2> QED
    BY <2>7, <2>9, <2>11 DEF Good
<1> QED
  BY <1>2, <1>3

(* The second half: the index catches up, under its header. *)
LEMMA RowsWritten ==
  ASSUME NEW d, NEW s, NEW F \in Nat, NEW v, ~s.dead, Good(d, s, F, v),
         s.file # None => d[s.file].bytes = s.bytes
  PROVE  Good(WithRows(d, s), s, F, v)
<1> DEFINE f == s.file
           e == WithRows(d, s)
<1>1. /\ DiskOK(d, F) /\ StoreOK(s, d, F) /\ ViewOK(v, d, s.file, F)
  BY DEF Good
<1>2. CASE f = None
  BY <1>2, <1>1 DEF Good, WithRows, Open
<1>3. CASE f # None
  <2>1. f \in File /\ f <= F
    BY <1>1, <1>3 DEF StoreOK
  <2>2. /\ d \in [File -> Recording] /\ d[f] \in Recording
    BY <1>1, <2>1 DEF DiskOK
  <2>3. /\ e = [d EXCEPT ![f].rows = s.rows, ![f].info = s.config]
        /\ s.rows \in Seq(Row) /\ s.config \in Config
        /\ Sound(s.bytes, s.rows, s.config.ports)
    BY <1>1, <1>3 DEF WithRows, Open, StoreOK, Sound
  <2>4. /\ \A n \in File \ {f} : e[n] = d[n]
        /\ e[f] = [bytes |-> s.bytes, rows |-> s.rows, info |-> s.config]
        /\ e \in [File -> Recording]
    BY <2>1, <2>2, <2>3, <1>3 DEF Recording
  <2>7. DiskOK(e, F)
    <3>1. ASSUME NEW n \in File
          PROVE  /\ e[n].bytes # None /\ e[n].info # None =>
                      Sound(e[n].bytes, e[n].rows, e[n].info.ports)
                 /\ n > F => e[n] = Gone
      <4>1. CASE n = f
        <5>1. ~(n > F)
          BY <4>1, <2>1, <1>1 DEF StoreOK, File
        <5> QED
          BY <4>1, <5>1, <2>4, <2>3
      <4>2. CASE n # f
        BY <4>2, <2>4, <1>1 DEF DiskOK
      <4> QED
        BY <4>1, <4>2
    <3> QED
      BY <2>4, <3>1 DEF DiskOK
  <2>8. Begins(s.bytes, s.bytes) /\ Begins(s.rows, s.rows) /\ s.bytes \in Seq(Ports)
    BY <2>3 DEF Begins, Sound
  <2>9. StoreOK(s, e, F)
    BY <1>1, <1>3, <2>4, <2>1, <2>3, <2>8 DEF StoreOK
  <2>10. /\ d[f].rows \in Seq(Row) /\ Begins(d[f].rows, s.rows)
    BY <1>1, <1>3 DEF StoreOK
  <2>11. ViewOK(v, e, s.file, F)
    <3> SUFFICES ASSUME v # NoView PROVE ViewOK(v, e, s.file, F)
      BY DEF ViewOK
    <3>1. v.file \in File
      BY <1>1 DEF ViewOK
    <3>2. CASE v.file # f
      <4>1. e[v.file] = d[v.file]
        BY <3>1, <3>2, <2>4
      <4> QED
        BY <4>1, <1>1 DEF ViewOK
    <3>3. CASE v.file = f
      <4>1. /\ v.anchor <= Len(d[f].rows) /\ v.anchor \in Nat
            /\ v.read = [i \in 1..AtMost(v.page * PageRows, v.anchor) |->
                           d[f].rows[v.anchor + 1 - i]]
        BY <3>3, <1>1 DEF ViewOK
      <4>2. Len(d[f].rows) \in Nat /\ Len(s.rows) \in Nat /\ Len(d[f].rows) <= Len(s.rows)
        BY <2>10, <2>3 DEF Begins
      <4>3. v.anchor <= Len(s.rows)
        BY <4>1, <4>2
      <4>4. v.page * PageRows \in Nat
        BY <1>1, ConstantsAssumption DEF ViewOK
      <4>5. ASSUME NEW i \in 1..AtMost(v.page * PageRows, v.anchor)
            PROVE  d[f].rows[v.anchor + 1 - i] = s.rows[v.anchor + 1 - i]
        <5>1. v.anchor + 1 - i \in 1..Len(d[f].rows)
          BY <4>1, <4>2, <4>4 DEF AtMost
        <5> QED
          BY <5>1, <2>10 DEF Begins
      <4>6. v.read = [i \in 1..AtMost(v.page * PageRows, v.anchor) |->
                        s.rows[v.anchor + 1 - i]]
        BY <4>1, <4>5
      <4> QED
        BY <3>3, <4>3, <4>6, <2>4, <2>3, <1>1 DEF ViewOK
    <3> QED
      BY <3>2, <3>3
  <2> QED
    BY <2>7, <2>9, <2>11 DEF Good
<1> QED
  BY <1>2, <1>3

LEMMA FlushKeeps ==
  ASSUME NEW d, NEW s, NEW F \in Nat, NEW v, ~s.dead, Good(d, s, F, v)
  PROVE  Good(Flushed(d, s), s, F, v) /\ \A e \in HalfFlushed(d, s) : Good(e, s, F, v)
<1>1. Good(WithBytes(d, s), s, F, v)
  BY BytesWritten
<1>2. ASSUME s.file # None PROVE WithBytes(d, s)[s.file].bytes = s.bytes
  <2>1. s.file \in File /\ d \in [File -> Recording]
    BY <1>2 DEF Good, StoreOK, DiskOK
  <2> QED
    BY <2>1, <1>2 DEF WithBytes, Open, Recording
<1>3. Good(Flushed(d, s), s, F, v)
  BY <1>1, <1>2, RowsWritten DEF Flushed
<1> QED
  BY <1>1, <1>3 DEF HalfFlushed

-----------------------------------------------------------------------------
(* Prunings take files away, but never that of the store. *)
Prunes(d, e, f) ==
  /\ e \in [File -> Recording]
  /\ \A n \in File :
       \/ e[n] = d[n]
       \/ /\ n # f
          /\ \/ e[n] = [bytes |-> None, rows |-> d[n].rows, info |-> d[n].info]
             \/ e[n] = [bytes |-> d[n].bytes, rows |-> None, info |-> None]
             \/ e[n] = Gone

LEMMA WithoutPrunes ==
  ASSUME NEW d \in [File -> Recording], NEW f, NEW N \in SUBSET (File \ {f})
  PROVE  Prunes(d, Without(d, N), f)
<1>1. Gone \in Recording
  BY DEF Gone, Recording
<1>2. Without(d, N) \in [File -> Recording]
  BY <1>1 DEF Without
<1> QED
  BY <1>2 DEF Prunes, Without

LEMMA PartPrunes ==
  ASSUME NEW d \in [File -> Recording], NEW f, NEW N \in SUBSET (File \ {f}), NEW n \in File \ {f},
         n \notin N
  PROVE  LET e == Without(d, N)
         IN  /\ Prunes(d, [e EXCEPT ![n].bytes = None], f)
             /\ Prunes(d, [e EXCEPT ![n].rows = None, ![n].info = None], f)
             /\ Prunes(d, [e EXCEPT ![n] = Gone], f)
<1> DEFINE e == Without(d, N)
<1>1. e \in [File -> Recording] /\ Gone \in Recording
  BY WithoutPrunes DEF Prunes, Gone, Recording
<1>2. e[n] = d[n] /\ d[n] \in Recording /\ \A m \in File : e[m] = d[m] \/ (m # f /\ e[m] = Gone)
  BY DEF Without
<1> HIDE DEF e
<1>3. Prunes(d, [e EXCEPT ![n] = Gone], f)
  BY <1>1, <1>2 DEF Prunes
<1>4. Prunes(d, [e EXCEPT ![n].bytes = None], f)
  <2> DEFINE g == [e EXCEPT ![n].bytes = None]
  <2>1. /\ g[n] = [bytes |-> None, rows |-> d[n].rows, info |-> d[n].info]
        /\ \A m \in File \ {n} : g[m] = e[m]
        /\ g \in [File -> Recording]
    BY <1>1, <1>2 DEF Recording
  <2> QED
    BY <1>2, <2>1 DEF Prunes
<1>5. Prunes(d, [e EXCEPT ![n].rows = None, ![n].info = None], f)
  <2> DEFINE g == [e EXCEPT ![n].rows = None, ![n].info = None]
  <2>1. /\ g[n] = [bytes |-> d[n].bytes, rows |-> None, info |-> None]
        /\ \A m \in File \ {n} : g[m] = e[m]
        /\ g \in [File -> Recording]
    BY <1>1, <1>2 DEF Recording
  <2> QED
    BY <1>2, <2>1 DEF Prunes
<1> QED
  BY <1>3, <1>4, <1>5 DEF e

LEMMA PruningsPrune ==
  ASSUME NEW d \in [File -> Recording], NEW s
  PROVE  /\ \A e \in Prunings(d, s) : Prunes(d, e, s.file)
         /\ \A e \in HalfPruned(d, s) : Prunes(d, e, s.file)
<1>1. \A k : Doomed(d, s, k) \in SUBSET (File \ {s.file})
  BY DEF Doomed
<1>2. \A e \in Prunings(d, s) : Prunes(d, e, s.file)
  BY <1>1, WithoutPrunes DEF Prunings
<1>3. Prunes(d, d, s.file)
  BY DEF Prunes
<1>4. ASSUME NEW e \in HalfPruned(d, s), e # d
      PROVE  Prunes(d, e, s.file)
  <2>1. PICK k \in 0..files : \E n \in Doomed(d, s, k) :
          LET g == Without(d, {m \in Doomed(d, s, k) : m < n})
          IN  e \in {[g EXCEPT ![n].bytes = None], [g EXCEPT ![n].rows = None, ![n].info = None],
                     [g EXCEPT ![n] = Gone]}
    BY <1>4 DEF HalfPruned
  <2>2. PICK n \in Doomed(d, s, k) :
          LET g == Without(d, {m \in Doomed(d, s, k) : m < n})
          IN  e \in {[g EXCEPT ![n].bytes = None], [g EXCEPT ![n].rows = None, ![n].info = None],
                     [g EXCEPT ![n] = Gone]}
    BY <2>1
  <2> DEFINE N == {m \in Doomed(d, s, k) : m < n}
  <2>3. N \in SUBSET (File \ {s.file}) /\ n \in File \ {s.file} /\ n \notin N
    BY <1>1 DEF File
  <2>4. d \in [File -> Recording]
    OBVIOUS
  <2> DEFINE g == Without(d, N)
  <2>5. /\ Prunes(d, [g EXCEPT ![n].bytes = None], s.file)
        /\ Prunes(d, [g EXCEPT ![n].rows = None, ![n].info = None], s.file)
        /\ Prunes(d, [g EXCEPT ![n] = Gone], s.file)
    BY <2>3, <2>4, PartPrunes
  <2> HIDE DEF g
  <2>6. e \in {[g EXCEPT ![n].bytes = None], [g EXCEPT ![n].rows = None, ![n].info = None],
               [g EXCEPT ![n] = Gone]}
    BY <2>2 DEF g
  <2> QED
    BY <2>5, <2>6
<1> QED
  BY <1>2, <1>3, <1>4

(* What is left is sound, and the store and the reader have theirs. *)
LEMMA PruneKeeps ==
  ASSUME NEW d, NEW s, NEW F, NEW v, NEW e, NEW f, All(d, s, F, v), Prunes(d, e, f)
  PROVE  /\ All(e, None, F, v)
         /\ Good(d, s, F, v) /\ s.file \in {f, None} => Good(e, s, F, v)
<1>1. DiskOK(d, F)
  BY WithoutStore
<1>2. DiskOK(e, F)
  <2>1. ASSUME NEW n \in File
        PROVE  /\ e[n].bytes # None /\ e[n].info # None =>
                    Sound(e[n].bytes, e[n].rows, e[n].info.ports)
               /\ n > F => e[n] = Gone
    <3>1. /\ d[n].bytes # None /\ d[n].info # None =>
               Sound(d[n].bytes, d[n].rows, d[n].info.ports)
          /\ n > F => d[n] = Gone
      BY <1>1 DEF DiskOK
    <3>2. CASE e[n] = d[n]
      BY <3>1, <3>2
    <3>3. CASE e[n] = [bytes |-> None, rows |-> d[n].rows, info |-> d[n].info]
      BY <3>1, <3>3 DEF Gone
    <3>4. CASE e[n] = [bytes |-> d[n].bytes, rows |-> None, info |-> None]
      BY <3>1, <3>4 DEF Gone
    <3>5. CASE e[n] = Gone
      BY <3>5 DEF Gone
    <3> QED
      BY <3>2, <3>3, <3>4, <3>5 DEF Prunes
  <2> QED
    BY <2>1 DEF DiskOK, Prunes
<1>3. ASSUME Good(d, s, F, v), s.file \in {f, None} PROVE StoreOK(s, e, F)
  <2>1. StoreOK(s, d, F)
    BY <1>3 DEF Good
  <2>2. CASE s.file = None
    BY <2>1, <2>2 DEF StoreOK
  <2>3. CASE s.file # None
    <3>1. s.file \in File /\ s.file = f
      BY <1>3, <2>1, <2>3 DEF StoreOK
    <3>2. e[s.file] = d[s.file]
      BY <3>1 DEF Prunes
    <3> QED
      BY <2>1, <3>2 DEF StoreOK
  <2> QED
    BY <2>2, <2>3
<1>4. ASSUME NEW g, g \in {f, None}, ViewOK(v, d, g, F) PROVE ViewOK(v, e, g, F)
  <2> SUFFICES ASSUME v # NoView PROVE ViewOK(v, e, g, F)
    BY DEF ViewOK
  <2>1. v.file \in File /\ v.file # None
    BY <1>4, ConstantsAssumption DEF ViewOK, File
  <2>2. e[v.file].rows = d[v.file].rows \/ (e[v.file].rows = None /\ v.file # f)
    BY <2>1 DEF Prunes, Gone
  <2>3. CASE e[v.file].rows = d[v.file].rows
    BY <2>3, <1>4 DEF ViewOK
  <2>4. CASE e[v.file].rows = None /\ v.file # f
    BY <2>1, <2>4, <1>4 DEF ViewOK
  <2> QED
    BY <2>2, <2>3, <2>4
<1>5. All(e, None, F, v)
  BY <1>2, <1>4, WithoutStore DEF All
<1>6. ASSUME Good(d, s, F, v), s.file \in {f, None} PROVE Good(e, s, F, v)
  BY <1>2, <1>3, <1>4, <1>6 DEF Good
<1> QED
  BY <1>5, <1>6

-----------------------------------------------------------------------------
(* A recording is opened under a new number: what is there is not listed   *)
(* yet, and nobody reads it. The index may be missing when the store dies. *)
LEMMA FileOpened ==
  ASSUME NEW d, NEW s, NEW F \in Nat, NEW v, NEW e,
         Good(d, s, F, v), s.file = None, F + 1 \in File,
         e \in {[d EXCEPT ![F + 1].bytes = <<>>],
                [d EXCEPT ![F + 1].bytes = <<>>, ![F + 1].rows = <<>>]}
  PROVE  /\ All(e, None, F + 1, v)
         /\ \A t, u, b :
              /\ t \in [config : {s.config}, file : {F + 1}, bytes : {s.bytes},
                        rows : {s.rows}, used : {u}, dead : {b}]
              /\ b \in BOOLEAN /\ (~b => e[F + 1].rows = <<>>)
              => Good(e, t, F + 1, v)
<1> DEFINE n == F + 1
<1>1. DiskOK(d, F) /\ StoreOK(s, d, F) /\ ViewOK(v, d, s.file, F)
  BY DEF Good
<1>2. d \in [File -> Recording] /\ n \in File /\ d[n] = Gone /\ <<>> \in Seq(Ports) /\ <<>> \in Seq(Row)
  BY <1>1 DEF DiskOK
<1>3. /\ e \in [File -> Recording] /\ \A m \in File \ {n} : e[m] = d[m]
      /\ e[n].bytes = <<>> /\ e[n].info = None
  <2>1. CASE e = [d EXCEPT ![n].bytes = <<>>]
    <3>1. [d[n] EXCEPT !.bytes = <<>>] = [bytes |-> <<>>, rows |-> None, info |-> None]
      BY <1>2 DEF Gone
    <3>2. [bytes |-> <<>>, rows |-> None, info |-> None] \in Recording
      BY <1>2 DEF Recording
    <3>3. e = [d EXCEPT ![n] = [bytes |-> <<>>, rows |-> None, info |-> None]]
      BY <2>1, <3>1
    <3> HIDE DEF n
    <3> QED
      BY <1>2, <3>2, <3>3
  <2>2. CASE e = [d EXCEPT ![n].bytes = <<>>, ![n].rows = <<>>]
    <3> DEFINE g == [d[n] EXCEPT !.bytes = <<>>, !.rows = <<>>]
    <3>1. d[n] \in [bytes : {None}, rows : {None}, info : {None}]
      BY <1>2 DEF Gone
    <3>2. g \in [bytes : {<<>>}, rows : {<<>>}, info : {None}]
      BY <3>1
    <3>3. e = [d EXCEPT ![n] = g]
      BY <1>2, <2>2
    <3> HIDE DEF n, g
    <3>4. g \in Recording /\ g.bytes = <<>> /\ g.info = None
      BY <1>2, <3>2 DEF Recording
    <3> QED
      BY <1>2, <3>3, <3>4
  <2> QED
    BY <2>1, <2>2
<1>4. DiskOK(e, n)
  <2>1. ASSUME NEW m \in File
        PROVE  /\ e[m].bytes # None /\ e[m].info # None =>
                    Sound(e[m].bytes, e[m].rows, e[m].info.ports)
               /\ m > n => e[m] = Gone
    <3>1. CASE m = n
      BY <3>1, <1>3
    <3>2. CASE m # n
      <4>1. e[m] = d[m] /\ (m > n => m > F)
        BY <3>2, <1>3 DEF File
      <4> QED
        BY <4>1, <1>1 DEF DiskOK
    <3> QED
      BY <3>1, <3>2
  <2> QED
    BY <1>3, <2>1 DEF DiskOK
<1>5. ASSUME NEW g, g \in {n, None} PROVE ViewOK(v, e, g, n)
  <2> SUFFICES ASSUME v # NoView PROVE ViewOK(v, e, g, n)
    BY DEF ViewOK
  <2>1. v.file \in File /\ v.file <= F /\ v.file # n /\ v.file <= n /\ v.file # None
    BY <1>1, ConstantsAssumption DEF ViewOK, File
  <2>2. e[v.file] = d[v.file]
    BY <2>1, <1>3
  <2> HIDE DEF n
  <2> QED
    BY <1>1, <1>5, <2>1, <2>2 DEF ViewOK
<1>6. ASSUME NEW t, NEW u, NEW b \in BOOLEAN, ~b => e[n].rows = <<>>,
             t \in [config : {s.config}, file : {n}, bytes : {s.bytes},
                    rows : {s.rows}, used : {u}, dead : {b}]
      PROVE  Good(e, t, n, v)
  <2>2. s.bytes = <<>> /\ s.rows = <<>> /\ s.config \in Config /\ Sound(<<>>, <<>>, s.config.ports)
    BY <1>1 DEF StoreOK, Sound
  <2>3. /\ t.file = n /\ t.bytes = <<>> /\ t.rows = <<>> /\ t.config = s.config /\ t.used = u
        /\ t.dead = b
    BY <1>6, <2>2
  <2>4. t \in [config : Config, file : {m \in File : m <= n} \cup {None},
               bytes : Seq(Ports), rows : Seq(Row), used : {t.used}, dead : BOOLEAN]
    <3>1. n \in {m \in File : m <= n}
      BY <1>2 DEF File
    <3> HIDE DEF n
    <3> QED
      BY <1>2, <1>6, <2>2, <2>3, <3>1
  <2>5. Begins(<<>>, <<>>) /\ Len(<<>>) <= SegmentRows
    BY ConstantsAssumption DEF Begins
  <2>6. ~t.dead => e[n].rows = <<>>
    BY <1>6, <2>3
  <2>7. n # None
    BY ConstantsAssumption
  <2>8. ViewOK(v, e, t.file, n)
    BY <1>5, <2>3
  <2> HIDE DEF n
  <2>9. StoreOK(t, e, n)
    BY <1>2, <1>3, <2>2, <2>3, <2>4, <2>5, <2>6, <2>7 DEF StoreOK
  <2> QED
    BY <1>4, <2>8, <2>9 DEF Good
<1> QED
  BY <1>4, <1>5, <1>6 DEF All

(* The store after a packet, and after its bytes alone. *)
Appended(s, p) ==
  [s EXCEPT !.bytes = Append(@, p),
            !.rows = Append(@, [port |-> p, offset |-> Len(s.bytes) + 1]), !.used = @ + 1]
HalfAppended(s, p) == [s EXCEPT !.bytes = Appended(s, p).bytes]

LEMMA StoreAppends ==
  ASSUME NEW d, NEW s, NEW F, NEW v, Good(d, s, F, v), NEW p \in s.config.ports,
         ~s.dead, Len(s.bytes) < SegmentRows, s.file # None
  PROVE  /\ Good(d, Appended(s, p), F, v)
         /\ Appended(s, p).config = s.config /\ ~Appended(s, p).dead
         /\ Good(d, HalfAppended(s, p), F, v)
         /\ HalfAppended(s, p).config = s.config /\ ~HalfAppended(s, p).dead
<1> DEFINE row == [port |-> p, offset |-> Len(s.bytes) + 1]
           t == Appended(s, p)
           h == HalfAppended(s, p)
<1>1. StoreOK(s, d, F) /\ ViewOK(v, d, s.file, F) /\ DiskOK(d, F)
  BY DEF Good
<1>2. s \in [config : Config, file : {n \in File : n <= F} \cup {None},
             bytes : Seq(Ports), rows : Seq(Row), used : {s.used}, dead : BOOLEAN]
  BY <1>1 DEF StoreOK
<1>3. s.config.ports \in SUBSET Ports /\ p \in Ports /\ s.config \in Config /\ s.dead = FALSE
  BY <1>2 DEF Ports
<1>4. /\ Sound(Append(s.bytes, p), s.rows, s.config.ports)
      /\ Sound(Append(s.bytes, p), Append(s.rows, row), s.config.ports)
  BY <1>1, <1>3, SoundAppend DEF StoreOK
<1>5. /\ t \in [config : {s.config}, file : {s.file}, bytes : {Append(s.bytes, p)},
                rows : {Append(s.rows, row)}, used : {s.used + 1}, dead : {FALSE}]
      /\ t.bytes = Append(s.bytes, p)
  BY <1>2, <1>3 DEF Appended
<1>6. h \in [config : {s.config}, file : {s.file}, bytes : {Append(s.bytes, p)},
             rows : {s.rows}, used : {s.used}, dead : {FALSE}]
  BY <1>2, <1>3, <1>5 DEF HalfAppended
<1>7. s.file \in File /\ s.file \in {n \in File : n <= F}
  BY <1>2
<1>8. /\ d[s.file].bytes \in Seq(Ports) /\ d[s.file].rows \in Seq(Row)
      /\ Begins(d[s.file].bytes, s.bytes) /\ Begins(d[s.file].rows, s.rows)
      /\ d[s.file].info # None => Sound(d[s.file].bytes, d[s.file].rows, d[s.file].info.ports)
  BY <1>1, <1>3 DEF StoreOK
<1>9. row \in Row /\ s.bytes \in Seq(Ports) /\ s.rows \in Seq(Row) /\ Len(s.bytes) \in Nat
  BY <1>2, <1>3 DEF Row
<1>10. /\ Begins(d[s.file].bytes, Append(s.bytes, p)) /\ Append(s.bytes, p) \in Seq(Ports)
       /\ Len(Append(s.bytes, p)) = Len(s.bytes) + 1
  BY <1>3, <1>8, <1>9, BeginsAppend
<1>11. Begins(d[s.file].rows, Append(s.rows, row)) /\ Append(s.rows, row) \in Seq(Row)
  BY <1>8, <1>9, BeginsAppend
<1>12. Len(s.bytes) + 1 <= SegmentRows
  BY <1>9, ConstantsAssumption
<1> HIDE DEF t, h, row
<1>13. /\ t.config = s.config /\ t.file = s.file /\ t.bytes = Append(s.bytes, p)
       /\ t.rows = Append(s.rows, row) /\ t.dead = FALSE
       /\ t \in [config : Config, file : {n \in File : n <= F} \cup {None},
                 bytes : Seq(Ports), rows : Seq(Row), used : {t.used}, dead : BOOLEAN]
  BY <1>3, <1>5, <1>7, <1>10, <1>11
<1>14. /\ h.config = s.config /\ h.file = s.file /\ h.bytes = Append(s.bytes, p)
       /\ h.rows = s.rows /\ h.dead = FALSE
       /\ h \in [config : Config, file : {n \in File : n <= F} \cup {None},
                 bytes : Seq(Ports), rows : Seq(Row), used : {h.used}, dead : BOOLEAN]
  BY <1>3, <1>6, <1>7, <1>9, <1>10
<1>15. StoreOK(t, d, F)
  BY <1>4, <1>8, <1>10, <1>11, <1>12, <1>13 DEF StoreOK
<1>16. StoreOK(h, d, F)
  BY <1>4, <1>8, <1>10, <1>12, <1>14 DEF StoreOK
<1>17. ViewOK(v, d, t.file, F) /\ ViewOK(v, d, h.file, F)
  BY <1>1, <1>13, <1>14
<1> QED
  BY <1>1, <1>13, <1>14, <1>15, <1>16, <1>17 DEF Good, t, h

-----------------------------------------------------------------------------
(* Where a step leads to: it is broken off, or the append goes on. *)
LEMMA ConfigIs ==
  ASSUME CapInv, store # None \/ pc \in Stages
  PROVE  /\ Good(disk, store, files, view) /\ config \in Config /\ store.config = config
         /\ files \in Nat
<1>1. Good(disk, store, files, view)
  BY DEF CapInv, All
<1>2. store.config = config
  BY DEF CapInv, LoopInv
<1>3. store.config \in Config
  BY <1>1 DEF Good, StoreOK
<1> QED
  BY <1>1, <1>2, <1>3 DEF CapInv, LoopInv

LEMMA BrokenOffKeeps ==
  ASSUME CapInv, NEW D, NEW s, BrokenOff(D, s),
         \A e \in D : All(e, s, files, view), s # None => s.config = config
  PROVE  CapInv'
<1>1. /\ disk' \in D /\ UNCHANGED <<wanted, view, files, packets, changes>>
  BY DEF BrokenOff
<1>2. All(disk', s, files, view)
  BY <1>1
<1>3. CASE pc' = "broken" /\ store' = s /\ UNCHANGED <<proc, config, packet>>
  <2>1. LoopInv'
    BY <1>1, <1>3 DEF CapInv, LoopInv, Stages
  <2>2. All(disk', store', files', view')
    BY <1>1, <1>2, <1>3
  <2> QED
    BY <1>3, <2>1, <2>2 DEF CapInv, Stages
<1>4. CASE Dies
  <2>1. LoopInv'
    BY <1>1, <1>4 DEF CapInv, LoopInv, Stages, Dies
  <2>2. All(disk', None, files', view')
    BY <1>1, <1>2, WithoutStore
  <2> QED
    BY <1>4, <2>1, <2>2 DEF CapInv, Dies, Stages
<1> QED
  BY <1>3, <1>4 DEF BrokenOff

LEMMA CloseBreaksKeeps ==
  ASSUME CapInv, CloseBreaks, store # None \/ pc \in Stages, ~store.dead
  PROVE  CapInv'
<1>1. Good(disk, store, files, view) /\ store.config = config /\ files \in Nat
  BY ConfigIs
<1>2. CASE BrokenOff({disk}, [store EXCEPT !.dead = TRUE])
  <2> DEFINE t == [store EXCEPT !.dead = TRUE]
  <2>1. Good(disk, t, files, view) /\ t.config = config
    BY <1>1, StoreDies
  <2> HIDE DEF t
  <2>2. BrokenOff({disk}, t)
    BY <1>2 DEF t
  <2> QED
    BY <2>1, <2>2, BrokenOffKeeps DEF All
<1>3. CASE BrokenOff(HalfFlushed(disk, store), Closed(store))
  <2>1. ASSUME NEW e \in HalfFlushed(disk, store)
        PROVE  Good(e, Closed(store), files, view)
    <3>1. Good(e, store, files, view)
      BY <1>1, FlushKeeps
    <3> QED
      BY <3>1, StoreClosed
  <2>2. Closed(store).config = config
    BY <1>1, StoreClosed
  <2> QED
    BY <1>3, <2>1, <2>2, BrokenOffKeeps DEF All
<1> QED
  BY <1>2, <1>3 DEF CloseBreaks

LEMMA GoesKeeps ==
  ASSUME CapInv, NEW to, NEW d, NEW s, Goes(to, d, s), Good(d, s, files, view),
         s.config = config,
         \/ to = "loop"
         \/ /\ pc \in {"rotate", "check", "room", "open"} /\ packet' = packet
            /\ to \in {"check", "room", "open", "write"}
            /\ ~s.dead /\ Len(s.bytes) < SegmentRows /\ (to = "write" => s.file # None)
  PROVE  CapInv'
<1>1. /\ pc' = to /\ disk' = d /\ store' = s
      /\ UNCHANGED <<wanted, config, proc, view, faults, files, packets, changes>>
  BY DEF Goes
<1>2. Good(disk', store', files', view')
  BY <1>1
<1>3. LoopInv'
  <2>1. CASE to = "loop"
    BY <1>1, <2>1 DEF CapInv, LoopInv, Stages
  <2>2. CASE /\ pc \in {"rotate", "check", "room", "open"} /\ packet' = packet
             /\ to \in {"check", "room", "open", "write"}
             /\ ~s.dead /\ Len(s.bytes) < SegmentRows /\ (to = "write" => s.file # None)
    <3>1. /\ config # None /\ packet \in config.ports /\ files < packets
      BY <2>2 DEF CapInv, LoopInv, Stages
    <3> QED
      BY <1>1, <2>2, <3>1 DEF CapInv, LoopInv, Stages
  <2> QED
    BY <2>1, <2>2
<1> QED
  BY <1>2, <1>3 DEF CapInv, All

LEMMA SkipKeeps ==
  ASSUME CapInv, NEW d, Skip(d), NEW t, All(d, t, files, view), store # None \/ pc \in Stages
  PROVE  CapInv'
<1>1. Goes("loop", d, Closed(store)) /\ Good(disk, store, files, view) /\ store.config = config
  BY ConfigIs DEF Skip
<1>2. Good(d, Closed(store), files, view) /\ Closed(store).config = config
  BY <1>1, ClosedAnywhere
<1> QED
  BY <1>1, <1>2, GoesKeeps

LEMMA PruneAndKeeps ==
  ASSUME CapInv, NEW to \in {"room", "open"}, NEW d, NEW s, PruneAnd(to, d, s),
         Good(d, s, files, view), s.config = config, ~s.dead, Len(s.bytes) < SegmentRows,
         pc \in {"check", "room"}
  PROVE  CapInv'
<1>1. d \in [File -> Recording] /\ files \in Nat /\ pc \in Stages
  BY DEF Good, DiskOK, CapInv, LoopInv, Stages
<1>2. /\ \A e \in Prunings(d, s) : Prunes(d, e, s.file)
      /\ \A e \in HalfPruned(d, s) : Prunes(d, e, s.file)
  BY <1>1, PruningsPrune
<1>3. /\ \A e \in Prunings(d, s) : Good(e, s, files, view)
      /\ \A e \in HalfPruned(d, s) : Good(e, s, files, view)
  BY <1>2, PruneKeeps DEF All
<1>4. ASSUME NEW e \in Prunings(d, s), Goes(to, e, [s EXCEPT !.used = Size(e)]), packet' = packet
      PROVE  CapInv'
  <2> DEFINE t == Counted(s, Size(e))
  <2>1. Goes(to, e, t)
    BY <1>4 DEF Counted
  <2>2. Good(e, t, files, view) /\ t.config = s.config /\ t.bytes = s.bytes /\ (t.dead <=> s.dead)
    BY <1>3, StoreCounts
  <2> HIDE DEF t
  <2> QED
    BY <1>4, <2>1, <2>2, GoesKeeps
<1>5. ASSUME NEW e \in Prunings(d, s), Skip(Flushed(e, s))
      PROVE  CapInv'
  <2>1. Good(Flushed(e, s), s, files, view)
    BY <1>1, <1>3, FlushKeeps
  <2> QED
    BY <1>1, <1>5, <2>1, SkipKeeps DEF All
<1>6. ASSUME NEW e \in Prunings(d, s), disk' = Flushed(e, s), pc' = "loop", store' = Closed(s),
             UNCHANGED <<wanted, config, proc, view, files, packets, changes>>
      PROVE  CapInv'
  <2>1. Good(Flushed(e, s), s, files, view)
    BY <1>1, <1>3, FlushKeeps
  <2>2. Good(Flushed(e, s), Closed(s), files, view) /\ Closed(s).config = config
    BY <2>1, StoreClosed
  <2>3. Good(disk', store', files', view') /\ store'.config = config
    BY <1>6, <2>2
  <2>4. LoopInv'
    BY <1>6, <2>3 DEF CapInv, LoopInv, Stages
  <2> QED
    BY <2>3, <2>4 DEF CapInv, All
<1>7. CASE BrokenOff(HalfPruned(d, s), s)
  BY <1>3, <1>7, BrokenOffKeeps DEF All
<1> QED
  BY <1>4, <1>5, <1>6, <1>7 DEF PruneAnd
-----------------------------------------------------------------------------
LEMMA CapInit == Init => CapInv
<1> SUFFICES ASSUME Init PROVE CapInv
  OBVIOUS
<1>1. Gone \in Recording /\ Gone.info = None
  BY DEF Gone, Recording
<1>2. disk = [n \in File |-> Gone] /\ store = None /\ view = NoView /\ files = 0 /\ packets = 0
  BY DEF Init
<1>3. DiskOK(disk, files)
  BY <1>1, <1>2 DEF DiskOK
<1>4. ViewOK(view, disk, None, files)
  BY <1>2 DEF ViewOK
<1>5. LoopInv
  <2>1. wanted \in Config /\ config = None /\ pc = "down"
    BY DEF Init
  <2>2. proc = FALSE
    BY DEF Init
  <2>3. packets \in Nat /\ files \in Nat /\ packets <= MaxPackets /\ files <= packets
    BY <1>2, ConstantsAssumption
  <2>4. pc \notin Stages /\ pc \notin {"rotate", "check", "room", "open"}
    BY <2>1 DEF Stages
  <2> QED
    BY <1>2, <2>1, <2>2, <2>3, <2>4 DEF LoopInv
<1> QED
  BY <1>2, <1>3, <1>4, <1>5 DEF CapInv, All, Init, Stages

(* Steps that leave the disk, the store and the reader alone. *)
LEMMA QuietSteps ==
  ASSUME CapInv, UNCHANGED <<store, disk, view, files>>,
         Configure \/ Boot \/ UseOfDead \/ StartDump \/ DumpDies \/ Receive
  PROVE  CapInv'
<1>1. All(disk', store', files', view')
  BY DEF CapInv
<1>2. CASE Configure
  <2>1. LoopInv'
    BY <1>2 DEF Configure, CapInv, LoopInv
  <2> QED
    BY <1>1, <1>2, <2>1 DEF CapInv, Configure
<1>3. CASE Boot \/ UseOfDead \/ DumpDies
  <2>1. pc' \in {"loop", "broken"} /\ UNCHANGED <<wanted, config, proc, packets>>
    BY <1>3 DEF Boot, UseOfDead, DumpDies
  <2>2. LoopInv'
    BY <2>1 DEF CapInv, LoopInv, Stages
  <2> QED
    BY <1>1, <2>1, <2>2 DEF CapInv, Stages
<1>4. CASE StartDump
  <2>1. LoopInv'
    BY <1>4 DEF StartDump, Active, CapInv, LoopInv, Stages
  <2> QED
    BY <1>1, <1>4, <2>1 DEF CapInv, StartDump, Stages
<1>5. CASE Receive
  <2>1. /\ Good(disk, store, files, view) /\ store.config = config /\ ~store.dead
        /\ config # None
    BY <1>5, ConfigIs DEF Receive, Usable, CapInv, LoopInv
  <2>2. /\ pc' = "rotate" /\ packets' = packets + 1 /\ packets < MaxPackets
        /\ packet' \in config.ports
        /\ UNCHANGED <<wanted, config, proc, store, files>>
    BY <1>5 DEF Receive
  <2>3. packets' \in Nat /\ files' \in Nat /\ packets' <= MaxPackets /\ files' < packets'
    BY <2>2, ConstantsAssumption DEF CapInv, LoopInv
  <2>4. LoopInv'
    BY <2>1, <2>2, <2>3 DEF CapInv, LoopInv, Stages
  <2>5. Good(disk, store, files, view)'
    BY <2>1
  <2> QED
    BY <1>1, <2>4, <2>5 DEF CapInv
<1> QED
  BY <1>2, <1>3, <1>4, <1>5

LEMMA QuietUnchanged ==
  (Configure \/ Boot \/ UseOfDead \/ StartDump \/ DumpDies \/ Receive)
    => UNCHANGED <<store, disk, view, files>>
BY DEF Configure, Boot, UseOfDead, StartDump, DumpDies, Receive

LEMMA RefreshKeeps == ASSUME CapInv, Refresh PROVE CapInv'
<1> DEFINE d == IF store = None THEN disk ELSE Flushed(disk, store)
           s == NewStore(wanted, 0)
<1>1. files \in Nat /\ wanted \in Config /\ s.file = None
  BY DEF CapInv, LoopInv, NewStore
<1>2. All(d, None, files, view)
  <2>1. CASE store = None
    BY <2>1 DEF CapInv
  <2>2. CASE store # None
    <3>1. Good(disk, store, files, view) /\ ~store.dead
      BY <2>2, ConfigIs DEF Refresh
    <3>2. Good(Flushed(disk, store), store, files, view)
      BY <1>1, <3>1, FlushKeeps
    <3> QED
      BY <2>2, <3>2, WithoutStore DEF All
  <2> QED
    BY <2>1, <2>2
<1>3. d \in [File -> Recording]
  BY <1>2, WithoutStore DEF DiskOK
<1> HIDE DEF d
<1>4. /\ \A e \in Prunings(d, s) : Prunes(d, e, None)
      /\ \A e \in HalfPruned(d, s) : Prunes(d, e, None)
  BY <1>1, <1>3, PruningsPrune
<1> HIDE DEF s
<1>5. /\ \A e \in Prunings(d, s) : All(e, None, files, view)
      /\ \A e \in HalfPruned(d, s) : All(e, None, files, view)
  BY <1>2, <1>4, PruneKeeps
<1>6. CASE /\ \E e \in Prunings(d, s) : disk' = e /\ store' = NewStore(wanted, Size(e))
           /\ config' = wanted /\ proc' = FALSE
           /\ UNCHANGED <<wanted, pc, packet, view, faults, files, packets, changes>>
  <2>1. PICK e \in Prunings(d, s) : disk' = e /\ store' = NewStore(wanted, Size(e))
    BY <1>6
  <2>2. Good(e, NewStore(wanted, Size(e)), files, view)
    BY <1>1, <1>5, StoreNew
  <2>3. Good(disk', store', files', view')
    BY <1>6, <2>1, <2>2
  <2>4. pc = "loop"
    BY DEF Refresh
  <2>5. store'.config = config'
    BY <1>6, <2>1 DEF NewStore
  <2>6. LoopInv'
    BY <1>6, <2>4, <2>5 DEF CapInv, LoopInv, Stages
  <2> QED
    BY <2>3, <2>6 DEF CapInv, All
<1>7. CASE store # None /\ Open(store) /\ CloseBreaks
  BY <1>7, CloseBreaksKeeps DEF Refresh
<1>8. CASE BrokenOff(HalfPruned(d, s), IF store = None THEN None ELSE Closed(store))
  <2>1. CASE store = None
    BY <1>5, <1>8, <2>1, BrokenOffKeeps
  <2>2. CASE store # None
    <3>1. Good(disk, store, files, view) /\ store.config = config
      BY <2>2, ConfigIs
    <3>2. /\ \A e \in HalfPruned(d, s) : Good(e, Closed(store), files, view)
          /\ Closed(store).config = config
      BY <1>5, <3>1, ClosedAnywhere, StoreClosed
    <3>3. BrokenOff(HalfPruned(d, s), Closed(store))
      BY <1>8, <2>2
    <3> QED
      BY <3>2, <3>3, BrokenOffKeeps DEF All
  <2> QED
    BY <2>1, <2>2
<1> QED
  BY <1>6, <1>7, <1>8 DEF Refresh, d, s

LEMMA RotateKeeps == ASSUME CapInv, Rotate PROVE CapInv'
<1>1. /\ pc = "rotate" /\ pc \in Stages /\ packet' = packet
  BY DEF Rotate, Stages
<1>2. /\ Good(disk, store, files, view) /\ store.config = config /\ files \in Nat /\ ~store.dead
  BY <1>1, ConfigIs DEF CapInv, LoopInv
<1>3. CASE (~Open(store) \/ Len(store.bytes) < SegmentRows) /\ Goes("check", disk, store)
  <2>1. Len(store.bytes) < SegmentRows
    BY <1>2, <1>3, ConstantsAssumption DEF Open, Good, StoreOK
  <2> QED
    BY <1>1, <1>2, <1>3, <2>1, GoesKeeps
<1>4. CASE Goes("check", Flushed(disk, store), Closed(store))
  <2>1. Good(Flushed(disk, store), store, files, view)
    BY <1>2, FlushKeeps
  <2>2. /\ Good(Flushed(disk, store), Closed(store), files, view) /\ Closed(store).config = config
        /\ ~Closed(store).dead /\ Closed(store).bytes = <<>>
    BY <1>2, <2>1, StoreClosed
  <2>3. Len(Closed(store).bytes) < SegmentRows
    BY <2>2, ConstantsAssumption
  <2> QED
    BY <1>1, <1>4, <2>2, <2>3, GoesKeeps
<1>5. CASE CloseBreaks
  BY <1>1, <1>2, <1>5, CloseBreaksKeeps
<1> QED
  BY <1>3, <1>4, <1>5 DEF Rotate

LEMMA CheckKeeps == ASSUME CapInv, Check PROVE CapInv'
<1>1. /\ pc = "check" /\ pc \in Stages
  BY DEF Check, Stages
<1>2. /\ Good(disk, store, files, view) /\ store.config = config /\ files \in Nat /\ ~store.dead
      /\ Len(store.bytes) < SegmentRows
  BY <1>1, ConfigIs DEF CapInv, LoopInv
<1>3. /\ Good(Flushed(disk, store), store, files, view)
      /\ \A e \in HalfFlushed(disk, store) : Good(e, store, files, view)
  BY <1>2, FlushKeeps
<1>4. CASE Goes("room", disk, store) /\ UNCHANGED packet
  BY <1>1, <1>2, <1>4, GoesKeeps
<1>5. CASE PruneAnd("room", Flushed(disk, store), store)
  BY <1>1, <1>2, <1>3, <1>5, PruneAndKeeps
<1>6. CASE BrokenOff(HalfFlushed(disk, store), store)
  BY <1>2, <1>3, <1>6, BrokenOffKeeps DEF All
<1> QED
  BY <1>4, <1>5, <1>6 DEF Check

LEMMA MakeRoomKeeps == ASSUME CapInv, MakeRoom PROVE CapInv'
<1>1. /\ pc = "room" /\ pc \in Stages
  BY DEF MakeRoom, Stages
<1>2. /\ Good(disk, store, files, view) /\ store.config = config /\ files \in Nat /\ ~store.dead
      /\ Len(store.bytes) < SegmentRows
  BY <1>1, ConfigIs DEF CapInv, LoopInv
<1>3. CASE PruneAnd("open", Flushed(disk, store), Closed(store))
  <2>1. Good(Flushed(disk, store), store, files, view)
    BY <1>2, FlushKeeps
  <2>2. /\ Good(Flushed(disk, store), Closed(store), files, view) /\ Closed(store).config = config
        /\ ~Closed(store).dead /\ Closed(store).bytes = <<>>
    BY <1>2, <2>1, StoreClosed
  <2>3. Len(Closed(store).bytes) < SegmentRows
    BY <2>2, ConstantsAssumption
  <2> QED
    BY <1>1, <1>3, <2>2, <2>3, PruneAndKeeps
<1>4. CASE CloseBreaks
  BY <1>1, <1>2, <1>4, CloseBreaksKeeps
<1>5. CASE Goes("open", disk, store) /\ UNCHANGED packet
  BY <1>1, <1>2, <1>5, GoesKeeps
<1> QED
  BY <1>3, <1>4, <1>5 DEF MakeRoom

(* The store that opens file n. *)
Opened(s, n, u) == [s EXCEPT !.file = n, !.used = u]
OpenedDead(s, n) == [s EXCEPT !.file = n, !.dead = TRUE]

LEMMA OpenedFields ==
  ASSUME NEW s, NEW d, NEW F, StoreOK(s, d, F), NEW n, NEW u
  PROVE  /\ Opened(s, n, u) \in
              [config : {s.config}, file : {n}, bytes : {s.bytes}, rows : {s.rows},
               used : {u}, dead : {s.dead}]
         /\ OpenedDead(s, n) \in
              [config : {s.config}, file : {n}, bytes : {s.bytes}, rows : {s.rows},
               used : {s.used}, dead : {TRUE}]
         /\ s.dead \in BOOLEAN
<1> DEFINE A == {m \in File : m <= F} \cup {None}
<1>1. s \in [config : Config, file : A, bytes : Seq(Ports), rows : Seq(Row),
             used : {s.used}, dead : BOOLEAN]
  BY DEF StoreOK
<1>2. Opened(s, n, u) \in
        [config : {s.config}, file : {n}, bytes : {s.bytes}, rows : {s.rows},
         used : {u}, dead : {s.dead}]
  BY <1>1 DEF Opened
<1>3. OpenedDead(s, n) \in
        [config : {s.config}, file : {n}, bytes : {s.bytes}, rows : {s.rows},
         used : {s.used}, dead : {TRUE}]
  BY <1>1 DEF OpenedDead
<1> QED
  BY <1>1, <1>2, <1>3

LEMMA StartFileKeeps == ASSUME CapInv, StartFile PROVE CapInv'
<1> DEFINE n == files + 1
           pcap(e) == [e EXCEPT ![n].bytes = <<>>]
           both(e) == [e EXCEPT ![n].bytes = <<>>, ![n].rows = <<>>]
<1>1. /\ pc = "open" /\ pc \in Stages
  BY DEF StartFile, Stages
<1>2. /\ Good(disk, store, files, view) /\ store.config = config /\ files \in Nat /\ ~store.dead
      /\ Len(store.bytes) < SegmentRows /\ disk \in [File -> Recording]
  BY <1>1, ConfigIs DEF CapInv, LoopInv, Good, DiskOK
<1>3. n \in File /\ n <= packets /\ packets <= MaxPackets /\ packets \in Nat
  BY <1>1, ConstantsAssumption DEF CapInv, LoopInv, File
<1>4. CASE Open(store)
  <2>1. Goes("write", disk, store) /\ packet' = packet
    BY <1>4 DEF StartFile
  <2> QED
    BY <1>1, <1>2, <1>4, <2>1, GoesKeeps DEF Open
<1>5. CASE BrokenOff(HalfPruned(disk, store), store)
  <2>1. \A e \in HalfPruned(disk, store) : Good(e, store, files, view)
    BY <1>2, PruningsPrune, PruneKeeps DEF All
  <2> QED
    BY <1>2, <1>5, <2>1, BrokenOffKeeps DEF All
<1>6. ASSUME NEW e \in Prunings(disk, store), ~Open(store)
      PROVE  /\ Good(e, store, files, view) /\ e \in [File -> Recording]
             /\ \A g \in {pcap(e), both(e)} :
                  /\ All(g, None, n, view)
                  /\ Good(g, OpenedDead(store, n), n, view)
             /\ \A u : Good(both(e), Opened(store, n, u), n, view)
  <2>1. Good(e, store, files, view)
    BY <1>2, PruningsPrune, PruneKeeps DEF All
  <2>2. StoreOK(store, disk, files) /\ store.file = None
    BY <1>2, <1>6 DEF Good, Open
  <2>3. \A u : /\ Opened(store, n, u) \in
                    [config : {store.config}, file : {n}, bytes : {store.bytes},
                     rows : {store.rows}, used : {u}, dead : {store.dead}]
               /\ OpenedDead(store, n) \in
                    [config : {store.config}, file : {n}, bytes : {store.bytes},
                     rows : {store.rows}, used : {store.used}, dead : {TRUE}]
               /\ store.dead \in BOOLEAN
    BY <2>2, OpenedFields
  <2>4. e \in [File -> Recording]
    BY <2>1 DEF Good, DiskOK
  <2>5. ASSUME NEW g \in {pcap(e), both(e)}
        PROVE  All(g, None, n, view) /\ Good(g, OpenedDead(store, n), n, view)
    BY <1>2, <1>3, <2>1, <2>2, <2>3, FileOpened
  <2>6. both(e)[n].rows = <<>>
    <3> DEFINE g == [e[n] EXCEPT !.bytes = <<>>, !.rows = <<>>]
    <3>1. e[n] \in Recording
      BY <1>3, <2>4
    <3>2. g \in [bytes : {<<>>}, rows : {<<>>}, info : {e[n].info}]
      BY <3>1 DEF Recording
    <3>3. both(e) = [e EXCEPT ![n] = g]
      BY <1>3, <2>4
    <3> HIDE DEF g, both
    <3>4. both(e)[n] = g /\ g.rows = <<>>
      BY <1>3, <2>4, <3>2, <3>3
    <3> QED
      BY <3>4
  <2>7. ASSUME NEW u PROVE Good(both(e), Opened(store, n, u), n, view)
    BY <1>2, <1>3, <2>1, <2>2, <2>3, <2>6, FileOpened
  <2> QED
    BY <2>1, <2>4, <2>5, <2>7
<1>7. ASSUME NEW e \in Prunings(disk, store), ~Open(store), Skip(e)
      PROVE  CapInv'
  BY <1>1, <1>6, <1>7, SkipKeeps DEF All
<1>8. ASSUME NEW e \in Prunings(disk, store), ~Open(store),
             pc' = "write", disk' = both(e), files' = n, store' = Opened(store, n, Size(e)),
             UNCHANGED <<wanted, config, proc, packet, view, faults, packets, changes>>
      PROVE  CapInv'
  <2>1. Good(disk', store', files', view')
    BY <1>6, <1>8
  <2>2. /\ store'.config = config /\ ~store'.dead /\ store'.bytes = store.bytes
        /\ store'.file = n
    <3> DEFINE t == Opened(store, n, Size(e))
    <3>1. t \in [config : {store.config}, file : {n}, bytes : {store.bytes},
                 rows : {store.rows}, used : {Size(e)}, dead : {store.dead}]
      BY <1>2, OpenedFields DEF Good
    <3> HIDE DEF t
    <3>2. /\ t.config = store.config /\ (t.dead <=> store.dead) /\ t.bytes = store.bytes
          /\ t.file = n
      BY <3>1
    <3>3. store' = t
      BY <1>8 DEF t
    <3> QED
      BY <1>2, <3>2, <3>3
  <2>3. n # None /\ n \in Nat
    BY <1>3, ConstantsAssumption DEF File
  <2>4. files' \in Nat /\ files' <= packets'
    BY <1>3, <1>8, <2>3
  <2>5. LoopInv'
    BY <1>1, <1>2, <1>8, <2>2, <2>3, <2>4 DEF CapInv, LoopInv, Stages
  <2> QED
    BY <2>1, <2>5 DEF CapInv, All
<1>9. ASSUME NEW e \in Prunings(disk, store), ~Open(store),
             \/ /\ pc' = "broken" /\ store' = OpenedDead(store, n)
                /\ UNCHANGED <<proc, config, packet>>
             \/ Dies,
             disk' \in {pcap(e), both(e)}, files' = n,
             UNCHANGED <<wanted, view, packets, changes>>
      PROVE  CapInv'
  <2>1. All(disk', None, files', view') /\ Good(disk', OpenedDead(store, n), files', view')
    BY <1>6, <1>9
  <2>2. OpenedDead(store, n).config = config
    BY <1>2, OpenedFields DEF Good
  <2>3. files' \in Nat /\ files' <= packets'
    BY <1>3, <1>9 DEF File
  <2>4. CASE pc' = "broken" /\ store' = OpenedDead(store, n) /\ UNCHANGED <<proc, config, packet>>
    <3>1. LoopInv'
      BY <1>1, <1>9, <2>2, <2>3, <2>4 DEF CapInv, LoopInv, Stages
    <3> QED
      BY <2>1, <2>4, <3>1 DEF CapInv, All, Stages
  <2>5. CASE Dies
    <3>1. LoopInv'
      BY <1>1, <1>9, <2>3, <2>5 DEF CapInv, LoopInv, Stages, Dies
    <3> QED
      BY <2>1, <2>5, <3>1 DEF CapInv, Stages, Dies
  <2> QED
    BY <1>9, <2>4, <2>5
<1>10. ASSUME ~Open(store), NEW e \in Prunings(disk, store),
         IF ~Fits(e, store) THEN Skip(e)
         ELSE \/ /\ pc' = "write" /\ disk' = both(e) /\ files' = n
                 /\ store' = [[store EXCEPT !.file = n] EXCEPT !.used = Size(e)]
                 /\ UNCHANGED <<wanted, config, proc, packet, view, faults, packets, changes>>
              \/ /\ \/ FaultHappens("error") /\ pc' = "broken"
                         /\ store' = [[store EXCEPT !.file = n] EXCEPT !.dead = TRUE]
                         /\ UNCHANGED <<proc, config, packet>>
                    \/ FaultHappens("kill") /\ Dies
                 /\ disk' \in {pcap(e), both(e)} /\ files' = n
                 /\ UNCHANGED <<wanted, view, packets, changes>>
       PROVE  CapInv'
  <2>1. /\ Opened(store, n, Size(e)) = [[store EXCEPT !.file = n] EXCEPT !.used = Size(e)]
        /\ OpenedDead(store, n) = [[store EXCEPT !.file = n] EXCEPT !.dead = TRUE]
    BY DEF Opened, OpenedDead
  <2> HIDE DEF n, pcap, both
  <2> QED
    BY <1>7, <1>8, <1>9, <1>10, <2>1
<1> QED
  BY <1>1, <1>4, <1>5, <1>10 DEF StartFile

LEMMA WriteKeeps == ASSUME CapInv, Write PROVE CapInv'
<1> DEFINE s == Appended(store, packet)
           half == HalfAppended(store, packet)
<1>1. /\ pc = "write" /\ pc \in Stages
  BY DEF Write, Stages
<1>2. /\ Good(disk, store, files, view) /\ store.config = config /\ files \in Nat /\ ~store.dead
      /\ Len(store.bytes) < SegmentRows /\ store.file # None /\ packet \in store.config.ports
  BY <1>1, ConfigIs DEF CapInv, LoopInv
<1>3. \/ Goes("loop", disk, s)
      \/ Goes("loop", Flushed(disk, s), s)
      \/ BrokenOff({disk, WithBytes(disk, half)}, half)
      \/ BrokenOff(HalfFlushed(disk, s), s)
  BY Zenon DEF Write, Appended, HalfAppended
<1>4. /\ Good(disk, s, files, view) /\ s.config = config /\ ~s.dead
      /\ Good(disk, half, files, view) /\ half.config = config /\ ~half.dead
  BY <1>2, StoreAppends
<1> HIDE DEF s, half
<1>5. /\ Good(Flushed(disk, s), s, files, view)
      /\ \A e \in HalfFlushed(disk, s) : Good(e, s, files, view)
  BY <1>2, <1>4, FlushKeeps
<1>6. Good(WithBytes(disk, half), half, files, view)
  BY <1>2, <1>4, BytesWritten
<1>7. CASE Goes("loop", disk, s)
  BY <1>4, <1>7, GoesKeeps
<1>8. CASE Goes("loop", Flushed(disk, s), s)
  BY <1>4, <1>5, <1>8, GoesKeeps
<1>9. CASE BrokenOff({disk, WithBytes(disk, half)}, half)
  BY <1>4, <1>6, <1>9, BrokenOffKeeps DEF All
<1>10. CASE BrokenOff(HalfFlushed(disk, s), s)
  BY <1>4, <1>5, <1>10, BrokenOffKeeps DEF All
<1> QED
  BY <1>3, <1>7, <1>8, <1>9, <1>10

LEMMA TickKeeps == ASSUME CapInv, Tick PROVE CapInv'
<1>1. /\ Good(disk, store, files, view) /\ store.config = config /\ files \in Nat /\ ~store.dead
      /\ store # None
  BY ConfigIs DEF Tick, Usable
<1>2. /\ Good(Flushed(disk, store), store, files, view)
      /\ \A e \in HalfFlushed(disk, store) : Good(e, store, files, view)
  BY <1>1, FlushKeeps
<1>3. ASSUME NEW s \in {store, Closed(store)}
      PROVE  /\ Good(Flushed(disk, store), s, files, view) /\ s.config = config
             /\ \A e \in Prunings(Flushed(disk, store), s) : Good(e, s, files, view)
             /\ \A e \in HalfPruned(Flushed(disk, store), s) : Good(e, s, files, view)
  <2>1. Good(Flushed(disk, store), s, files, view) /\ s.config = config
    BY <1>1, <1>2, StoreClosed
  <2>2. Flushed(disk, store) \in [File -> Recording]
    BY <1>2 DEF Good, DiskOK
  <2>3. /\ \A e \in Prunings(Flushed(disk, store), s) : Prunes(Flushed(disk, store), e, s.file)
        /\ \A e \in HalfPruned(Flushed(disk, store), s) : Prunes(Flushed(disk, store), e, s.file)
    BY <2>2, PruningsPrune
  <2> QED
    BY <2>1, <2>3, PruneKeeps DEF All
<1>4. ASSUME NEW s \in {store, Closed(store)}, Goes("loop", Flushed(disk, store), s)
      PROVE  CapInv'
  BY <1>3, <1>4, GoesKeeps
<1>5. ASSUME NEW s \in {store, Closed(store)}, NEW e \in Prunings(Flushed(disk, store), s),
             Goes("loop", e, Counted(s, Size(e)))
      PROVE  CapInv'
  <2>1. Good(e, Counted(s, Size(e)), files, view) /\ Counted(s, Size(e)).config = config
    BY <1>3, StoreCounts
  <2> QED
    BY <1>5, <2>1, GoesKeeps
<1>6. CASE BrokenOff(HalfFlushed(disk, store), store)
  BY <1>1, <1>2, <1>6, BrokenOffKeeps DEF All
<1>7. CASE CloseBreaks
  BY <1>1, <1>7, CloseBreaksKeeps
<1>8. CASE BrokenOff(HalfPruned(Flushed(disk, store), store), store)
  BY <1>1, <1>3, <1>8, BrokenOffKeeps DEF All
<1> QED
  BY <1>4, <1>5, <1>6, <1>7, <1>8 DEF Tick, Counted

LEMMA RecoverKeeps == ASSUME CapInv, Recover PROVE CapInv'
<1>1. /\ pc' = "loop" /\ proc' = FALSE
      /\ UNCHANGED <<wanted, config, view, faults, files, packets, changes>>
  BY DEF Recover
<1>2. SUFFICES All(disk', store', files, view) /\ (store' # None => store'.config = config)
  <2>1. ASSUME store' # None => store'.config = config PROVE LoopInv'
    BY <1>1, <2>1 DEF CapInv, LoopInv, Stages
  <2> QED
    BY <1>1, <2>1 DEF CapInv, Stages
<1>3. CASE store = None
  <2>1. store' = None /\ disk' = disk
    BY <1>3 DEF Recover
  <2> QED
    BY <1>3, <2>1 DEF CapInv
<1>4. CASE store # None
  <2>1. Good(disk, store, files, view) /\ store.config = config /\ files \in Nat
    BY <1>4, ConfigIs
  <2>2. Good(disk, Closed(store), files, view) /\ Closed(store).config = config
    BY <2>1, StoreClosed
  <2>3. CASE store' = Closed(store) /\ disk' = disk
    BY <2>2, <2>3 DEF All
  <2>4. CASE ~store.dead /\ store' = Closed(store) /\ disk' = Flushed(disk, store)
    BY <2>1, <2>4, FlushKeeps, StoreClosed DEF All
  <2>5. CASE ~store.dead /\ store' = Closed(store) /\ disk' \in HalfFlushed(disk, store)
    BY <2>1, <2>5, FlushKeeps, StoreClosed DEF All
  <2>6. CASE store' = [store EXCEPT !.dead = TRUE] /\ disk' = disk
    BY <2>1, <2>6, StoreDies DEF All
  <2>7. \/ store' = Closed(store) /\ disk' = disk
        \/ /\ ~store.dead
           /\ \/ store' = Closed(store) /\ disk' = Flushed(disk, store)
              \/ store' = Closed(store) /\ disk' \in HalfFlushed(disk, store)
              \/ store' = [store EXCEPT !.dead = TRUE] /\ disk' = disk
    BY <1>4 DEF Recover
  <2> QED
    BY <2>3, <2>4, <2>5, <2>6, <2>7
<1> QED
  BY <1>3, <1>4

LEMMA StopKeeps == ASSUME CapInv, Stop PROVE CapInv'
<1>1. /\ Dies /\ UNCHANGED <<wanted, view, files, packets, changes>>
  BY DEF Stop
<1>2. All(disk', None, files, view)
  <2>1. CASE Usable
    <3>1. Good(disk, store, files, view) /\ files \in Nat /\ ~store.dead
      BY <2>1, ConfigIs DEF Usable
    <3>2. disk' = Flushed(disk, store)
      BY <2>1 DEF Stop
    <3> QED
      BY <3>1, <3>2, FlushKeeps, WithoutStore DEF All
  <2>2. CASE ~Usable
    BY <2>2, WithoutStore DEF Stop, CapInv
  <2> QED
    BY <2>1, <2>2
<1>3. LoopInv'
  BY <1>1 DEF CapInv, LoopInv, Stages, Dies
<1> QED
  BY <1>1, <1>2, <1>3 DEF CapInv, Stages, Dies
-----------------------------------------------------------------------------
(* A page follows on the pages before it. *)
LEMMA PagesMeet ==
  ASSUME NEW X, NEW rows \in Seq(X), NEW a \in Nat, a <= Len(rows), NEW m \in Nat, NEW k \in Nat,
         m + k <= a
  PROVE  [i \in 1..m |-> rows[a + 1 - i]] \o [i \in 1..k |-> rows[a - m + 1 - i]]
           = [i \in 1..(m + k) |-> rows[a + 1 - i]]
<1> DEFINE f == [i \in 1..m |-> rows[a + 1 - i]]
           g == [i \in 1..k |-> rows[a - m + 1 - i]]
           h == [i \in 1..(m + k) |-> rows[a + 1 - i]]
<1>1. Len(rows) \in Nat
  OBVIOUS
<1>2. \A i \in 1..m : rows[a + 1 - i] \in X
  BY <1>1
<1>3. \A i \in 1..k : rows[a - m + 1 - i] \in X
  BY <1>1
<1>4. \A i \in 1..(m + k) : rows[a + 1 - i] \in X
  BY <1>1
<1>5. f \in Seq(X) /\ Len(f) = m /\ \A i \in 1..m : f[i] = rows[a + 1 - i]
  BY <1>2
<1>6. g \in Seq(X) /\ Len(g) = k /\ \A i \in 1..k : g[i] = rows[a - m + 1 - i]
  BY <1>3
<1>7. h \in Seq(X) /\ Len(h) = m + k /\ \A i \in 1..(m + k) : h[i] = rows[a + 1 - i]
  BY <1>4
<1> HIDE DEF f, g, h
<1>8. /\ f \o g \in Seq(X) /\ Len(f \o g) = m + k
      /\ \A i \in 1..m : (f \o g)[i] = f[i]
      /\ \A i \in (m + 1)..(m + k) : (f \o g)[i] = g[i - m]
  <2>1. /\ f \o g \in Seq(X) /\ Len(f \o g) = Len(f) + Len(g)
        /\ \A i \in 1..(Len(f) + Len(g)) :
             (f \o g)[i] = IF i <= Len(f) THEN f[i] ELSE g[i - Len(f)]
    BY <1>5, <1>6, ConcatProperties
  <2> QED
    BY <2>1, <1>5, <1>6
<1>9. ASSUME NEW i \in 1..(m + k) PROVE (f \o g)[i] = h[i]
  <2>1. h[i] = rows[a + 1 - i]
    BY <1>7
  <2>2. CASE i <= m
    <3>1. i \in 1..m
      BY <2>2
    <3>2. (f \o g)[i] = f[i] /\ f[i] = rows[a + 1 - i]
      BY <3>1, <1>5, <1>8
    <3> QED
      BY <2>1, <3>2
  <2>3. CASE i > m
    <3>1. i - m \in 1..k /\ i \in (m + 1)..(m + k) /\ a - m + 1 - (i - m) = a + 1 - i
      BY <2>3
    <3>2. (f \o g)[i] = g[i - m] /\ g[i - m] = rows[a - m + 1 - (i - m)]
      BY <3>1, <1>6, <1>8
    <3> QED
      BY <2>1, <3>1, <3>2
  <2>4. i <= m \/ i > m
    OBVIOUS
  <2> QED
    BY <2>2, <2>3, <2>4
<1>10. f \o g = h
  BY <1>7, <1>8, <1>9
<1> QED
  BY <1>10 DEF f, g, h

(* What is read after one more page, of the recording rows with anchor a. *)
PagesTo(rows, a, page) == [i \in 1..AtMost(page * PageRows, a) |-> rows[a + 1 - i]]

LEMMA NextPage ==
  ASSUME NEW rows \in Seq(Row), NEW a \in Nat, a <= Len(rows), NEW page \in Nat
  PROVE  PagesTo(rows, a, page) \o Page(rows, a, page + 1) = PagesTo(rows, a, page + 1)
<1> DEFINE b == page * PageRows
           m == AtMost(b, a)
           top == AnchorOf(rows, a) - (page + 1 - 1) * PageRows
           k == AtMost(PageRows, top)
<1>1. PageRows \in Nat \ {0} /\ b \in Nat /\ Len(rows) \in Nat
  BY ConstantsAssumption
<1>2. (page + 1) * PageRows = b + PageRows
  BY <1>1
<1>3. page + 1 - 1 = page
  OBVIOUS
<1>4. AnchorOf(rows, a) = a
  BY <1>1 DEF AnchorOf, AtMost
<1>5. top = a - b
  BY <1>3, <1>4
<1>6. Page(rows, a, page + 1) = [i \in 1..k |-> rows[top + 1 - i]]
  BY DEF Page
<1> HIDE DEF b, top
<1>7. CASE b <= a
  <2>1. m = b /\ top = a - m /\ top \in Nat /\ k \in Nat /\ m \in Nat /\ m + k <= a
    BY <1>1, <1>5, <1>7 DEF AtMost
  <2>2. m + k = AtMost(b + PageRows, a)
    BY <1>1, <1>5, <1>7 DEF AtMost
  <2> HIDE DEF k, m
  <2>3. [i \in 1..m |-> rows[a + 1 - i]] \o [i \in 1..k |-> rows[a - m + 1 - i]]
           = [i \in 1..(m + k) |-> rows[a + 1 - i]]
    BY <2>1, PagesMeet
  <2> QED
    BY <1>2, <1>6, <2>1, <2>2, <2>3 DEF m, b, PagesTo
<1>8. CASE b > a
  <2>1. m = a /\ k < 0 /\ k \in Int
    BY <1>1, <1>5, <1>8 DEF AtMost
  <2>2. AtMost(b + PageRows, a) = a
    BY <1>1, <1>8 DEF AtMost
  <2>3. 1..k = 1..0
    BY <2>1
  <2> HIDE DEF k, m
  <2>4. Page(rows, a, page + 1) = [i \in 1..0 |-> rows[a - a + 1 - i]]
    <3>1. \A i \in 1..0 : rows[top + 1 - i] = rows[a - a + 1 - i]
      OBVIOUS
    <3>2. [i \in 1..0 |-> rows[top + 1 - i]] = [i \in 1..0 |-> rows[a - a + 1 - i]]
      BY <3>1
    <3> QED
      BY <1>6, <2>3, <3>2
  <2>5. [i \in 1..a |-> rows[a + 1 - i]] \o [i \in 1..0 |-> rows[a - a + 1 - i]]
           = [i \in 1..(a + 0) |-> rows[a + 1 - i]]
    BY PagesMeet
  <2> QED
    BY <1>2, <2>1, <2>2, <2>4, <2>5 DEF m, b, PagesTo
<1>9. b <= a \/ b > a
  BY <1>1
<1> QED
  BY <1>7, <1>8, <1>9

(* Only the reader takes a step, and what he reads is in order. *)
LEMMA ReaderKeeps ==
  ASSUME CapInv,
         UNCHANGED <<wanted, config, pc, proc, store, disk, packet, faults, files, packets, changes>>,
         \A f : ViewOK(view', disk, f, files)
  PROVE  CapInv'
<1>1. LoopInv'
  BY DEF CapInv, LoopInv
<1>2. Good(disk, store, files, view) => Good(disk, store, files, view')
  BY DEF Good
<1>3. All(disk, store, files, view')
  BY <1>2 DEF CapInv, All
<1>4. pc \in Stages => Good(disk, store, files, view')
  BY <1>2 DEF CapInv
<1>5. All(disk', store', files', view') /\ (pc' \in Stages => Good(disk', store', files', view'))
  BY <1>3, <1>4
<1> QED
  BY <1>1, <1>5 DEF CapInv

LEMMA ReadFirstKeeps == ASSUME CapInv, NEW n \in File, ReadFirst(n) PROVE CapInv'
<1> DEFINE rows == disk[n].rows
<1>1. /\ Listed(n) /\ rows # <<>>
      /\ UNCHANGED <<wanted, config, pc, proc, store, disk, packet, faults, files, packets, changes>>
      /\ view' = [file |-> n, anchor |-> Len(rows), page |-> 1, read |-> Page(rows, Len(rows), 1)]
  BY DEF ReadFirst
<1>2. DiskOK(disk, files) /\ files \in Nat
  BY WithoutStore DEF CapInv, LoopInv
<1>3. rows \in Seq(Row)
  BY <1>1, <1>2 DEF DiskOK, Sound, Listed
<1>4. n \in {m \in File : m <= files}
  <2>1. n > files => disk[n].info = None
    BY <1>2 DEF DiskOK, Gone
  <2> QED
    BY <1>1, <1>2, <2>1 DEF Listed, File
<1> HIDE DEF rows
<1>5. Len(rows) \in Nat
  BY <1>3
<1>6. Page(rows, Len(rows), 1)
        = [i \in 1..AtMost(1 * PageRows, Len(rows)) |-> rows[Len(rows) + 1 - i]]
  <2>1. PageRows \in Nat
    BY ConstantsAssumption
  <2>2. AnchorOf(rows, Len(rows)) = Len(rows)
    BY DEF AnchorOf, AtMost
  <2>3. Len(rows) - (1 - 1) * PageRows = Len(rows) /\ 1 * PageRows = PageRows
    BY <1>5, <2>1
  <2> QED
    BY <2>2, <2>3 DEF Page
<1>7. /\ view'.file = n /\ view'.anchor = Len(rows) /\ view'.page = 1
      /\ view'.read = Page(rows, Len(rows), 1)
      /\ view' \in [file : {m \in File : m <= files}, anchor : Nat, page : Nat \ {0},
                    read : {view'.read}]
  BY <1>1, <1>4, <1>5 DEF rows
<1>8. \A f : ViewOK(view', disk, f, files)
  BY <1>3, <1>5, <1>6, <1>7 DEF ViewOK, rows
<1> QED
  BY <1>1, <1>8, ReaderKeeps

LEMMA ReadNextKeeps == ASSUME CapInv, ReadNext PROVE CapInv'
<1> DEFINE rows == disk[view.file].rows
<1>1. /\ view # NoView
      /\ UNCHANGED <<wanted, config, pc, proc, store, disk, packet, faults, files, packets, changes>>
      /\ \/ view' = NoView
         \/ /\ rows # None
            /\ view' = [view EXCEPT !.page = @ + 1,
                                    !.read = @ \o Page(rows, view.anchor, view.page + 1)]
  BY DEF ReadNext
<1>2. ViewOK(view, disk, None, files)
  BY WithoutStore DEF CapInv
<1>3. CASE view' = NoView
  <2>1. \A f : ViewOK(view', disk, f, files)
    BY <1>3 DEF ViewOK
  <2> QED
    BY <1>1, <2>1, ReaderKeeps
<1>4. CASE /\ rows # None
           /\ view' = [view EXCEPT !.page = @ + 1,
                                   !.read = @ \o Page(rows, view.anchor, view.page + 1)]
  <2> DEFINE old == PagesTo(rows, view.anchor, view.page)
             new == PagesTo(rows, view.anchor, view.page + 1)
  <2>1. /\ rows \in Seq(Row) /\ view.anchor <= Len(rows) /\ view.read = old
        /\ view \in [file : {m \in File : m <= files}, anchor : Nat, page : Nat \ {0},
                     read : {view.read}]
    BY <1>1, <1>2, <1>4 DEF ViewOK, PagesTo
  <2>2. view.read \o Page(rows, view.anchor, view.page + 1) = new
    <3>1. view.anchor \in Nat /\ view.page \in Nat
      BY <2>1
    <3> HIDE DEF rows
    <3>2. old \o Page(rows, view.anchor, view.page + 1) = new
      BY <2>1, <3>1, NextPage
    <3> QED
      BY <2>1, <3>2
  <2>3. view' \in [file : {view.file}, anchor : {view.anchor}, page : {view.page + 1},
                   read : {view.read \o Page(rows, view.anchor, view.page + 1)}]
    BY <1>4, <2>1
  <2> HIDE DEF rows, new, old
  <2>4. /\ view'.file = view.file /\ view'.anchor = view.anchor /\ view'.page = view.page + 1
        /\ view'.read = new /\ disk' = disk
        /\ view' \in [file : {m \in File : m <= files}, anchor : Nat, page : Nat \ {0},
                      read : {view'.read}]
    <3>1. /\ view'.file = view.file /\ view'.anchor = view.anchor /\ view'.page = view.page + 1
          /\ view'.read = new
      BY <2>2, <2>3
    <3>2. view.file \in {m \in File : m <= files} /\ view.anchor \in Nat /\ view.page + 1 \in Nat \ {0}
      BY <2>1
    <3> QED
      BY <1>1, <2>2, <2>3, <3>1, <3>2
  <2>5. \A f : ViewOK(view', disk, f, files)
    BY <2>1, <2>4 DEF ViewOK, rows, new, PagesTo
  <2> QED
    BY <1>1, <2>5, ReaderKeeps
<1> QED
  BY <1>1, <1>3, <1>4
-----------------------------------------------------------------------------
LEMMA CapStep == ASSUME CapInv, [Next]_vars PROVE CapInv'
<1>1. CASE Configure \/ Boot \/ UseOfDead \/ StartDump \/ DumpDies \/ Receive
  BY <1>1, QuietSteps, QuietUnchanged
<1>2. CASE Refresh
  BY <1>2, RefreshKeeps
<1>3. CASE Rotate
  BY <1>3, RotateKeeps
<1>4. CASE Check
  BY <1>4, CheckKeeps
<1>5. CASE MakeRoom
  BY <1>5, MakeRoomKeeps
<1>6. CASE StartFile
  BY <1>6, StartFileKeeps
<1>7. CASE Write
  BY <1>7, WriteKeeps
<1>8. CASE Tick
  BY <1>8, TickKeeps
<1>9. CASE Recover
  BY <1>9, RecoverKeeps
<1>10. CASE Stop
  BY <1>10, StopKeeps
<1>11. CASE \E n \in File : ReadFirst(n)
  BY <1>11, ReadFirstKeeps
<1>12. CASE ReadNext
  BY <1>12, ReadNextKeeps
<1>13. CASE UNCHANGED vars
  BY <1>13 DEF vars, CapInv, LoopInv
<1> QED
  BY <1>1, <1>2, <1>3, <1>4, <1>5, <1>6, <1>7, <1>8, <1>9, <1>10, <1>11, <1>12, <1>13 DEF Next

LEMMA CapAlways == Spec => []CapInv
<1>1. Init => CapInv
  BY CapInit
<1>2. CapInv /\ [Next]_vars => CapInv'
  BY CapStep
<1> QED
  BY <1>1, <1>2, PTL DEF Spec

(* The recorder's store holds at least what is on the disk of its file,    *)
(* and every variable has its type, with any settings and faults.          *)
THEOREM TypeCorrect == Spec => []TypeOK
<1>1. ASSUME CapInv PROVE TypeOK
  <2>1. /\ wanted \in Config /\ config \in Config \cup {None}
        /\ pc \in {"down", "loop", "broken"} \cup Stages
        /\ proc \in BOOLEAN /\ (proc => config # None /\ config.on)
        /\ (pc \in Stages => packet \in config.ports)
    BY <1>1 DEF CapInv, LoopInv
  <2>2. ASSUME store # None
        PROVE  /\ store.config \in Config
               /\ store.file # None /\ ~store.dead =>
                    /\ IsPrefix(disk[store.file].bytes, store.bytes)
                    /\ IsPrefix(disk[store.file].rows, store.rows)
                    /\ Len(store.bytes) <= SegmentRows
    <3>1. StoreOK(store, disk, files)
      BY <1>1, <2>2, ConfigIs DEF Good
    <3>2. store.config \in Config /\ store.bytes \in Seq(Ports) /\ store.rows \in Seq(Row)
      BY <3>1 DEF StoreOK
    <3>3. ASSUME store.file # None, ~store.dead
          PROVE  /\ IsPrefix(disk[store.file].bytes, store.bytes)
                 /\ IsPrefix(disk[store.file].rows, store.rows)
                 /\ Len(store.bytes) <= SegmentRows
      <4>1. /\ disk[store.file].bytes \in Seq(Ports) /\ disk[store.file].rows \in Seq(Row)
            /\ Begins(disk[store.file].bytes, store.bytes)
            /\ Begins(disk[store.file].rows, store.rows)
            /\ Len(store.bytes) <= SegmentRows
        BY <3>1, <3>3 DEF StoreOK
      <4> QED
        BY <3>2, <4>1, BeginsIsPrefix
    <3> QED
      BY <3>2, <3>3
  <2>3. view.page > 0 => view.file \in File
    <3>1. ViewOK(view, disk, None, files)
      BY <1>1, WithoutStore DEF CapInv
    <3> QED
      BY <3>1 DEF ViewOK, NoView
  <2> QED
    BY <2>1, <2>2, <2>3 DEF TypeOK
<1> QED
  BY <1>1, CapAlways, PTL

(* A record that a reader can be shown is in the recording at its offset   *)
(* and of a port of its header, with any number of files, packets, changes *)
(* and faults.                                                             *)
THEOREM OnDisk == Spec => []RecordsOnDisk
<1>1. ASSUME CapInv PROVE RecordsOnDisk
  <2>1. DiskOK(disk, files)
    BY <1>1, WithoutStore DEF CapInv
  <2> SUFFICES ASSUME NEW n \in File, Listed(n), NEW i \in DOMAIN disk[n].rows
               PROVE  LET row == disk[n].rows[i]
                      IN  /\ row.offset <= Len(disk[n].bytes)
                          /\ disk[n].bytes[row.offset] = row.port
                          /\ row.port \in disk[n].info.ports
    BY DEF RecordsOnDisk
  <2>2. Sound(disk[n].bytes, disk[n].rows, disk[n].info.ports)
    BY <2>1 DEF DiskOK, Listed
  <2> QED
    BY <2>2 DEF Sound
<1> QED
  BY <1>1, CapAlways, PTL

(* What a reader turns over is the recording from the anchor down, for any *)
(* page size and length of the recording, while it is written and pruned.  *)
THEOREM PagesInOrder == Spec => []PagesFit
<1>1. ASSUME CapInv PROVE PagesFit
  <2>1. ViewOK(view, disk, None, files)
    BY <1>1, WithoutStore DEF CapInv
  <2> QED
    BY <2>1 DEF ViewOK, PagesFit
<1> QED
  BY <1>1, CapAlways, PTL

-----------------------------------------------------------------------------
(* What the recordings take up, as one number for every disk.              *)
LEMMA SizeIs ==
  ASSUME NEW d \in [File -> Recording]
  PROVE  /\ IsFiniteSet(Packets(d)) /\ Cardinality(Packets(d)) \in Nat
         /\ IsFiniteSet(Indexes(d)) /\ Cardinality(Indexes(d)) \in Nat
         /\ Size(d) \in Nat
<1> DEFINE N == {m \in File : d[m].bytes # None}
           S == {{n} \X DOMAIN d[n].bytes : n \in N}
           g == [n \in N |-> {n} \X DOMAIN d[n].bytes]
<1>1. IsFiniteSet(File)
  BY FS_Interval, ConstantsAssumption DEF File
<1>2. IsFiniteSet(N) /\ IsFiniteSet(Indexes(d))
  BY <1>1, FS_Subset DEF Indexes
<1>3. g \in Surjection(N, S)
  BY DEF Surjection
<1>4. IsFiniteSet(S)
  BY <1>2, <1>3, FS_Surjection
<1>5. ASSUME NEW n \in N PROVE IsFiniteSet({n} \X DOMAIN d[n].bytes)
  <2>1. d[n].bytes \in Seq(Ports)
    BY DEF Recording
  <2>2. DOMAIN d[n].bytes = 1..Len(d[n].bytes) /\ Len(d[n].bytes) \in Nat
    BY <2>1
  <2>3. IsFiniteSet(DOMAIN d[n].bytes)
    BY <2>2, FS_Interval
  <2> QED
    BY <2>3, FS_Singleton, FS_Product
<1>6. IsFiniteSet(UNION S)
  BY <1>4, <1>5, FS_UNION
<1>7. IsFiniteSet(Packets(d))
  BY <1>6 DEF Packets
<1>8. Cardinality(Packets(d)) \in Nat /\ Cardinality(Indexes(d)) \in Nat
  BY <1>2, <1>7, FS_CardinalityType
<1> QED
  BY <1>2, <1>7, <1>8, ConstantsAssumption DEF Size

(* Fewer packets and indexes take up less. *)
LEMMA SizeLess ==
  ASSUME NEW d \in [File -> Recording], NEW e \in [File -> Recording],
         Packets(e) \subseteq Packets(d), Indexes(e) \subseteq Indexes(d)
  PROVE  Size(e) <= Size(d)
<1>1. /\ Cardinality(Packets(e)) <= Cardinality(Packets(d))
      /\ Cardinality(Indexes(e)) <= Cardinality(Indexes(d))
  BY SizeIs, FS_Subset
<1>2. /\ Cardinality(Packets(d)) \in Nat /\ Cardinality(Indexes(d)) \in Nat
      /\ Cardinality(Packets(e)) \in Nat /\ Cardinality(Indexes(e)) \in Nat
  BY SizeIs
<1>3. \A i, j, k \in Nat : i <= j => k * i <= k * j
  OBVIOUS
<1>4. Overhead * Cardinality(Indexes(e)) <= Overhead * Cardinality(Indexes(d))
  BY <1>1, <1>2, <1>3, ConstantsAssumption
<1>5. /\ Overhead * Cardinality(Indexes(e)) \in Nat
      /\ Overhead * Cardinality(Indexes(d)) \in Nat
  BY <1>2, ConstantsAssumption
<1> QED
  BY <1>1, <1>2, <1>4, <1>5 DEF Size

(* A pair is a packet of the disk.                                         *)
LEMMA InPackets ==
  ASSUME NEW d, NEW c
  PROVE  c \in Packets(d) <=> \E n \in File : /\ d[n].bytes # None
                                              /\ \E i \in DOMAIN d[n].bytes : c = <<n, i>>
BY DEF Packets

(* So much is in a file, and not there before.                             *)
LEMMA SizeMore ==
  ASSUME NEW d \in [File -> Recording], NEW e \in [File -> Recording], NEW f \in File,
         d[f].bytes \in Seq(Ports), e[f].bytes \in Seq(Ports),
         Len(d[f].bytes) <= Len(e[f].bytes),
         \A n \in File \ {f} : e[n].bytes = d[n].bytes,
         Indexes(e) = Indexes(d)
  PROVE  Size(e) = Size(d) + (Len(e[f].bytes) - Len(d[f].bytes))
<1> DEFINE a == Len(d[f].bytes)
           b == Len(e[f].bytes)
           X == {f} \X ((a + 1)..b)
<1>1. /\ a \in Nat /\ b \in Nat
      /\ DOMAIN d[f].bytes = 1..a /\ DOMAIN e[f].bytes = 1..b
  OBVIOUS
<1>2. d[f].bytes # None /\ e[f].bytes # None
  BY ConstantsAssumption
<1> HIDE DEF a, b
<1>3. a <= b
  BY DEF a, b
<1>4. \A i : i \in 1..b <=> i \in 1..a \/ i \in (a + 1)..b
  BY <1>1, <1>3
<1>5. Packets(e) = Packets(d) \cup X
  <2>1. ASSUME NEW c \in Packets(e) PROVE c \in Packets(d) \cup X
    <3>1. PICK n \in File : e[n].bytes # None /\ \E i \in DOMAIN e[n].bytes : c = <<n, i>>
      BY <2>1, InPackets
    <3>2. PICK i \in DOMAIN e[n].bytes : c = <<n, i>>
      BY <3>1
    <3>3. CASE n # f
      BY <3>1, <3>2, <3>3, InPackets
    <3>4. CASE n = f /\ i \in 1..a
      BY <1>1, <1>2, <3>2, <3>4, InPackets
    <3>5. CASE n = f /\ i \in (a + 1)..b
      BY <3>2, <3>5
    <3> QED
      BY <1>1, <1>4, <3>2, <3>3, <3>4, <3>5
  <2>2. ASSUME NEW c \in Packets(d) PROVE c \in Packets(e)
    <3>1. PICK n \in File : d[n].bytes # None /\ \E i \in DOMAIN d[n].bytes : c = <<n, i>>
      BY <2>2, InPackets
    <3>2. PICK i \in DOMAIN d[n].bytes : c = <<n, i>>
      BY <3>1
    <3>3. CASE n # f
      BY <3>1, <3>2, <3>3, InPackets
    <3>4. CASE n = f
      BY <1>1, <1>2, <1>4, <3>2, <3>4, InPackets
    <3> QED
      BY <3>3, <3>4
  <2>3. ASSUME NEW c \in X PROVE c \in Packets(e)
    <3>1. PICK i \in (a + 1)..b : c = <<f, i>>
      BY <2>3
    <3>2. i \in DOMAIN e[f].bytes
      BY <1>1, <1>4, <3>1
    <3> QED
      BY <1>2, <3>1, <3>2, InPackets
  <2> HIDE DEF X
  <2> QED
    BY <2>1, <2>2, <2>3
<1>6. Packets(d) \cap X = {}
  <2>1. ASSUME NEW c \in Packets(d), c \in X PROVE FALSE
    <3>1. PICK i \in (a + 1)..b : c = <<f, i>>
      BY <2>1
    <3>2. PICK n \in File : d[n].bytes # None /\ \E j \in DOMAIN d[n].bytes : c = <<n, j>>
      BY <2>1, InPackets
    <3>3. i \in 1..a
      BY <1>1, <3>1, <3>2
    <3> QED
      BY <1>1, <3>1, <3>3
  <2> QED
    BY <2>1
<1>7. IsFiniteSet(X) /\ Cardinality(X) = b - a
  <2>1. /\ IsFiniteSet((a + 1)..b)
        /\ Cardinality((a + 1)..b) = IF a + 1 > b THEN 0 ELSE b - (a + 1) + 1
    <3>1. a + 1 \in Int /\ b \in Int
      BY <1>1
    <3> QED
      BY <3>1, FS_Interval
  <2>2. Cardinality((a + 1)..b) = b - a
    BY <1>1, <1>3, <2>1
  <2>3. IsFiniteSet({f}) /\ Cardinality({f}) = 1
    BY FS_Singleton
  <2>4. IsFiniteSet(X) /\ Cardinality(X) = Cardinality({f}) * Cardinality((a + 1)..b)
    BY <2>1, <2>3, FS_Product
  <2> QED
    BY <1>1, <1>3, <2>2, <2>3, <2>4
<1> HIDE DEF X
<1>8. Cardinality(Packets(e)) = Cardinality(Packets(d)) + (b - a)
  <2>1. IsFiniteSet(Packets(d)) /\ Cardinality(Packets(d)) \in Nat
    BY SizeIs
  <2>2. Cardinality(Packets(d) \cup X)
          = Cardinality(Packets(d)) + Cardinality(X) - Cardinality(Packets(d) \cap X)
    BY <1>7, <2>1, FS_Union
  <2>3. Cardinality(Packets(d) \cap X) = 0
    BY <1>6, FS_EmptySet
  <2> QED
    BY <1>1, <1>3, <1>5, <1>7, <2>1, <2>2, <2>3
<1>9. Overhead * Cardinality(Indexes(d)) \in Nat /\ Cardinality(Packets(d)) \in Nat
  BY SizeIs, ConstantsAssumption
<1>10. Size(e) = Size(d) + (b - a)
  BY <1>1, <1>3, <1>8, <1>9 DEF Size
<1> QED
  BY <1>10 DEF a, b

(* A recording is opened: two files, and nothing in them.                  *)
LEMMA SizeOpened ==
  ASSUME NEW d \in [File -> Recording], NEW e \in [File -> Recording], NEW n \in File,
         Packets(e) \subseteq Packets(d), Indexes(e) \subseteq Indexes(d) \cup {n}
  PROVE  Size(e) <= Size(d) + Overhead
<1>1. IsFiniteSet(Indexes(d)) /\ IsFiniteSet(Packets(d))
  BY SizeIs
<1>2. /\ IsFiniteSet(Indexes(d) \cup {n})
      /\ Cardinality(Indexes(d) \cup {n}) =
           IF n \in Indexes(d) THEN Cardinality(Indexes(d)) ELSE Cardinality(Indexes(d)) + 1
  BY <1>1, FS_AddElement
<1>3. /\ Cardinality(Indexes(e)) <= Cardinality(Indexes(d) \cup {n})
      /\ Cardinality(Packets(e)) <= Cardinality(Packets(d))
  BY <1>1, <1>2, FS_Subset
<1>4. /\ Cardinality(Packets(d)) \in Nat /\ Cardinality(Indexes(d)) \in Nat
      /\ Cardinality(Packets(e)) \in Nat /\ Cardinality(Indexes(e)) \in Nat
  BY SizeIs
<1>5. Cardinality(Indexes(e)) <= Cardinality(Indexes(d)) + 1
  BY <1>2, <1>3, <1>4
<1>6. \A i, j, k \in Nat : i <= j + 1 => k * i <= k * j + k
  <2>1. ASSUME NEW i \in Nat, NEW j \in Nat, NEW k \in Nat, i <= j + 1 PROVE k * i <= k * j + k
    <3>1. k * i <= k * (j + 1)
      BY <2>1
    <3> QED
      BY <3>1
  <2> QED
    BY <2>1
<1>7. Overhead * Cardinality(Indexes(e)) <= Overhead * Cardinality(Indexes(d)) + Overhead
  BY <1>4, <1>5, <1>6, ConstantsAssumption
<1>8. /\ Overhead * Cardinality(Indexes(e)) \in Nat
      /\ Overhead * Cardinality(Indexes(d)) \in Nat /\ Overhead \in Nat
  BY <1>4, ConstantsAssumption
<1> QED
  BY <1>3, <1>4, <1>7, <1>8 DEF Size

-----------------------------------------------------------------------------
(* A pruning leaves less, and what it does not touch as it was.            *)
LEMMA PrunesLess ==
  ASSUME NEW d \in [File -> Recording], NEW e, NEW f, Prunes(d, e, f)
  PROVE  e \in [File -> Recording] /\ Size(e) <= Size(d) /\ (f \in File => e[f] = d[f])
<1>1. e \in [File -> Recording] /\ (f \in File => e[f] = d[f])
  BY DEF Prunes
<1>2. \A n \in File : /\ e[n].bytes # None => e[n].bytes = d[n].bytes
                      /\ e[n].rows # None => e[n].rows = d[n].rows
  BY DEF Prunes, Gone
<1>3. Packets(e) \subseteq Packets(d) /\ Indexes(e) \subseteq Indexes(d)
  BY <1>2 DEF Packets, Indexes
<1> QED
  BY <1>1, <1>3, SizeLess

(* The first of some files.                                                *)
LEMMA FirstFile ==
  ASSUME NEW N \in SUBSET File, N # {}
  PROVE  \E n \in N : \A m \in N : n <= m
<1> DEFINE T == {1..n : n \in N}
<1>1. IsFiniteSet(File)
  BY FS_Interval, ConstantsAssumption DEF File
<1>2. IsWellFoundedOn(StrictSubsetOrdering(File), SUBSET File)
  BY <1>1, FS_StrictSubsetOrderingWellFounded, FS_FiniteSubsetsOfFinite
<1>3. T \subseteq SUBSET File /\ T # {}
  <2>1. \A n \in File : 1..n \subseteq File
    BY ConstantsAssumption DEF File
  <2> QED
    BY <2>1
<1>4. PICK x \in T : \A y \in T : ~(<<y, x>> \in StrictSubsetOrdering(File))
  BY <1>2, <1>3, WFMin
<1>5. PICK n \in N : x = 1..n
  BY <1>4
<1>6. ASSUME NEW m \in N, m < n PROVE FALSE
  <2>1. m \in Nat /\ n \in Nat /\ 1 <= n
    BY ConstantsAssumption DEF File
  <2>2. 1..m \subseteq 1..n /\ n \in 1..n /\ n \notin 1..m
    BY <1>6, <2>1
  <2>3. 1..m \in T /\ 1..n \in T
    OBVIOUS
  <2>4. <<1..m, 1..n>> \in StrictSubsetOrdering(File)
    BY <1>3, <2>2, <2>3 DEF StrictSubsetOrdering
  <2> QED
    BY <1>4, <1>5, <2>3, <2>4
<1>7. \A m \in N : m \in Nat /\ n \in Nat
  BY ConstantsAssumption DEF File
<1> QED
  BY <1>6, <1>7

(* A disk with nothing on it. *)
LEMMA SizeNone ==
  ASSUME NEW d \in [File -> Recording], \A n \in File : d[n] = Gone
  PROVE  Size(d) = 0
<1>1. Packets(d) = {} /\ Indexes(d) = {}
  BY DEF Packets, Indexes, Gone
<1> QED
  BY <1>1, FS_EmptySet, ConstantsAssumption DEF Size

(* The recordings fit when a store without a file has pruned them: from    *)
(* the first one on that it has kept, they did.                            *)
LEMMA PruningFits ==
  ASSUME NEW d \in [File -> Recording], NEW s, s.file = None, s.config \in Config,
         NEW e \in Prunings(d, s)
  PROVE  Size(e) \in Nat /\ Size(e) <= s.config.budget
<1>1. PICK k \in 0..files : e = Without(d, Doomed(d, s, k))
  BY DEF Prunings
<1> DEFINE D == Doomed(d, s, k)
           N == {n \in File : n \notin D /\ d[n] # Gone}
<1>2. \A g \in Prunings(d, s) : Prunes(d, g, s.file)
  BY PruningsPrune
<1>3. e \in [File -> Recording] /\ Size(e) \in Nat
  BY <1>2, PrunesLess, SizeIs
<1>4. s.config.budget \in Nat /\ s.config.budget > Overhead + Reserve /\ Overhead \in Nat /\ Reserve \in Nat
  BY ConstantsAssumption
<1>5. CASE N = {}
  <2>1. \A n \in File : e[n] = Gone
    BY <1>1, <1>5 DEF Without
  <2> QED
    BY <1>3, <1>4, <2>1, SizeNone
<1>6. CASE N # {}
  <2>1. PICK n \in N : \A m \in N : n <= m
    BY <1>6, FirstFile
  <2> DEFINE g == Without(d, 1..(n - 1))
  <2>2. 1..(n - 1) \ {s.file} = 1..(n - 1)
    BY ConstantsAssumption
  <2>3. ~(Size(g) + Reserve > s.config.budget)
    <3>1. n \in File \ {s.file} /\ d[n] # Gone /\ n \notin Doomed(d, s, k)
      BY <2>1, ConstantsAssumption DEF File
    <3> HIDE DEF N, D, g
    <3>2. ~(Size(Without(d, 1..(n - 1) \ {s.file})) + Reserve > s.config.budget)
      BY <3>1 DEF Doomed
    <3> QED
      BY <2>2, <3>2 DEF g
  <2>4. g \in [File -> Recording]
    BY WithoutPrunes DEF Without, Gone, Recording
  <2>5. \A m \in File : e[m] # Gone => e[m] = d[m] /\ m \in N
    BY <1>1 DEF Without
  <2>6. \A m \in N : m \notin 1..(n - 1)
    BY <2>1 DEF File
  <2>7. \A m \in File : e[m] # Gone => e[m] = g[m]
    BY <2>5, <2>6 DEF Without
  <2> HIDE DEF g
  <2>8. Packets(e) \subseteq Packets(g) /\ Indexes(e) \subseteq Indexes(g)
    BY <2>7 DEF Packets, Indexes, Gone
  <2>9. Size(e) <= Size(g) /\ Size(g) \in Nat
    BY <1>3, <2>4, <2>8, SizeLess, SizeIs
  <2> QED
    BY <1>3, <1>4, <2>3, <2>9
<1> QED
  BY <1>5, <1>6

-----------------------------------------------------------------------------
(* What a store has in memory, and the disk has not yet; and what the      *)
(* recordings come to when it is written.                                  *)
Unwritten(d, s) ==
  IF s.file # None /\ ~s.dead THEN Len(s.bytes) - Len(d[s.file].bytes) ELSE 0
Weight(d, s) == Size(d) + Unwritten(d, s)

(* The weight is within the budget, but for the files of a recording that  *)
(* was opened after the last measurement; it is what the store has counted *)
(* if it is open, until something breaks; and a store that writes a packet *)
(* has counted it.                                                         *)
InBudget(d, s, at) ==
  /\ s.used \in Nat
  /\ Weight(d, s) <= s.config.budget + Overhead
  /\ s.file # None /\ ~s.dead /\ at # "broken" =>
       /\ Weight(d, s) <= s.used + Overhead
       /\ at \in {"open", "write"} => s.used + 1 <= s.config.budget

BudgetInv == store # None \/ pc \in Stages => InBudget(disk, store, pc)

(* The store's own, as numbers.                                            *)
LEMMA StoreIs ==
  ASSUME NEW d, NEW s, NEW F, NEW v, Good(d, s, F, v)
  PROVE  /\ d \in [File -> Recording] /\ s.config \in Config /\ s.config.budget \in Nat
         /\ s.file \in File \cup {None} /\ Size(d) \in Nat /\ Overhead \in Nat
         /\ s.file = None \/ s.dead => Weight(d, s) = Size(d)
         /\ s.file # None /\ ~s.dead =>
              /\ s.file \in File /\ d[s.file].bytes \in Seq(Ports) /\ s.bytes \in Seq(Ports)
              /\ Len(d[s.file].bytes) \in Nat /\ Len(s.bytes) \in Nat
              /\ Len(d[s.file].bytes) <= Len(s.bytes)
              /\ Weight(d, s) = Size(d) + (Len(s.bytes) - Len(d[s.file].bytes))
         /\ Weight(d, s) \in Nat /\ Size(d) <= Weight(d, s)
<1>1. /\ d \in [File -> Recording] /\ s.config \in Config /\ s.file \in File \cup {None}
      /\ s.dead \in BOOLEAN
  BY DEF Good, DiskOK, StoreOK
<1>2. s.config.budget \in Nat /\ Overhead \in Nat /\ Size(d) \in Nat
  BY <1>1, SizeIs, ConstantsAssumption
<1>3. CASE s.file = None \/ s.dead
  <2>1. Unwritten(d, s) = 0
    BY <1>3 DEF Unwritten
  <2>2. Weight(d, s) = Size(d)
    BY <1>2, <2>1 DEF Weight
  <2>3. Weight(d, s) \in Nat /\ Size(d) <= Weight(d, s)
    BY <1>2, <2>2
  <2> QED
    BY <1>1, <1>2, <1>3, <2>2, <2>3
<1>4. CASE s.file # None /\ ~s.dead
  <2>1. /\ s.bytes \in Seq(Ports) /\ d[s.file].bytes \in Seq(Ports)
        /\ Len(d[s.file].bytes) <= Len(s.bytes)
    BY <1>4 DEF Good, StoreOK, Begins
  <2>2. /\ Len(d[s.file].bytes) \in Nat /\ Len(s.bytes) \in Nat
        /\ Len(d[s.file].bytes) <= Len(s.bytes)
    BY <2>1
  <2>3. Weight(d, s) = Size(d) + (Len(s.bytes) - Len(d[s.file].bytes))
    BY <1>4 DEF Weight, Unwritten
  <2>4. \A i, j, k \in Nat : j <= k => i + (k - j) \in Nat /\ i <= i + (k - j)
    OBVIOUS
  <2>5. Weight(d, s) \in Nat /\ Size(d) <= Weight(d, s)
    BY <1>2, <2>2, <2>3, <2>4
  <2> QED
    BY <1>1, <1>2, <1>4, <2>1, <2>2, <2>3, <2>5
<1> QED
  BY <1>3, <1>4

(* A write makes the weight a size.                                        *)
LEMMA WriteWeighs ==
  ASSUME NEW d, NEW s, NEW F \in Nat, NEW v, Good(d, s, F, v), ~s.dead
  PROVE  /\ Weight(WithBytes(d, s), s) = Weight(d, s) /\ Size(WithBytes(d, s)) = Weight(d, s)
         /\ Weight(Flushed(d, s), s) = Weight(d, s) /\ Size(Flushed(d, s)) = Weight(d, s)
<1> DEFINE f == s.file
           e == WithBytes(d, s)
           g == Flushed(d, s)
<1>1. Good(e, s, F, v) /\ Good(g, s, F, v)
  BY BytesWritten, FlushKeeps
<1>2. CASE f = None
  <2>1. e = d /\ g = d
    BY <1>2 DEF WithBytes, WithRows, Flushed, Open
  <2> QED
    BY <1>2, <2>1, StoreIs
<1>3. CASE f # None
  <2>1. /\ f \in File /\ d \in [File -> Recording] /\ d[f] \in Recording
        /\ d[f].bytes \in Seq(Ports) /\ s.bytes \in Seq(Ports) /\ d[f].rows \in Seq(Row)
        /\ s.rows \in Seq(Row) /\ Len(d[f].bytes) <= Len(s.bytes)
    BY <1>3, StoreIs DEF Good, StoreOK
  <2>2. e = [d EXCEPT ![f].bytes = s.bytes] /\ g = [e EXCEPT ![f].rows = s.rows, ![f].info = s.config]
    BY <1>3 DEF WithBytes, WithRows, Flushed, Open
  <2>3. /\ \A n \in File \ {f} : e[n] = d[n]
        /\ e[f] = [bytes |-> s.bytes, rows |-> d[f].rows, info |-> d[f].info]
        /\ e \in [File -> Recording]
    BY <2>1, <2>2, <1>1 DEF Recording, Good, DiskOK
  <2> HIDE DEF e, g
  <2>4. /\ \A n \in File \ {f} : g[n] = e[n]
        /\ g[f] = [bytes |-> s.bytes, rows |-> s.rows, info |-> s.config]
        /\ g \in [File -> Recording]
    BY <2>1, <2>2, <2>3, <1>1 DEF Recording, Good, DiskOK
  <2>5. None \notin Seq(Row)
    BY ConstantsAssumption
  <2>6. Indexes(e) = Indexes(d) /\ Indexes(g) = Indexes(d)
    BY <2>1, <2>3, <2>4, <2>5 DEF Indexes
  <2>7. ASSUME NEW h \in {e, g} PROVE Size(h) = Size(d) + (Len(s.bytes) - Len(d[f].bytes))
    <3>1. /\ h \in [File -> Recording] /\ h[f].bytes = s.bytes /\ Indexes(h) = Indexes(d)
          /\ \A n \in File \ {f} : h[n].bytes = d[n].bytes
      BY <2>3, <2>4, <2>6
    <3> QED
      BY <2>1, <3>1, SizeMore
  <2>8. Weight(d, s) = Size(d) + (Len(s.bytes) - Len(d[f].bytes))
    BY <1>3, StoreIs
  <2>9. /\ Weight(e, s) = Size(e) + (Len(s.bytes) - Len(e[f].bytes))
        /\ Weight(g, s) = Size(g) + (Len(s.bytes) - Len(g[f].bytes))
    BY <1>1, <1>3, StoreIs
  <2>10. Size(e) \in Nat /\ Size(g) \in Nat /\ Len(s.bytes) \in Nat
    BY <2>1, <2>3, <2>4, SizeIs
  <2>11. Weight(e, s) = Size(e) /\ Weight(g, s) = Size(g)
    BY <2>3, <2>4, <2>9, <2>10
  <2> QED
    BY <2>7, <2>8, <2>11 DEF e, g
<1> QED
  BY <1>2, <1>3

(* A pruning takes weight away.                                            *)
LEMMA PruneWeighs ==
  ASSUME NEW d, NEW s, NEW F, NEW v, Good(d, s, F, v), NEW e, Prunes(d, e, s.file)
  PROVE  Good(e, s, F, v) /\ Weight(e, s) <= Weight(d, s) /\ Size(e) <= Size(d)
         /\ Size(e) \in Nat
<1>1. Good(e, s, F, v)
  BY PruneKeeps DEF All
<1>2. /\ d \in [File -> Recording] /\ Size(d) \in Nat /\ Size(e) \in Nat
  BY <1>1, StoreIs
<1>3. Size(e) <= Size(d) /\ (s.file \in File => e[s.file] = d[s.file])
  BY <1>2, PrunesLess
<1>4. CASE s.file = None \/ s.dead
  BY <1>1, <1>2, <1>3, <1>4, StoreIs
<1>5. CASE s.file # None /\ ~s.dead
  <2>1. s.file \in File /\ Len(d[s.file].bytes) \in Nat /\ Len(s.bytes) \in Nat
    BY <1>5, StoreIs
  <2>2. /\ Weight(d, s) = Size(d) + (Len(s.bytes) - Len(d[s.file].bytes))
        /\ Weight(e, s) = Size(e) + (Len(s.bytes) - Len(e[s.file].bytes))
    BY <1>1, <1>5, StoreIs
  <2>3. e[s.file] = d[s.file]
    BY <1>3, <2>1
  <2>4. Weight(e, s) = Size(e) + (Len(s.bytes) - Len(d[s.file].bytes))
    BY <2>2, <2>3
  <2>5. \A h, i, j, k \in Nat : h <= i => h + (k - j) <= i + (k - j)
    OBVIOUS
  <2>6. Weight(e, s) <= Weight(d, s)
    BY <1>2, <1>3, <2>1, <2>2, <2>4, <2>5
  <2> QED
    BY <1>1, <1>2, <1>3, <2>6
<1> QED
  BY <1>4, <1>5

-----------------------------------------------------------------------------
(* What is left of the budget when a store forgets its file, is dead, has  *)
(* counted anew, or has taken a packet.                                    *)
LEMMA ClosedInBudget ==
  ASSUME NEW d, NEW s, NEW F, NEW v, Good(d, s, F, v), s.used \in Nat,
         NEW e \in [File -> Recording], Size(e) <= s.config.budget + Overhead, NEW at
  PROVE  InBudget(e, Closed(s), at)
<1> DEFINE t == Closed(s)
<1>1. t \in [config : {s.config}, file : {None}, bytes : {<<>>}, rows : {<<>>},
             used : {s.used}, dead : {FALSE}]
  BY StoreFields DEF Good
<1> HIDE DEF t
<1>2. t.config = s.config /\ t.file = None /\ t.used = s.used
  BY <1>1
<1>3. Unwritten(e, t) = 0
  BY <1>2 DEF Unwritten
<1>4. Weight(e, t) = Size(e)
  BY <1>3, SizeIs DEF Weight
<1>5. InBudget(e, t, at)
  BY <1>2, <1>4 DEF InBudget
<1> QED
  BY <1>5 DEF t

LEMMA DeadInBudget ==
  ASSUME NEW d, NEW s, NEW F, NEW v, Good(d, s, F, v), s.used \in Nat,
         Size(d) <= s.config.budget + Overhead, NEW at
  PROVE  InBudget(d, [s EXCEPT !.dead = TRUE], at)
<1> DEFINE t == [s EXCEPT !.dead = TRUE]
<1>1. t \in [config : {s.config}, file : {s.file}, bytes : {s.bytes}, rows : {s.rows},
             used : {s.used}, dead : {TRUE}]
  BY StoreFields DEF Good
<1> HIDE DEF t
<1>2. t.config = s.config /\ t.dead /\ t.used = s.used
  BY <1>1
<1>3. Unwritten(d, t) = 0
  BY <1>2 DEF Unwritten
<1>4. Weight(d, t) = Size(d)
  <2>1. Size(d) \in Nat
    BY StoreIs
  <2> QED
    BY <1>3, <2>1 DEF Weight
<1>5. InBudget(d, t, at)
  BY <1>2, <1>4 DEF InBudget
<1> QED
  BY <1>5 DEF t

LEMMA CountedInBudget ==
  ASSUME NEW d, NEW s, NEW F, NEW v, Good(d, s, F, v), Weight(d, s) = Size(d),
         Size(d) <= s.config.budget + Overhead, NEW at,
         at \in {"open", "write"} /\ s.file # None => Size(d) + 1 <= s.config.budget
  PROVE  InBudget(d, Counted(s, Size(d)), at)
<1> DEFINE t == Counted(s, Size(d))
<1>1. t \in [config : {s.config}, file : {s.file}, bytes : {s.bytes}, rows : {s.rows},
             used : {Size(d)}, dead : {s.dead}]
  BY StoreFields DEF Good, Counted
<1> HIDE DEF t
<1>2. t.config = s.config /\ t.file = s.file /\ t.bytes = s.bytes /\ t.dead = s.dead
      /\ t.used = Size(d)
  BY <1>1
<1>3. Weight(d, t) = Weight(d, s)
  BY <1>2, Zenon DEF Weight, Unwritten
<1>4. Size(d) \in Nat /\ Overhead \in Nat
  BY StoreIs
<1>5. Size(d) <= Size(d) + Overhead
  BY <1>4
<1>6. InBudget(d, t, at)
  BY <1>2, <1>3, <1>4, <1>5 DEF InBudget
<1> QED
  BY <1>6 DEF t

LEMMA AppendedWeighs ==
  ASSUME NEW d, NEW s, NEW F, NEW v, Good(d, s, F, v), NEW p \in s.config.ports,
         ~s.dead, Len(s.bytes) < SegmentRows, s.file # None
  PROVE  /\ Weight(d, Appended(s, p)) = Weight(d, s) + 1
         /\ Weight(d, HalfAppended(s, p)) = Weight(d, s) + 1
         /\ Appended(s, p).used = s.used + 1 /\ HalfAppended(s, p).used = s.used
<1> DEFINE row == [port |-> p, offset |-> Len(s.bytes) + 1]
           t == Appended(s, p)
           h == HalfAppended(s, p)
<1>1. StoreOK(s, d, F) /\ s.dead = FALSE
  BY DEF Good, StoreOK
<1>2. s \in [config : Config, file : {n \in File : n <= F} \cup {None},
             bytes : Seq(Ports), rows : Seq(Row), used : {s.used}, dead : BOOLEAN]
  BY <1>1 DEF StoreOK
<1>3. /\ t \in [config : {s.config}, file : {s.file}, bytes : {Append(s.bytes, p)},
                rows : {Append(s.rows, row)}, used : {s.used + 1}, dead : {FALSE}]
      /\ t.bytes = Append(s.bytes, p)
  BY <1>1, <1>2 DEF Appended
<1>4. h \in [config : {s.config}, file : {s.file}, bytes : {Append(s.bytes, p)},
             rows : {s.rows}, used : {s.used}, dead : {FALSE}]
  BY <1>1, <1>2, <1>3 DEF HalfAppended
<1>5. /\ p \in Ports /\ s.bytes \in Seq(Ports)
  BY <1>2 DEF Ports
<1>6. Len(Append(s.bytes, p)) = Len(s.bytes) + 1
  BY <1>5
<1> HIDE DEF t, h
<1>7. /\ t.file = s.file /\ t.bytes = Append(s.bytes, p) /\ ~t.dead /\ t.used = s.used + 1
      /\ h.file = s.file /\ h.bytes = Append(s.bytes, p) /\ ~h.dead /\ h.used = s.used
  BY <1>3, <1>4
<1>8. /\ Unwritten(d, t) = (Len(s.bytes) + 1) - Len(d[s.file].bytes)
      /\ Unwritten(d, h) = (Len(s.bytes) + 1) - Len(d[s.file].bytes)
  BY <1>6, <1>7 DEF Unwritten
<1>9. /\ Weight(d, s) = Size(d) + (Len(s.bytes) - Len(d[s.file].bytes))
      /\ Size(d) \in Nat /\ Len(s.bytes) \in Nat /\ Len(d[s.file].bytes) \in Nat
      /\ Weight(d, s) \in Nat
  BY StoreIs
<1>10. \A w, i, j, k \in Nat : w = i + (k - j) => i + ((k + 1) - j) = w + 1
  OBVIOUS
<1>11. /\ Weight(d, t) = Size(d) + ((Len(s.bytes) + 1) - Len(d[s.file].bytes))
       /\ Weight(d, h) = Size(d) + ((Len(s.bytes) + 1) - Len(d[s.file].bytes))
  BY <1>8 DEF Weight
<1>12. Size(d) + ((Len(s.bytes) + 1) - Len(d[s.file].bytes)) = Weight(d, s) + 1
  BY <1>9, <1>10
<1>13. Weight(d, t) = Weight(d, s) + 1 /\ Weight(d, h) = Weight(d, s) + 1
  BY <1>11, <1>12
<1> QED
  BY <1>7, <1>13 DEF t, h

(* Where a step leads to.                                                  *)
LEMMA GoesInBudget ==
  ASSUME NEW to, NEW d, NEW s, Goes(to, d, s), InBudget(d, s, to)
  PROVE  BudgetInv'
BY DEF Goes, BudgetInv, InBudget, Weight, Unwritten

LEMMA BrokenInBudget ==
  ASSUME NEW D, NEW s, BrokenOff(D, s),
         s # None => s.used \in Nat /\ \A e \in D : Weight(e, s) <= s.config.budget + Overhead
  PROVE  BudgetInv'
<1>1. disk' \in D /\ (store' = None \/ (store' = s /\ pc' = "broken"))
  BY DEF BrokenOff, Dies
<1> QED
  BY <1>1 DEF BudgetInv, InBudget, Stages, BrokenOff, Dies

LEMMA CloseInBudget ==
  ASSUME CapInv, BudgetInv, CloseBreaks, store # None \/ pc \in Stages, ~store.dead
  PROVE  BudgetInv'
<1>1. Good(disk, store, files, view) /\ files \in Nat
  BY ConfigIs
<1>2. InBudget(disk, store, pc)
  BY DEF BudgetInv
<1>3. /\ disk \in [File -> Recording] /\ Size(disk) \in Nat /\ Weight(disk, store) \in Nat
      /\ Size(disk) <= Weight(disk, store) /\ store.config.budget \in Nat /\ Overhead \in Nat
  BY <1>1, StoreIs
<1>4. store.used \in Nat /\ Weight(disk, store) <= store.config.budget + Overhead
  BY <1>2 DEF InBudget
<1>5. Size(disk) <= store.config.budget + Overhead
  BY <1>3, <1>4
<1>6. CASE BrokenOff({disk}, [store EXCEPT !.dead = TRUE])
  <2> DEFINE t == [store EXCEPT !.dead = TRUE]
  <2>1. InBudget(disk, t, "broken")
    BY <1>1, <1>4, <1>5, DeadInBudget
  <2>2. BrokenOff({disk}, t)
    BY <1>6
  <2> HIDE DEF t
  <2>3. t.used \in Nat /\ \A e \in {disk} : Weight(e, t) <= t.config.budget + Overhead
    BY <2>1 DEF InBudget
  <2> QED
    BY <2>2, <2>3, BrokenInBudget
<1>7. CASE BrokenOff(HalfFlushed(disk, store), Closed(store))
  <2>1. ASSUME NEW e \in HalfFlushed(disk, store)
        PROVE  InBudget(e, Closed(store), "broken")
    <3>1. Good(e, store, files, view)
      BY <1>1, FlushKeeps
    <3>2. Size(e) = Size(disk) \/ Size(e) = Weight(disk, store)
      BY <1>1, WriteWeighs DEF HalfFlushed
    <3>3. e \in [File -> Recording] /\ Size(e) <= store.config.budget + Overhead
      BY <1>4, <1>5, <3>1, <3>2, StoreIs
    <3> QED
      BY <1>1, <1>4, <3>3, ClosedInBudget
  <2>2. /\ \A e \in HalfFlushed(disk, store) : Weight(e, Closed(store)) <= Closed(store).config.budget + Overhead
        /\ Closed(store).used \in Nat
    BY <2>1 DEF InBudget, HalfFlushed
  <2> QED
    BY <1>7, <2>2, BrokenInBudget
<1> QED
  BY <1>6, <1>7 DEF CloseBreaks

(* What a pruning leaves of a store that had written all: all is written.  *)
LEMMA PruneWritten ==
  ASSUME NEW d, NEW s, NEW F, NEW v, Good(d, s, F, v), ~s.dead, Weight(d, s) = Size(d),
         NEW e, Prunes(d, e, s.file)
  PROVE  Good(e, s, F, v) /\ Weight(e, s) = Size(e) /\ Size(e) \in Nat /\ Size(e) <= Size(d)
<1>1. Good(e, s, F, v) /\ Size(e) <= Size(d) /\ Size(e) \in Nat
  BY PruneWeighs
<1>2. CASE s.file = None
  BY <1>1, <1>2, StoreIs
<1>3. CASE s.file # None
  <2>1. /\ s.file \in File /\ Size(d) \in Nat /\ d \in [File -> Recording]
        /\ Len(d[s.file].bytes) \in Nat /\ Len(s.bytes) \in Nat
        /\ Weight(d, s) = Size(d) + (Len(s.bytes) - Len(d[s.file].bytes))
    BY <1>3, StoreIs
  <2>2. e[s.file] = d[s.file]
    BY <2>1, PrunesLess
  <2>3. Weight(e, s) = Size(e) + (Len(s.bytes) - Len(e[s.file].bytes))
    BY <1>1, <1>3, StoreIs
  <2>4. Len(s.bytes) = Len(d[s.file].bytes)
    <3> DEFINE j == Len(d[s.file].bytes)
               k == Len(s.bytes)
               i == Size(d)
    <3>1. i \in Nat /\ j \in Nat /\ k \in Nat /\ i = i + (k - j)
      BY <2>1
    <3> HIDE DEF i, j, k
    <3>2. k = j
      BY <3>1
    <3> QED
      BY <3>2 DEF j, k
  <2>5. Weight(e, s) = Size(e) + (Len(s.bytes) - Len(s.bytes))
    BY <2>2, <2>3, <2>4
  <2>7. Weight(e, s) = Size(e)
    BY <1>1, <2>1, <2>5
  <2> QED
    BY <1>1, <2>7
<1> QED
  BY <1>2, <1>3

(* A packet is skipped: the store is closed.                               *)
LEMMA SkipInBudget ==
  ASSUME NEW d \in [File -> Recording], Skip(d), NEW F, NEW v, Good(disk, store, F, v),
         store.used \in Nat, Size(d) <= store.config.budget + Overhead
  PROVE  BudgetInv'
<1>1. InBudget(d, Closed(store), "loop")
  BY ClosedInBudget
<1> QED
  BY <1>1, GoesInBudget DEF Skip

(* A pruning after which the append goes on, or skips the packet.          *)
LEMMA PruneAndInBudget ==
  ASSUME CapInv, NEW to \in {"room", "open"}, NEW d, NEW s, PruneAnd(to, d, s),
         Good(d, s, files, view), ~s.dead, Weight(d, s) = Size(d),
         Size(d) <= s.config.budget + Overhead, s.used \in Nat,
         to = "open" => s.file = None,
         store.used \in Nat, store.config = s.config, Good(disk, store, files, view)
  PROVE  BudgetInv'
<1>1. /\ d \in [File -> Recording] /\ Size(d) \in Nat /\ s.config.budget \in Nat
      /\ Overhead \in Nat /\ files \in Nat
  BY StoreIs DEF CapInv, LoopInv
<1>2. ASSUME NEW e, e \in Prunings(d, s) \/ e \in HalfPruned(d, s)
      PROVE  /\ Good(e, s, files, view) /\ Size(e) \in Nat /\ Weight(e, s) = Size(e)
             /\ Size(e) <= s.config.budget + Overhead
  <2>1. Prunes(d, e, s.file)
    BY <1>1, <1>2, PruningsPrune
  <2>2. /\ Good(e, s, files, view) /\ Weight(e, s) = Size(e) /\ Size(e) <= Size(d)
        /\ Size(e) \in Nat
    BY <2>1, PruneWritten
  <2> QED
    BY <1>1, <2>2
<1>3. ASSUME NEW e \in Prunings(d, s)
      PROVE  /\ Good(Flushed(e, s), s, files, view) /\ Flushed(e, s) \in [File -> Recording]
             /\ Size(Flushed(e, s)) <= s.config.budget + Overhead
  <2>1. Good(e, s, files, view) /\ Weight(e, s) <= s.config.budget + Overhead
    BY <1>2
  <2>2. Size(Flushed(e, s)) = Weight(e, s) /\ Good(Flushed(e, s), s, files, view)
    BY <1>1, <2>1, WriteWeighs, FlushKeeps
  <2> QED
    BY <2>1, <2>2, StoreIs
<1>4. ASSUME NEW e \in Prunings(d, s), Goes(to, e, Counted(s, Size(e)))
      PROVE  BudgetInv'
  <2>1. InBudget(e, Counted(s, Size(e)), to)
    BY <1>2, CountedInBudget
  <2> QED
    BY <1>4, <2>1, GoesInBudget
<1>5. ASSUME NEW e \in Prunings(d, s), Skip(Flushed(e, s))
      PROVE  BudgetInv'
  BY <1>3, <1>5, SkipInBudget
<1>6. ASSUME NEW e \in Prunings(d, s), disk' = Flushed(e, s), pc' = "loop", store' = Closed(s)
      PROVE  BudgetInv'
  <2>1. InBudget(Flushed(e, s), Closed(s), "loop")
    BY <1>3, ClosedInBudget
  <2> QED
    BY <1>6, <2>1 DEF BudgetInv, InBudget, Weight, Unwritten
<1>7. CASE BrokenOff(HalfPruned(d, s), s)
  <2>1. \A e \in HalfPruned(d, s) : Weight(e, s) <= s.config.budget + Overhead
    BY <1>2
  <2> QED
    BY <1>7, <2>1, BrokenInBudget
<1> QED
  BY <1>4, <1>5, <1>6, <1>7 DEF PruneAnd, Counted
-----------------------------------------------------------------------------
(* Stage by stage: what the invariant says of the store.                   *)
LEMMA BudgetIs ==
  ASSUME CapInv, BudgetInv, store # None \/ pc \in Stages
  PROVE  /\ InBudget(disk, store, pc) /\ store.used \in Nat
         /\ Good(disk, store, files, view) /\ files \in Nat
         /\ disk \in [File -> Recording] /\ Size(disk) \in Nat /\ Weight(disk, store) \in Nat
         /\ store.config.budget \in Nat /\ Overhead \in Nat
         /\ Size(disk) <= Weight(disk, store)
         /\ Weight(disk, store) <= store.config.budget + Overhead
         /\ Size(disk) <= store.config.budget + Overhead
         /\ pc \in Stages => ~store.dead
<1>1. Good(disk, store, files, view) /\ files \in Nat
  BY ConfigIs
<1>3. InBudget(disk, store, pc)
  BY DEF BudgetInv
<1>4. /\ disk \in [File -> Recording] /\ Size(disk) \in Nat /\ Weight(disk, store) \in Nat
      /\ store.config.budget \in Nat /\ Overhead \in Nat /\ Size(disk) <= Weight(disk, store)
  BY <1>1, StoreIs
<1>5. store.used \in Nat /\ Weight(disk, store) <= store.config.budget + Overhead
  BY <1>3 DEF InBudget
<1>6. Size(disk) <= store.config.budget + Overhead
  BY <1>4, <1>5
<1> QED
  BY <1>1, <1>3, <1>4, <1>5, <1>6 DEF CapInv, LoopInv

(* Steps that leave the disk and the store alone.                          *)
LEMMA QuietInBudget ==
  ASSUME BudgetInv,
         \/ Configure \/ Boot \/ UseOfDead \/ StartDump \/ DumpDies \/ Receive
         \/ (\E n \in File : ReadFirst(n)) \/ ReadNext \/ UNCHANGED vars
  PROVE  BudgetInv'
<1>1. UNCHANGED <<store, disk>>
  BY DEF Configure, Boot, UseOfDead, StartDump, DumpDies, Receive, ReadFirst, ReadNext, vars
<1>2. \/ pc' = pc
      \/ pc = "down" /\ pc' = "loop"
      \/ pc = "loop" /\ pc' = "broken"
      \/ pc = "loop" /\ pc' = "rotate" /\ store # None
  BY DEF Configure, Boot, UseOfDead, StartDump, DumpDies, Receive, ReadFirst, ReadNext, vars, Usable
<1>3. Weight(disk, store)' = Weight(disk, store)
  BY <1>1 DEF Weight, Unwritten
<1>4. CASE pc' = pc
  BY <1>1, <1>3, <1>4 DEF BudgetInv, InBudget
<1>5. CASE pc \in {"down", "loop"} /\ pc' \in {"loop", "broken"}
  BY <1>1, <1>3, <1>5 DEF BudgetInv, InBudget, Stages
<1>6. CASE pc = "loop" /\ pc' = "rotate" /\ store # None
  BY <1>1, <1>3, <1>6 DEF BudgetInv, InBudget, Stages
<1> QED
  BY <1>2, <1>4, <1>5, <1>6

LEMMA RefreshInBudget == ASSUME CapInv, BudgetInv, Refresh PROVE BudgetInv'
<1> DEFINE d == IF store = None THEN disk ELSE Flushed(disk, store)
           s == NewStore(wanted, 0)
<1>1. wanted \in Config /\ s.file = None /\ s.config = wanted /\ Overhead \in Nat
  BY ConstantsAssumption DEF CapInv, LoopInv, NewStore
<1>2. ASSUME store # None
      PROVE  /\ d = Flushed(disk, store) /\ ~store.dead /\ Good(d, store, files, view)
             /\ Size(d) <= store.config.budget + Overhead
  <2>1. d = Flushed(disk, store) /\ ~store.dead
    BY <1>2 DEF Refresh
  <2>2. Good(disk, store, files, view) /\ files \in Nat /\ Weight(disk, store) <= store.config.budget + Overhead
    BY <1>2, BudgetIs
  <2> QED
    BY <2>1, <2>2, WriteWeighs, FlushKeeps
<1>3. d \in [File -> Recording]
  <2>1. CASE store = None
    BY <2>1, WithoutStore DEF CapInv, DiskOK
  <2>2. CASE store # None
    BY <1>2, <2>2, StoreIs
  <2> QED
    BY <2>1, <2>2
<1> HIDE DEF d
<1>4. CASE /\ \E e \in Prunings(d, s) : disk' = e /\ store' = NewStore(wanted, Size(e))
           /\ UNCHANGED pc
  <2>1. PICK e \in Prunings(d, s) : disk' = e /\ store' = NewStore(wanted, Size(e))
    BY <1>4
  <2>2. s.config \in Config /\ wanted.budget \in Nat
    BY <1>1, ConstantsAssumption
  <2>3. Size(e) \in Nat /\ Size(e) <= wanted.budget
    BY <1>1, <1>3, <2>2, PruningFits
  <2> DEFINE t == NewStore(wanted, Size(e))
  <2>4. t.config = wanted /\ t.file = None /\ t.used = Size(e)
    BY DEF NewStore
  <2> HIDE DEF t
  <2>5. Unwritten(e, t) = 0
    BY <2>4 DEF Unwritten
  <2>6. Weight(e, t) = Size(e)
    BY <2>3, <2>5 DEF Weight
  <2>7. Size(e) <= wanted.budget + Overhead
    BY <1>1, <2>2, <2>3
  <2>8. InBudget(e, t, pc')
    BY <2>3, <2>4, <2>6, <2>7 DEF InBudget
  <2> QED
    BY <2>1, <2>8 DEF BudgetInv, InBudget, Weight, Unwritten, t
<1>5. CASE store # None /\ Open(store) /\ CloseBreaks
  BY <1>2, <1>5, CloseInBudget
<1>6. CASE BrokenOff(HalfPruned(d, s), IF store = None THEN None ELSE Closed(store))
  <2>1. CASE store = None
    BY <1>6, <2>1, BrokenInBudget
  <2>2. CASE store # None
    <3>1. ASSUME NEW e \in HalfPruned(d, s) PROVE InBudget(e, Closed(store), "broken")
      <4>1. Prunes(d, e, s.file)
        BY <1>3, PruningsPrune
      <4>2. e \in [File -> Recording] /\ Size(e) <= Size(d) /\ Size(e) \in Nat /\ Size(d) \in Nat
        BY <1>3, <4>1, PrunesLess, SizeIs
      <4>3. store.used \in Nat /\ store.config.budget \in Nat
        BY <2>2, BudgetIs
      <4>4. Size(e) <= store.config.budget + Overhead
        BY <1>1, <1>2, <2>2, <4>2, <4>3
      <4> QED
        BY <1>2, <2>2, <4>2, <4>3, <4>4, ClosedInBudget
    <3>2. /\ \A e \in HalfPruned(d, s) :
               Weight(e, Closed(store)) <= Closed(store).config.budget + Overhead
          /\ disk' \in HalfPruned(d, s)
      BY <1>6, <3>1 DEF InBudget, BrokenOff
    <3>3. Closed(store).used \in Nat
      BY <3>1, <3>2 DEF InBudget
    <3>4. BrokenOff(HalfPruned(d, s), Closed(store))
      BY <1>6, <2>2
    <3> QED
      BY <3>2, <3>3, <3>4, BrokenInBudget
  <2> QED
    BY <2>1, <2>2
<1> QED
  BY <1>4, <1>5, <1>6 DEF Refresh, d

LEMMA RotateInBudget == ASSUME CapInv, BudgetInv, Rotate PROVE BudgetInv'
<1>1. pc = "rotate" /\ pc \in Stages
  BY DEF Rotate, Stages
<1>2. /\ InBudget(disk, store, pc) /\ store.used \in Nat /\ ~store.dead /\ files \in Nat
      /\ Good(disk, store, files, view) /\ Weight(disk, store) <= store.config.budget + Overhead
  BY <1>1, BudgetIs
<1>3. CASE Goes("check", disk, store)
  <2>1. InBudget(disk, store, "check")
    BY <1>1, <1>2 DEF InBudget
  <2> QED
    BY <1>3, <2>1, GoesInBudget
<1>4. CASE Goes("check", Flushed(disk, store), Closed(store))
  <2>1. Good(Flushed(disk, store), store, files, view)
    BY <1>2, FlushKeeps
  <2>2. /\ Flushed(disk, store) \in [File -> Recording]
        /\ Size(Flushed(disk, store)) <= store.config.budget + Overhead
    BY <1>2, <2>1, WriteWeighs, StoreIs
  <2>3. InBudget(Flushed(disk, store), Closed(store), "check")
    BY <1>2, <2>2, ClosedInBudget
  <2> QED
    BY <1>4, <2>3, GoesInBudget
<1>5. CASE CloseBreaks
  BY <1>1, <1>2, <1>5, CloseInBudget
<1> QED
  BY <1>3, <1>4, <1>5 DEF Rotate

LEMMA CheckInBudget == ASSUME CapInv, BudgetInv, Check PROVE BudgetInv'
<1>1. pc = "check" /\ pc \in Stages
  BY DEF Check, Stages
<1>2. /\ InBudget(disk, store, pc) /\ store.used \in Nat /\ ~store.dead /\ files \in Nat
      /\ Good(disk, store, files, view) /\ Weight(disk, store) <= store.config.budget + Overhead
  BY <1>1, BudgetIs
<1>3. CASE Goes("room", disk, store)
  <2>1. InBudget(disk, store, "room")
    BY <1>1, <1>2 DEF InBudget
  <2> QED
    BY <1>3, <2>1, GoesInBudget
<1>4. CASE PruneAnd("room", Flushed(disk, store), store)
  <2>1. /\ Good(Flushed(disk, store), store, files, view)
        /\ Weight(Flushed(disk, store), store) = Size(Flushed(disk, store))
        /\ Size(Flushed(disk, store)) <= store.config.budget + Overhead
    BY <1>2, FlushKeeps, WriteWeighs
  <2> QED
    BY <1>2, <1>4, <2>1, PruneAndInBudget
<1>5. CASE BrokenOff(HalfFlushed(disk, store), store)
  <2>1. \A e \in HalfFlushed(disk, store) : Weight(e, store) <= store.config.budget + Overhead
    BY <1>2, WriteWeighs DEF HalfFlushed
  <2> QED
    BY <1>2, <1>5, <2>1, BrokenInBudget
<1> QED
  BY <1>3, <1>4, <1>5 DEF Check

LEMMA MakeRoomInBudget == ASSUME CapInv, BudgetInv, MakeRoom PROVE BudgetInv'
<1>1. pc = "room" /\ pc \in Stages
  BY DEF MakeRoom, Stages
<1>2. /\ InBudget(disk, store, pc) /\ store.used \in Nat /\ ~store.dead /\ files \in Nat
      /\ Good(disk, store, files, view) /\ Weight(disk, store) <= store.config.budget + Overhead
      /\ store.config.budget \in Nat
  BY <1>1, BudgetIs
<1>3. CASE ~Exceeds(store) /\ Goes("open", disk, store)
  <2>1. store.used + 1 <= store.config.budget
    BY <1>2, <1>3 DEF Exceeds
  <2>2. InBudget(disk, store, "open")
    BY <1>1, <1>2, <2>1 DEF InBudget
  <2> QED
    BY <1>3, <2>2, GoesInBudget
<1>4. CASE PruneAnd("open", Flushed(disk, store), Closed(store))
  <2> DEFINE d == Flushed(disk, store)
             s == Closed(store)
  <2>1. /\ Good(d, store, files, view) /\ Size(d) <= store.config.budget + Overhead
    BY <1>2, FlushKeeps, WriteWeighs
  <2>2. /\ Good(d, s, files, view) /\ s.file = None /\ s.config = store.config /\ ~s.dead
    BY <2>1, StoreClosed
  <2>3. s.used = store.used
    <3>1. s \in [config : {store.config}, file : {None}, bytes : {<<>>}, rows : {<<>>},
                 used : {store.used}, dead : {FALSE}]
      BY <1>2, StoreFields DEF Good
    <3> HIDE DEF s
    <3> QED
      BY <3>1
  <2>4. Weight(d, s) = Size(d)
    BY <2>2, StoreIs
  <2> HIDE DEF d, s
  <2>5. PruneAnd("open", d, s)
    BY <1>4 DEF d, s
  <2> QED
    BY <1>2, <2>1, <2>2, <2>3, <2>4, <2>5, PruneAndInBudget
<1>5. CASE CloseBreaks
  BY <1>1, <1>2, <1>5, CloseInBudget
<1> QED
  BY <1>3, <1>4, <1>5 DEF MakeRoom

LEMMA StartFileInBudget == ASSUME CapInv, BudgetInv, StartFile PROVE BudgetInv'
<1> DEFINE n == files + 1
           pcap(e) == [e EXCEPT ![n].bytes = <<>>]
           both(e) == [e EXCEPT ![n].bytes = <<>>, ![n].rows = <<>>]
<1>1. pc = "open" /\ pc \in Stages
  BY DEF StartFile, Stages
<1>2. /\ InBudget(disk, store, pc) /\ store.used \in Nat /\ ~store.dead
      /\ Good(disk, store, files, view) /\ Weight(disk, store) <= store.config.budget + Overhead
      /\ store.config.budget \in Nat /\ Weight(disk, store) \in Nat /\ Overhead \in Nat
      /\ disk \in [File -> Recording]
  BY <1>1, BudgetIs
<1>3. n \in File /\ Reserve \in Nat \ {0}
  BY <1>1, ConstantsAssumption DEF CapInv, LoopInv, File
<1>4. CASE Open(store) /\ Goes("write", disk, store)
  <2>1. InBudget(disk, store, "write")
    BY <1>1, <1>2, <1>4 DEF InBudget, Open
  <2> QED
    BY <1>4, <2>1, GoesInBudget
<1>5. CASE BrokenOff(HalfPruned(disk, store), store)
  <2>1. ASSUME NEW e \in HalfPruned(disk, store)
        PROVE  Weight(e, store) <= store.config.budget + Overhead
    <3>1. Prunes(disk, e, store.file)
      BY <1>2, PruningsPrune
    <3>2. Good(e, store, files, view) /\ Weight(e, store) <= Weight(disk, store)
      BY <1>2, <3>1, PruneWeighs
    <3>3. Weight(e, store) \in Nat
      BY <3>2, StoreIs
    <3> QED
      BY <1>2, <3>2, <3>3
  <2> QED
    BY <1>2, <1>5, <2>1, BrokenInBudget
<1>6. ASSUME NEW e \in Prunings(disk, store), ~Open(store)
      PROVE  /\ e \in [File -> Recording] /\ Size(e) \in Nat
             /\ Size(e) <= store.config.budget + Overhead
             /\ \A g \in {pcap(e), both(e)} : Size(g) \in Nat /\ Size(g) <= Size(e) + Overhead
             /\ \A g \in {both(e)} : g[n].bytes = <<>>
  <2>1. Prunes(disk, e, store.file)
    BY <1>2, PruningsPrune
  <2>2. Good(e, store, files, view) /\ Weight(e, store) <= Weight(disk, store)
    BY <1>2, <2>1, PruneWeighs
  <2>3. /\ e \in [File -> Recording] /\ Size(e) \in Nat /\ Weight(e, store) \in Nat
        /\ Size(e) <= Weight(e, store)
    BY <2>2, StoreIs
  <2>4. Size(e) <= store.config.budget + Overhead
    BY <1>2, <2>2, <2>3
  <2>5. e[n] \in Recording /\ <<>> \in Seq(Ports) /\ <<>> \in Seq(Row)
    BY <1>3, <2>3
  <2>6. /\ pcap(e) \in [File -> Recording] /\ pcap(e)[n].bytes = <<>>
        /\ \A m \in File : (m # n => pcap(e)[m] = e[m]) /\ pcap(e)[m].rows = e[m].rows
    BY <1>3, <2>3, <2>5 DEF Recording
  <2>7. /\ both(e) \in [File -> Recording] /\ both(e)[n].bytes = <<>>
        /\ \A m \in File : m # n => both(e)[m] = e[m]
    BY <1>3, <2>3, <2>5 DEF Recording
  <2>8. ASSUME NEW g \in {pcap(e), both(e)} PROVE Size(g) \in Nat /\ Size(g) <= Size(e) + Overhead
    <3>1. /\ g \in [File -> Recording] /\ g[n].bytes = <<>>
          /\ \A m \in File : m # n => g[m] = e[m]
      BY <2>6, <2>7
    <3> HIDE DEF pcap, both
    <3>2. DOMAIN g[n].bytes = {}
      BY <3>1
    <3>3. ASSUME NEW c \in Packets(g) PROVE c \in Packets(e)
      <4>1. PICK m \in File : g[m].bytes # None /\ \E i \in DOMAIN g[m].bytes : c = <<m, i>>
        BY <3>3, InPackets
      <4>2. m # n
        BY <3>2, <4>1
      <4> QED
        BY <3>1, <4>1, <4>2, InPackets
    <3>4. Indexes(g) \subseteq Indexes(e) \cup {n}
      BY <3>1 DEF Indexes
    <3> QED
      BY <1>3, <2>3, <3>1, <3>3, <3>4, SizeOpened, SizeIs
  <2> QED
    BY <2>3, <2>4, <2>7, <2>8
<1>7. ASSUME NEW e \in Prunings(disk, store), ~Open(store), Skip(e) PROVE BudgetInv'
  BY <1>2, <1>6, <1>7, SkipInBudget
<1>8. ASSUME NEW e \in Prunings(disk, store), ~Open(store), Fits(e, store), pc' = "write",
             disk' = both(e), store' = Opened(store, n, Size(e))
      PROVE  BudgetInv'
  <2> DEFINE t == Opened(store, n, Size(e))
             g == both(e)
  <2>1. t \in [config : {store.config}, file : {n}, bytes : {store.bytes},
               rows : {store.rows}, used : {Size(e)}, dead : {store.dead}]
    BY <1>2, OpenedFields DEF Good
  <2>2. store.bytes = <<>>
    BY <1>2, <1>8 DEF Good, StoreOK, Open
  <2>3. /\ Size(g) \in Nat /\ Size(g) <= Size(e) + Overhead /\ g[n].bytes = <<>>
        /\ Size(e) \in Nat
    BY <1>6, <1>8
  <2> HIDE DEF t, g, n
  <2>4. /\ t.config = store.config /\ t.file = n /\ t.bytes = <<>> /\ t.used = Size(e)
    BY <2>1, <2>2
  <2>5. Unwritten(g, t) = 0
    <3>1. Len(t.bytes) = Len(g[t.file].bytes) /\ Len(t.bytes) = 0
      BY <2>3, <2>4
    <3> QED
      BY <3>1 DEF Unwritten
  <2>6. Weight(g, t) = Size(g)
    BY <2>3, <2>5 DEF Weight
  <2>7. Size(e) + 1 <= store.config.budget
    BY <1>2, <1>3, <1>8, <2>3 DEF Fits
  <2>8. Size(g) <= store.config.budget + Overhead
    BY <1>2, <2>3, <2>7
  <2>9. InBudget(g, t, "write")
    BY <2>3, <2>4, <2>6, <2>7, <2>8 DEF InBudget
  <2>10. disk' = g /\ store' = t /\ pc' = "write"
    BY <1>8 DEF g, t
  <2> QED
    BY <2>9, <2>10 DEF BudgetInv, InBudget, Weight, Unwritten
<1>9. ASSUME NEW e \in Prunings(disk, store), ~Open(store), Fits(e, store),
             \/ pc' = "broken" /\ store' = OpenedDead(store, n)
             \/ Dies,
             disk' \in {pcap(e), both(e)}
      PROVE  BudgetInv'
  <2>1. CASE Dies
    BY <2>1 DEF Dies, BudgetInv, Stages
  <2>2. CASE pc' = "broken" /\ store' = OpenedDead(store, n)
    <3> DEFINE t == OpenedDead(store, n)
    <3>1. t \in [config : {store.config}, file : {n}, bytes : {store.bytes},
                 rows : {store.rows}, used : {store.used}, dead : {TRUE}]
      BY <1>2, OpenedFields DEF Good
    <3>2. PICK g \in {pcap(e), both(e)} : disk' = g
      BY <1>9
    <3>3. Size(g) \in Nat /\ Size(g) <= Size(e) + Overhead /\ Size(e) \in Nat
      BY <1>6, <1>9
    <3> HIDE DEF t, n, pcap, both
    <3>4. /\ t.config = store.config /\ t.dead /\ t.used = store.used
      BY <3>1
    <3>5. Unwritten(g, t) = 0
      BY <3>4 DEF Unwritten
    <3>6. Weight(g, t) = Size(g)
      BY <3>3, <3>5 DEF Weight
    <3>7. Size(e) <= store.config.budget
      BY <1>2, <1>3, <1>9, <3>3 DEF Fits
    <3>8. Size(g) <= store.config.budget + Overhead
      BY <1>2, <3>3, <3>7
    <3>9. InBudget(g, t, "broken")
      BY <1>2, <3>4, <3>6, <3>8 DEF InBudget
    <3>10. disk' = g /\ store' = t /\ pc' = "broken"
      BY <2>2, <3>2 DEF t
    <3> QED
      BY <3>9, <3>10 DEF BudgetInv, InBudget, Weight, Unwritten
  <2> QED
    BY <1>9, <2>1, <2>2
<1>10. ASSUME ~Open(store), NEW e \in Prunings(disk, store),
         IF ~Fits(e, store) THEN Skip(e)
         ELSE \/ /\ pc' = "write" /\ disk' = both(e) /\ files' = n
                 /\ store' = [[store EXCEPT !.file = n] EXCEPT !.used = Size(e)]
                 /\ UNCHANGED <<wanted, config, proc, packet, view, faults, packets, changes>>
              \/ /\ \/ FaultHappens("error") /\ pc' = "broken"
                         /\ store' = [[store EXCEPT !.file = n] EXCEPT !.dead = TRUE]
                         /\ UNCHANGED <<proc, config, packet>>
                    \/ FaultHappens("kill") /\ Dies
                 /\ disk' \in {pcap(e), both(e)} /\ files' = n
                 /\ UNCHANGED <<wanted, view, packets, changes>>
       PROVE  BudgetInv'
  <2>1. /\ Opened(store, n, Size(e)) = [[store EXCEPT !.file = n] EXCEPT !.used = Size(e)]
        /\ OpenedDead(store, n) = [[store EXCEPT !.file = n] EXCEPT !.dead = TRUE]
    BY DEF Opened, OpenedDead
  <2> HIDE DEF n, pcap, both
  <2> QED
    BY <1>7, <1>8, <1>9, <1>10, <2>1
<1> QED
  BY <1>1, <1>4, <1>5, <1>10 DEF StartFile

LEMMA WriteInBudget == ASSUME CapInv, BudgetInv, Write PROVE BudgetInv'
<1> DEFINE s == Appended(store, packet)
           half == HalfAppended(store, packet)
<1>1. pc = "write" /\ pc \in Stages
  BY DEF Write, Stages
<1>2. /\ InBudget(disk, store, pc) /\ store.used \in Nat /\ ~store.dead /\ files \in Nat
      /\ Good(disk, store, files, view) /\ Weight(disk, store) \in Nat
      /\ store.config.budget \in Nat /\ Overhead \in Nat
  BY <1>1, BudgetIs
<1>3. store.file # None /\ Len(store.bytes) < SegmentRows /\ packet \in store.config.ports
  BY <1>1 DEF CapInv, LoopInv
<1>4. Weight(disk, store) <= store.used + Overhead /\ store.used + 1 <= store.config.budget
  BY <1>1, <1>2, <1>3 DEF InBudget
<1>5. \/ Goes("loop", disk, s)
      \/ Goes("loop", Flushed(disk, s), s)
      \/ BrokenOff({disk, WithBytes(disk, half)}, half)
      \/ BrokenOff(HalfFlushed(disk, s), s)
  BY Zenon DEF Write, Appended, HalfAppended
<1>6. /\ Good(disk, s, files, view) /\ s.config = store.config /\ ~s.dead
      /\ Good(disk, half, files, view) /\ half.config = store.config /\ ~half.dead
  BY <1>2, <1>3, StoreAppends
<1>7. /\ Weight(disk, s) = Weight(disk, store) + 1 /\ s.used = store.used + 1
      /\ Weight(disk, half) = Weight(disk, store) + 1 /\ half.used = store.used
  BY <1>2, <1>3, AppendedWeighs
<1> HIDE DEF s, half
<1>8. /\ Weight(disk, s) <= s.used + Overhead /\ s.used \in Nat
      /\ Weight(disk, s) <= s.config.budget + Overhead
      /\ Weight(disk, half) <= half.config.budget + Overhead /\ half.used \in Nat
  BY <1>2, <1>4, <1>6, <1>7
<1>9. /\ Weight(Flushed(disk, s), s) = Weight(disk, s)
      /\ Weight(WithBytes(disk, s), s) = Weight(disk, s)
      /\ Weight(WithBytes(disk, half), half) = Weight(disk, half)
  BY <1>2, <1>6, WriteWeighs
<1>10. InBudget(disk, s, "loop") /\ InBudget(Flushed(disk, s), s, "loop")
  BY <1>8, <1>9 DEF InBudget
<1>11. CASE BrokenOff({disk, WithBytes(disk, half)}, half)
  BY <1>8, <1>9, <1>11, BrokenInBudget
<1>12. CASE BrokenOff(HalfFlushed(disk, s), s)
  BY <1>8, <1>9, <1>12, BrokenInBudget DEF HalfFlushed
<1> QED
  BY <1>5, <1>10, <1>11, <1>12, GoesInBudget

LEMMA TickInBudget == ASSUME CapInv, BudgetInv, Tick PROVE BudgetInv'
<1> DEFINE d == Flushed(disk, store)
<1>1. pc = "loop" /\ store # None /\ ~store.dead
  BY DEF Tick, Usable
<1>2. /\ InBudget(disk, store, pc) /\ store.used \in Nat /\ files \in Nat
      /\ Good(disk, store, files, view) /\ Weight(disk, store) <= store.config.budget + Overhead
      /\ store.config.budget \in Nat /\ Overhead \in Nat
  BY <1>1, BudgetIs
<1>3. /\ Good(d, store, files, view) /\ Weight(d, store) = Weight(disk, store)
      /\ Size(d) = Weight(disk, store) /\ d \in [File -> Recording] /\ Size(d) \in Nat
      /\ Size(d) <= store.config.budget + Overhead
  <2>1. Good(d, store, files, view)
    BY <1>1, <1>2, FlushKeeps
  <2> QED
    BY <1>1, <1>2, <2>1, WriteWeighs, StoreIs
<1>4. /\ \A e \in HalfFlushed(disk, store) : Weight(e, store) <= store.config.budget + Overhead
  BY <1>1, <1>2, WriteWeighs DEF HalfFlushed
<1> HIDE DEF d
<1>5. ASSUME NEW s \in {store, Closed(store)}
      PROVE  /\ Good(d, s, files, view) /\ s.config = store.config /\ ~s.dead
             /\ Weight(d, s) = Size(d) /\ InBudget(d, s, "loop")
  <2>1. CASE s = store
    <3>1. InBudget(d, store, "loop")
      BY <1>1, <1>2, <1>3 DEF InBudget
    <3> QED
      BY <1>1, <1>3, <2>1, <3>1
  <2>2. CASE s = Closed(store)
    <3>1. /\ Good(d, s, files, view) /\ s.config = store.config /\ ~s.dead /\ s.file = None
      BY <1>3, <2>2, StoreClosed
    <3>2. InBudget(d, s, "loop")
      BY <1>2, <1>3, <2>2, ClosedInBudget
    <3> QED
      BY <3>1, <3>2, StoreIs
  <2> QED
    BY <2>1, <2>2
<1>6. ASSUME NEW s \in {store, Closed(store)}, NEW e, e \in Prunings(d, s) \/ e \in HalfPruned(d, s)
      PROVE  /\ Good(e, s, files, view) /\ Weight(e, s) = Size(e)
             /\ Size(e) <= store.config.budget + Overhead
  <2>1. Prunes(d, e, s.file)
    BY <1>3, <1>6, PruningsPrune
  <2>2. Good(e, s, files, view) /\ Weight(e, s) = Size(e) /\ Size(e) <= Size(d) /\ Size(e) \in Nat
    BY <1>5, <2>1, PruneWritten
  <2> QED
    BY <1>2, <1>3, <2>2
<1>7. ASSUME NEW s \in {store, Closed(store)}, Goes("loop", d, s) PROVE BudgetInv'
  BY <1>5, <1>7, GoesInBudget
<1>8. ASSUME NEW s \in {store, Closed(store)}, NEW e \in Prunings(d, s),
             Goes("loop", e, Counted(s, Size(e)))
      PROVE  BudgetInv'
  <2>1. InBudget(e, Counted(s, Size(e)), "loop")
    BY <1>5, <1>6, CountedInBudget
  <2> QED
    BY <1>8, <2>1, GoesInBudget
<1>9. CASE BrokenOff(HalfFlushed(disk, store), store)
  BY <1>2, <1>4, <1>9, BrokenInBudget
<1>10. CASE CloseBreaks
  BY <1>1, <1>10, CloseInBudget
<1>11. CASE BrokenOff(HalfPruned(d, store), store)
  <2>1. \A e \in HalfPruned(d, store) : Weight(e, store) <= store.config.budget + Overhead
    BY <1>6
  <2> QED
    BY <1>2, <1>11, <2>1, BrokenInBudget
<1> QED
  BY <1>7, <1>8, <1>9, <1>10, <1>11 DEF Tick, Counted, d

LEMMA RecoverInBudget == ASSUME CapInv, BudgetInv, Recover PROVE BudgetInv'
<1>1. pc' = "loop" /\ pc = "broken"
  BY DEF Recover
<1>2. CASE store = None
  BY <1>1, <1>2 DEF Recover, BudgetInv, Stages
<1>3. CASE store # None
  <2>1. /\ store.used \in Nat /\ Good(disk, store, files, view) /\ files \in Nat
        /\ disk \in [File -> Recording] /\ Size(disk) <= store.config.budget + Overhead
        /\ Weight(disk, store) <= store.config.budget + Overhead
    BY <1>3, BudgetIs
  <2>2. ASSUME NEW d \in [File -> Recording], Size(d) <= store.config.budget + Overhead,
               disk' = d, store' = Closed(store)
        PROVE  BudgetInv'
    <3>1. InBudget(d, Closed(store), "loop")
      BY <2>1, <2>2, ClosedInBudget
    <3> QED
      BY <1>1, <2>2, <3>1 DEF BudgetInv, InBudget, Weight, Unwritten
  <2>3. CASE disk' = disk /\ store' = [store EXCEPT !.dead = TRUE]
    <3>1. InBudget(disk, [store EXCEPT !.dead = TRUE], "loop")
      BY <2>1, DeadInBudget
    <3> QED
      BY <1>1, <2>3, <3>1 DEF BudgetInv, InBudget, Weight, Unwritten
  <2>4. ASSUME ~store.dead, NEW d, d = Flushed(disk, store) \/ d \in HalfFlushed(disk, store)
        PROVE  d \in [File -> Recording] /\ Size(d) <= store.config.budget + Overhead
    <3>1. Good(d, store, files, view)
      BY <2>1, <2>4, FlushKeeps
    <3>2. Size(d) = Size(disk) \/ Size(d) = Weight(disk, store)
      BY <2>1, <2>4, WriteWeighs DEF HalfFlushed
    <3> QED
      BY <2>1, <3>1, <3>2, StoreIs
  <2>5. \/ store' = Closed(store) /\ disk' = disk
        \/ /\ ~store.dead
           /\ \/ store' = Closed(store) /\ disk' = Flushed(disk, store)
              \/ store' = Closed(store) /\ disk' \in HalfFlushed(disk, store)
              \/ store' = [store EXCEPT !.dead = TRUE] /\ disk' = disk
    BY <1>3 DEF Recover
  <2> QED
    BY <2>1, <2>2, <2>3, <2>4, <2>5
<1> QED
  BY <1>2, <1>3

LEMMA BudgetStep == ASSUME CapInv, BudgetInv, [Next]_vars PROVE BudgetInv'
<1>1. CASE \/ Configure \/ Boot \/ UseOfDead \/ StartDump \/ DumpDies \/ Receive
           \/ (\E n \in File : ReadFirst(n)) \/ ReadNext \/ UNCHANGED vars
  BY <1>1, QuietInBudget
<1>2. CASE Stop
  BY <1>2 DEF Stop, Dies, BudgetInv, Stages
<1> QED
  BY <1>1, <1>2, RefreshInBudget, RotateInBudget, CheckInBudget, MakeRoomInBudget,
     StartFileInBudget, WriteInBudget, TickInBudget, RecoverInBudget DEF Next

(* The recordings stay within the budget of the settings that the recorder *)
(* works with, but for the two files of a recording that was opened after  *)
(* the last measurement, for any settings, sizes and numbers of packets,   *)
(* and through failed writes and closings, kills and prunings.             *)
THEOREM BudgetKept == Spec => []WithinBudget
<1>1. Init => BudgetInv
  BY DEF Init, BudgetInv, Stages
<1>2. ASSUME CapInv, BudgetInv PROVE WithinBudget
  <2> SUFFICES ASSUME store # None PROVE Size(disk) <= store.config.budget + Overhead
    BY DEF WithinBudget
  <2> QED
    BY <1>2, BudgetIs
<1> QED
  BY <1>1, <1>2, CapInit, CapStep, BudgetStep, PTL DEF Spec
=============================================================================
