------------------------ MODULE WebClientMessages_proofs ------------------------
(***************************************************************************)
(* Proofs about WebClient: the frames of a message reach the object they   *)
(* are for one after the other, although deliveries, the answers to gets   *)
(* and returned messages share the channel.                                *)
(***************************************************************************)
EXTENDS WebClientLife_proofs

-----------------------------------------------------------------------------
(* Messages on their way. *)

PartKinds == {"header", "body"}
SameMessage(f, g) == f.ch = g.ch /\ f.n = g.n /\ f.size = g.size /\ f.tag = g.tag

\* The frame at i begins a message, and the rest of it follows.
Block(tc, i) ==
  /\ i + 1 + tc[i].size \in DOMAIN tc
  /\ \A k \in (i + 1)..(i + 1 + tc[i].size) :
       tc[k].m = (IF k = i + 1 THEN "header" ELSE "body") /\ SameMessage(tc[k], tc[i])

\* After its first r frames, tc has the frames of a message only in whole messages.
Chunks(tc, r) ==
  \A i \in DOMAIN tc : i > r =>
    /\ tc[i].m \in StartKinds => Block(tc, i)
    /\ tc[i].m \in PartKinds =>
         \E j \in DOMAIN tc : r < j /\ j < i /\ tc[j].m \in StartKinds /\ i <= j + 1 + tc[j].size

\* The first r frames are the rest of a message the client has begun to read.
Rest(tc, r) ==
  /\ r \in 0..Len(tc)
  /\ \A i \in 1..r : tc[i].m \in PartKinds /\ (i > 1 => tc[i].m = "body") /\ SameMessage(tc[i], tc[1])

Numbered(tc) == \A i \in DOMAIN tc : tc[i].m \in MessageKinds => tc[i].n # 0

\* The numbers in a frame of a message.
LEMMA PartSizes ==
  ASSUME NEW f \in ClientFrames, f.m \in MessageKinds
  PROVE  f.size \in Nat /\ f.n \in Nat /\ f.tag \in Nat /\ f.ch \in Nat
BY DEF ClientFrames, ReplyFrames, AckFrames, PartFrames, CancelFrames, ConnectionFrames, ReplyKinds, MessageKinds, StartKinds

\* The place k, counted from i + d, is the place h, counted from i.
IsMoved(i, d, s, k, h) == /\ h \in Nat /\ h >= i + 1 /\ h <= i + 1 + s /\ h \in (i + 1)..(i + 1 + s)
                          /\ h + d = k /\ (h = i + 1 <=> k = (i + d) + 1)

\* Where a message that is moved came from.
LEMMA PlacesMoved ==
  ASSUME NEW i \in Nat, NEW d \in Nat, NEW s \in Nat, NEW k \in ((i + d) + 1)..((i + d) + 1 + s)
  PROVE  \E h : IsMoved(i, d, s, k, h)
<1>1. IsMoved(i, d, s, k, k - d)
  BY DEF IsMoved
<1> QED
  BY <1>1

\* After r, at j begins a message of n parts, and i is a place of it.
IsPart(r, j, i, n) == r < j /\ j < i /\ i <= j + 1 + n

\* So it is d places further.
LEMMA PartMoved ==
  ASSUME NEW r \in Nat, NEW j \in Nat, NEW i \in Nat, NEW n \in Nat, IsPart(0, j, i, n), NEW d \in Nat, r <= d
  PROVE  IsPart(r, j + d, i + d, n)
BY DEF IsPart

\* Places after i, counted from one place further.
LEMMA NextPlaces ==
  ASSUME NEW i \in Nat, NEW s \in Nat, NEW k \in (i + 1)..(i + 1 + s)
  PROVE  k + 1 \in (i + 1 + 1)..(i + 1 + 1 + s) /\ k \in Nat /\ (k + 1 = i + 1 + 1 <=> k = i + 1)
OBVIOUS

\* One frame less.
LEMMA ChunksRead ==
  ASSUME NEW tc \in Seq(ClientFrames), tc # << >>, NEW r \in Nat, NEW q \in Nat, Chunks(tc, r),
         \/ r = q + 1
         \/ r = 0 /\ tc[1].m \in StartKinds /\ q = 1 + tc[1].size
         \/ r = 0 /\ tc[1].m \notin StartKinds /\ q = 0
  PROVE  Chunks(Tail(tc), q)
<1> DEFINE td == Tail(tc)
<1>1. /\ \A i \in DOMAIN td : i \in Nat /\ i > 0 /\ i + 1 \in DOMAIN tc /\ td[i] = tc[i + 1]
      /\ \A i \in DOMAIN tc : i \in Nat /\ (i = 1 \/ (i - 1 \in DOMAIN td /\ td[i - 1] = tc[i]))
  BY TailSeq
<1> HIDE DEF td
<1> SUFFICES ASSUME NEW i \in DOMAIN td, i > q
             PROVE  /\ td[i].m \in StartKinds => Block(td, i)
                    /\ td[i].m \in PartKinds =>
                         \E j \in DOMAIN td : q < j /\ j < i /\ td[j].m \in StartKinds /\ i <= j + 1 + td[j].size
  BY DEF Chunks, td
<1>2. i \in Nat /\ i + 1 \in DOMAIN tc /\ i + 1 > r /\ td[i] = tc[i + 1]
  <2>1. i \in Nat /\ r <= q + 1
    BY <1>1
  <2> QED
    BY <1>1, <2>1
<1>3. ASSUME td[i].m \in StartKinds PROVE Block(td, i)
  <2>1. Block(tc, i + 1)
    BY <1>2, <1>3 DEF Chunks
  <2>2. tc[i + 1].size \in Nat
    BY <1>2, <1>3, PartSizes DEF MessageKinds
  <2> DEFINE s == tc[i + 1].size
  <2>3. i + 1 + s \in DOMAIN td
    <3>1. (i + 1) + 1 + s \in DOMAIN tc
      BY <2>1 DEF Block
    <3>2. i \in Nat /\ s \in Nat
      BY <1>2, <2>2
    <3> HIDE DEF s
    <3>3. i + 1 + 1 + s # 1 /\ (i + 1 + 1 + s) - 1 = i + 1 + s
      BY <3>2
    <3> QED
      BY <1>1, <3>1, <3>3
  <2>4. ASSUME NEW k \in (i + 1)..(i + 1 + s)
        PROVE  td[k].m = (IF k = i + 1 THEN "header" ELSE "body") /\ SameMessage(td[k], td[i])
    <3>1. k + 1 \in (i + 1 + 1)..(i + 1 + 1 + s) /\ k \in Nat /\ (k + 1 = i + 1 + 1 <=> k = i + 1)
      BY <1>2, <2>2, NextPlaces
    <3>2. k \in DOMAIN td
      <4>1. i + 1 + s \in 1..Len(td) /\ DOMAIN td = 1..Len(td)
        <5>1. td \in Seq(ClientFrames)
          BY TailSeq DEF td
        <5> QED
          BY <2>3, <5>1
      <4> QED
        BY <1>2, <2>2, <4>1
    <3>3. td[k] = tc[k + 1]
      BY <1>1, <3>2
    <3>4. tc[k + 1].m = (IF k + 1 = i + 1 + 1 THEN "header" ELSE "body") /\ SameMessage(tc[k + 1], tc[i + 1])
      BY <2>1, <3>1 DEF Block
    <3> QED
      BY <1>2, <3>1, <3>3, <3>4
  <2>5. td[i].size = s
    BY <1>2
  <2> QED
    BY <2>3, <2>4, <2>5 DEF Block
<1>4. ASSUME td[i].m \in PartKinds
      PROVE  \E j \in DOMAIN td : q < j /\ j < i /\ td[j].m \in StartKinds /\ i <= j + 1 + td[j].size
  <2>1. PICK j \in DOMAIN tc : /\ r < j /\ j < i + 1 /\ tc[j].m \in StartKinds
                               /\ i + 1 <= j + 1 + tc[j].size
    BY <1>2, <1>4 DEF Chunks
  <2>2. tc[j].size \in Nat /\ j \in Nat
    BY <1>1, <2>1, PartSizes DEF MessageKinds
  <2>3. j # 1
    <3> SUFFICES ASSUME j = 1 PROVE FALSE
      OBVIOUS
    <3>1. r = 0
      BY <2>1
    <3>2. CASE tc[1].m \in StartKinds /\ q = 1 + tc[1].size
      BY <1>2, <2>1, <2>2, <3>2
    <3>3. CASE tc[1].m \notin StartKinds
      BY <2>1, <3>3
    <3> QED
      BY <3>1, <3>2, <3>3
  <2>4. j - 1 \in DOMAIN td /\ td[j - 1] = tc[j]
    BY <1>1, <2>3
  <2>5. q < j - 1
    <3>1. CASE r = q + 1
      BY <2>1, <2>2, <3>1
    <3>3. CASE q = 0
      BY <2>1, <2>2, <2>3, <3>3
    <3>2. CASE r = 0 /\ tc[1].m \in StartKinds /\ q = 1 + tc[1].size
      <4>1. r = 0 /\ q = 1 + tc[1].size /\ tc[1].m \in StartKinds /\ 1 \in DOMAIN tc /\ tc[1] \in ClientFrames
        BY <3>2
      <4>2. Block(tc, 1)
        BY <4>1 DEF Chunks
      <4>3. tc[1].size \in Nat
        BY <4>1, PartSizes DEF MessageKinds
      <4>4. ASSUME j \in 2..(2 + tc[1].size) PROVE FALSE
        <5>1. tc[j].m \in PartKinds
          BY <4>2, <4>3, <4>4 DEF Block, PartKinds
        <5> QED
          BY <2>1, <5>1 DEF PartKinds, StartKinds
      <4>5. q \in Nat /\ q = 1 + tc[1].size /\ j \in Nat /\ j # 1 /\ j > 0 /\ tc[1].size \in Nat
        BY <2>1, <2>2, <2>3, <4>1, <4>3
      <4>6. j > q + 1
        BY <4>4, <4>5
      <4> QED
        BY <4>5, <4>6
    <3> QED
      BY <3>1, <3>2, <3>3
  <2> DEFINE n == tc[j].size
  <2>6. n \in Nat /\ td[j - 1].size = n /\ td[j - 1].m \in StartKinds /\ i \in Nat /\ j \in Nat
        /\ j < i + 1 /\ i + 1 <= j + 1 + n
    BY <1>2, <2>1, <2>2, <2>4
  <2> HIDE DEF n
  <2>7. j - 1 < i /\ i <= (j - 1) + 1 + n
    BY <2>6
  <2> QED
    BY <2>4, <2>5, <2>6, <2>7
<1> QED
  BY <1>3, <1>4

\* Reading the next frame of a message leaves one less of it.
LEMMA PartRead ==
  ASSUME NEW tc \in Seq(ClientFrames), tc # << >>, NEW r, Rest(tc, r), Chunks(tc, r), tc[1].m \in PartKinds
  PROVE  /\ r \in Nat /\ r > 0 /\ r - 1 \in Nat /\ Rest(Tail(tc), r - 1) /\ Chunks(Tail(tc), r - 1)
         /\ r > 1 => Tail(tc)[1].m = "body" /\ SameMessage(Tail(tc)[1], tc[1])
<1> DEFINE td == Tail(tc)
<1>1. /\ \A i \in DOMAIN td : i \in Nat /\ i > 0 /\ i + 1 \in DOMAIN tc /\ td[i] = tc[i + 1]
      /\ Len(td) = Len(tc) - 1 /\ Len(td) \in Nat /\ Len(tc) \in Nat /\ DOMAIN td = 1..Len(td) /\ 1 \in DOMAIN tc
  BY TailSeq
<1>2. r \in Nat /\ r <= Len(tc)
  BY <1>1 DEF Rest
<1>3. r > 0
  <2> SUFFICES ASSUME r = 0 PROVE FALSE
    BY <1>2
  <2>1. PICK j \in DOMAIN tc : r < j /\ j < 1
    BY <1>1, <1>2 DEF Chunks
  <2> QED
    BY <1>1, <1>2, <2>1
<1>4. r - 1 \in Nat /\ (r - 1) + 1 = r
  BY <1>2, <1>3
<1>5. Chunks(td, r - 1)
  BY <1>2, <1>4, ChunksRead
<1> HIDE DEF td
<1>6. ASSUME NEW i \in 1..(r - 1) PROVE td[i].m = "body" /\ SameMessage(td[i], tc[1])
  <2>1. i \in DOMAIN td /\ i + 1 \in 1..r /\ i + 1 > 1
    BY <1>1, <1>2
  <2> QED
    BY <1>1, <2>1 DEF Rest
<1>7. Rest(td, r - 1)
  <2>1. r - 1 \in 0..Len(td)
    BY <1>1, <1>2, <1>4
  <2>2. ASSUME NEW i \in 1..(r - 1)
        PROVE  td[i].m \in PartKinds /\ (i > 1 => td[i].m = "body") /\ SameMessage(td[i], td[1])
    <3>1. 1 \in 1..(r - 1)
      BY <1>4
    <3> QED
      BY <1>6, <3>1 DEF PartKinds, SameMessage
  <2> QED
    BY <2>1, <2>2 DEF Rest
<1>8. r > 1 => 1 \in 1..(r - 1)
  BY <1>2
<1> QED
  BY <1>2, <1>3, <1>4, <1>5, <1>6, <1>7, <1>8 DEF td

\* Reading the first leaves a header and a body for each part.
LEMMA StartRead ==
  ASSUME NEW tc \in Seq(ClientFrames), tc # << >>, NEW r, Rest(tc, r), Chunks(tc, r), tc[1].m \in StartKinds
  PROVE  LET q == 1 + tc[1].size
         IN  /\ r = 0 /\ q \in Nat /\ q > 0 /\ Rest(Tail(tc), q) /\ Chunks(Tail(tc), q)
             /\ Tail(tc)[1].m = "header" /\ SameMessage(Tail(tc)[1], tc[1])
<1> DEFINE td == Tail(tc)
           s == tc[1].size
           q == 1 + s
<1>1. /\ \A i \in DOMAIN td : i \in Nat /\ i > 0 /\ i + 1 \in DOMAIN tc /\ td[i] = tc[i + 1]
      /\ Len(td) = Len(tc) - 1 /\ Len(td) \in Nat /\ Len(tc) \in Nat /\ DOMAIN td = 1..Len(td) /\ 1 \in DOMAIN tc
      /\ DOMAIN tc = 1..Len(tc) /\ tc[1] \in ClientFrames
  BY TailSeq
<1>2. r \in Nat /\ r <= Len(tc)
  BY <1>1 DEF Rest
<1>3. r = 0
  <2> SUFFICES ASSUME r > 0 PROVE FALSE
    BY <1>2
  <2>1. 1 \in 1..r
    BY <1>2
  <2> QED
    BY <2>1 DEF Rest, PartKinds, StartKinds
<1>4. s \in Nat /\ q \in Nat /\ q > 0 /\ Block(tc, 1)
  <2>1. s \in Nat
    BY <1>1, PartSizes DEF MessageKinds
  <2>2. Block(tc, 1)
    BY <1>1, <1>3 DEF Chunks
  <2> QED
    BY <2>1, <2>2
<1>5. Chunks(td, q)
  BY <1>2, <1>3, <1>4, ChunksRead
<1>6. 2 + s \in 1..Len(tc) /\ \A k \in 2..(2 + s) :
         tc[k].m = (IF k = 2 THEN "header" ELSE "body") /\ SameMessage(tc[k], tc[1])
  BY <1>1, <1>4 DEF Block
<1> HIDE DEF td, s
<1>7. ASSUME NEW i \in 1..q PROVE td[i].m = (IF i = 1 THEN "header" ELSE "body") /\ SameMessage(td[i], tc[1])
  <2>1. i \in DOMAIN td /\ i + 1 \in 2..(2 + s)
    BY <1>1, <1>4, <1>6
  <2>2. i + 1 = 2 <=> i = 1
    BY <1>1, <2>1
  <2> QED
    BY <1>1, <1>6, <2>1, <2>2
<1>8. Rest(td, q)
  <2>1. q \in 0..Len(td) /\ 1 \in 1..q
    BY <1>1, <1>4, <1>6
  <2>2. ASSUME NEW i \in 1..q
        PROVE  td[i].m \in PartKinds /\ (i > 1 => td[i].m = "body") /\ SameMessage(td[i], td[1])
    BY <1>7, <2>1 DEF PartKinds, SameMessage
  <2> QED
    BY <2>1, <2>2 DEF Rest
<1>9. 1 \in 1..q
  BY <1>4
<1>10. td[1].m = "header" /\ SameMessage(td[1], tc[1])
  BY <1>7, <1>9
<1> QED
  BY <1>3, <1>4, <1>5, <1>8, <1>10 DEF td, s

\* Reading any other frame is done between two messages.
LEMMA OtherRead ==
  ASSUME NEW tc \in Seq(ClientFrames), tc # << >>, NEW r, Rest(tc, r), Chunks(tc, r), tc[1].m \notin MessageKinds
  PROVE  r = 0 /\ Rest(Tail(tc), 0) /\ Chunks(Tail(tc), 0)
<1> DEFINE td == Tail(tc)
<1>1. /\ \A i \in DOMAIN td : i \in Nat /\ i > 0 /\ i + 1 \in DOMAIN tc /\ td[i] = tc[i + 1]
      /\ \A i \in DOMAIN tc : i \in Nat /\ (i = 1 \/ (i - 1 \in DOMAIN td /\ td[i - 1] = tc[i]))
      /\ Len(td) \in Nat /\ Len(tc) \in Nat /\ 1 \in DOMAIN tc
  BY TailSeq
<1>2. r \in Nat
  BY <1>1 DEF Rest
<1>3. r = 0
  <2> SUFFICES ASSUME r > 0 PROVE FALSE
    BY <1>2
  <2>1. 1 \in 1..r
    BY <1>2
  <2> QED
    BY <2>1 DEF Rest, PartKinds, MessageKinds
<1>4. Rest(td, 0)
  BY <1>1 DEF Rest
<1>5. Chunks(td, 0)
  <2>1. tc[1].m \notin StartKinds
    BY DEF MessageKinds
  <2> QED
    BY <1>2, <1>3, <2>1, ChunksRead
<1> QED
  BY <1>3, <1>4, <1>5

\* The places of a message are places of the sequence its last one is in.
LEMMA PlacesWithin ==
  ASSUME NEW i \in Nat, NEW s \in Nat, NEW n \in Nat, i + 1 + s \in 1..n, NEW h \in (i + 1)..(i + 1 + s)
  PROVE  h \in 1..n
OBVIOUS

\* The frames of tc are in td, d places further.
Shifted(tc, td, d) == \A k \in DOMAIN tc : k + d \in DOMAIN td /\ td[k + d] = tc[k]

\* A message that is whole stays so where it is moved.
LEMMA BlockMoved ==
  ASSUME NEW tc \in Seq(ClientFrames), NEW td \in Seq(ClientFrames), NEW d \in Nat, NEW i \in DOMAIN tc,
         Shifted(tc, td, d), tc[i].m \in StartKinds, Block(tc, i)
  PROVE  Block(td, i + d)
<1> DEFINE s == tc[i].size
<1>1. s \in Nat /\ i \in Nat /\ i > 0 /\ td[i + d] = tc[i] /\ DOMAIN tc = 1..Len(tc) /\ Len(tc) \in Nat
  BY PartSizes DEF MessageKinds, Shifted
<1>2. i + 1 + s \in DOMAIN tc /\ \A k \in (i + 1)..(i + 1 + s) :
        tc[k].m = (IF k = i + 1 THEN "header" ELSE "body") /\ SameMessage(tc[k], tc[i])
  BY DEF Block
<1> HIDE DEF s
<1>3. (i + d) + 1 + s \in DOMAIN td
  <2>1. (i + 1 + s) + d \in DOMAIN td /\ (i + 1 + s) + d = (i + d) + 1 + s
    BY <1>1, <1>2 DEF Shifted
  <2> QED
    BY <2>1
<1>4. ASSUME NEW k \in ((i + d) + 1)..((i + d) + 1 + s)
      PROVE  td[k].m = (IF k = (i + d) + 1 THEN "header" ELSE "body") /\ SameMessage(td[k], td[i + d])
  <2>0. i \in Nat /\ d \in Nat /\ s \in Nat
    BY <1>1
  <2>01. \E h : IsMoved(i, d, s, k, h)
    BY <2>0, PlacesMoved
  <2>02. PICK h : IsMoved(i, d, s, k, h)
    BY <2>01
  <2>1. h \in (i + 1)..(i + 1 + s) /\ h + d = k /\ (h = i + 1 <=> k = (i + d) + 1)
    BY <2>02 DEF IsMoved
  <2>2. h \in DOMAIN tc
    <3>1. i + 1 + s \in 1..Len(tc) /\ Len(tc) \in Nat
      BY <1>1, <1>2
    <3>2. h \in 1..Len(tc)
      BY <2>0, <2>1, <3>1, PlacesWithin
    <3> QED
      BY <1>1, <3>2
  <2>3. td[k] = tc[h]
    BY <2>1, <2>2 DEF Shifted
  <2> QED
    BY <1>1, <1>2, <2>1, <2>3
<1> QED
  BY <1>1, <1>3, <1>4 DEF Block, s

\* Whole messages may follow.
LEMMA ChunksAppended ==
  ASSUME NEW tc \in Seq(ClientFrames), NEW fs \in Seq(ClientFrames), NEW r, Rest(tc, r), Chunks(tc, r), Chunks(fs, 0)
  PROVE  Rest(tc \o fs, r) /\ Chunks(tc \o fs, r)
<1> DEFINE td == tc \o fs
           d == Len(tc)
<1>1. /\ td \in Seq(ClientFrames) /\ Len(td) = d + Len(fs) /\ d \in Nat /\ Len(fs) \in Nat
      /\ \A i \in DOMAIN tc : i \in DOMAIN td /\ td[i] = tc[i]
      /\ \A i \in DOMAIN fs : i + d \in DOMAIN td /\ td[i + d] = fs[i]
      /\ \A i \in DOMAIN td : i \in DOMAIN tc \/ (i - d \in DOMAIN fs /\ i > d)
      /\ DOMAIN td = 1..Len(td) /\ DOMAIN tc = 1..d /\ DOMAIN fs = 1..Len(fs)
  BY ConcatSeq
<1> HIDE DEF td, d
<1>2. r \in Nat /\ r <= d
  BY <1>1 DEF Rest, d
<1>3. Rest(td, r)
  <2>1. r \in 0..Len(td)
    BY <1>1, <1>2
  <2>2. ASSUME NEW i \in 1..r PROVE td[i] = tc[i] /\ td[1] = tc[1]
    <3>1. i \in DOMAIN tc /\ 1 \in DOMAIN tc
      BY <1>1, <1>2
    <3> QED
      BY <1>1, <3>1
  <2> QED
    BY <2>1, <2>2 DEF Rest
<1>4. ASSUME NEW i \in DOMAIN td, i > r
      PROVE  /\ td[i].m \in StartKinds => Block(td, i)
             /\ td[i].m \in PartKinds =>
                  \E j \in DOMAIN td : r < j /\ j < i /\ td[j].m \in StartKinds /\ i <= j + 1 + td[j].size
  <2>1. CASE i \in DOMAIN tc
    <3>1. td[i] = tc[i] /\ i + 0 = i
      BY <1>1, <2>1
    <3>2. td[i].m \in StartKinds => Block(td, i)
      <4> SUFFICES ASSUME td[i].m \in StartKinds PROVE Block(td, i)
        OBVIOUS
      <4>1. Block(tc, i)
        BY <1>4, <2>1, <3>1 DEF Chunks
      <4>2. Shifted(tc, td, 0)
        BY <1>1 DEF Shifted
      <4>3. Block(td, i + 0)
        BY <1>1, <2>1, <3>1, <4>1, <4>2, BlockMoved
      <4> QED
        BY <3>1, <4>3
    <3>3. td[i].m \in PartKinds =>
            \E j \in DOMAIN tc : r < j /\ j < i /\ tc[j].m \in StartKinds /\ i <= j + 1 + tc[j].size
      BY <1>4, <2>1, <3>1 DEF Chunks
    <3> QED
      BY <1>1, <3>2, <3>3
  <2>2. CASE i \notin DOMAIN tc
    <3> DEFINE h == i - d
    <3>1. h \in DOMAIN fs /\ h > 0 /\ h \in Nat /\ h + d = i
      BY <1>1, <2>2
    <3> HIDE DEF h
    <3>2. td[i] = fs[h]
      BY <1>1, <3>1
    <3>3. td[i].m \in StartKinds => Block(td, i)
      <4> SUFFICES ASSUME td[i].m \in StartKinds PROVE Block(td, i)
        OBVIOUS
      <4>1. Block(fs, h)
        BY <3>1, <3>2 DEF Chunks
      <4>2. Shifted(fs, td, d)
        BY <1>1 DEF Shifted
      <4>3. Block(td, h + d)
        BY <1>1, <3>1, <3>2, <4>1, <4>2, BlockMoved
      <4> QED
        BY <3>1, <4>3
    <3>4. ASSUME td[i].m \in PartKinds
          PROVE  \E j \in DOMAIN td : r < j /\ j < i /\ td[j].m \in StartKinds /\ i <= j + 1 + td[j].size
      <4>1. PICK j \in DOMAIN fs : 0 < j /\ j < h /\ fs[j].m \in StartKinds /\ h <= j + 1 + fs[j].size
        BY <3>1, <3>2, <3>4 DEF Chunks
      <4>2. fs[j].size \in Nat /\ j \in Nat
        BY <1>1, <4>1, PartSizes DEF MessageKinds
      <4>3. j + d \in DOMAIN td /\ td[j + d] = fs[j]
        BY <1>1
      <4> DEFINE n == fs[j].size
      <4>4. d \in Nat /\ r \in Nat /\ r <= d /\ h \in Nat /\ h + d = i /\ j \in Nat /\ n \in Nat
            /\ 0 < j /\ j < h /\ h <= j + 1 + n
        BY <1>1, <1>2, <3>1, <4>1, <4>2
      <4> HIDE DEF n
      <4>5. IsPart(0, j, h, n)
        BY <4>4 DEF IsPart
      <4>6. IsPart(r, j + d, h + d, n)
        BY <4>4, <4>5, PartMoved
      <4>7. r < j + d /\ j + d < i /\ i <= (j + d) + 1 + n
        BY <4>4, <4>6 DEF IsPart
      <4> QED
        BY <4>1, <4>3, <4>7 DEF n
    <3> QED
      BY <3>3, <3>4
  <2> QED
    BY <2>1, <2>2
<1> QED
  BY <1>3, <1>4 DEF Chunks, td

\* What the broker says is made of whole messages.
LEMMA OtherChunks ==
  ASSUME NEW fs, \A i \in DOMAIN fs : fs[i].m \notin MessageKinds
  PROVE  Chunks(fs, 0) /\ Numbered(fs)
BY DEF Chunks, Numbered, MessageKinds, PartKinds

\* What the broker sends of a message is the whole of it.
LEMMA MessageChunks ==
  ASSUME lastMsg \in Nat, NEW m \in StartKinds, NEW f, f.ch \in Ids, NEW tag \in Nat, NEW body \in Nat
  PROVE  Chunks(MessageFrames(m, f, tag, body), 0) /\ Numbered(MessageFrames(m, f, tag, body))
<1> DEFINE fs == MessageFrames(m, f, tag, body)
<1>0. MessageParts(fs, m, f, tag, body)
  BY MessageFramesTyped
<1> HIDE DEF fs
<1>1. /\ fs \in Seq(ClientFrames) /\ Len(fs) = body + 2
      /\ \A i \in DOMAIN fs : /\ fs[i].m = IF i = 1 THEN m ELSE IF i = 2 THEN "header" ELSE "body"
                              /\ fs[i].ch = f.ch /\ fs[i].n = lastMsg + 1
                              /\ fs[i].size = body /\ fs[i].tag = tag
  BY <1>0 DEF MessageParts
<1>2. DOMAIN fs = 1..(body + 2)
  BY <1>1
<1>3. Numbered(fs)
  BY <1>1 DEF Numbered
<1>4. 1 \in DOMAIN fs /\ fs[1].m = m /\ fs[1].size = body
  BY <1>1, <1>2
<1>5. Block(fs, 1)
  <2>1. 1 + 1 + fs[1].size \in DOMAIN fs
    BY <1>2, <1>4
  <2>2. ASSUME NEW k \in (1 + 1)..(1 + 1 + fs[1].size)
        PROVE  fs[k].m = (IF k = 1 + 1 THEN "header" ELSE "body") /\ SameMessage(fs[k], fs[1])
    <3>1. k \in DOMAIN fs /\ k # 1
      BY <1>2, <1>4
    <3> QED
      BY <1>1, <1>4, <3>1 DEF SameMessage
  <2> QED
    BY <2>1, <2>2 DEF Block
<1>6. ASSUME NEW i \in DOMAIN fs, i > 0
      PROVE  /\ fs[i].m \in StartKinds => Block(fs, i)
             /\ fs[i].m \in PartKinds =>
                  \E j \in DOMAIN fs : 0 < j /\ j < i /\ fs[j].m \in StartKinds /\ i <= j + 1 + fs[j].size
  <2>1. CASE i = 1
    BY <1>4, <1>5, <2>1 DEF PartKinds, StartKinds
  <2>2. CASE i # 1
    <3>1. fs[i].m \in PartKinds /\ fs[i].m \notin StartKinds
      BY <1>1, <2>2 DEF PartKinds, StartKinds
    <3>2. 1 < i /\ i <= 1 + 1 + body
      BY <1>2, <2>2
    <3> QED
      BY <1>4, <3>1, <3>2
  <2> QED
    BY <2>1, <2>2
<1> QED
  BY <1>3, <1>6 DEF Chunks, fs

\* Numbered frames may follow numbered ones.
LEMMA NumberedAppended ==
  ASSUME NEW tc \in Seq(ClientFrames), NEW fs \in Seq(ClientFrames), Numbered(tc), Numbered(fs)
  PROVE  Numbered(tc \o fs)
<1>1. \A i \in DOMAIN (tc \o fs) : \/ i \in DOMAIN tc /\ (tc \o fs)[i] = tc[i]
                                   \/ \E j \in DOMAIN fs : (tc \o fs)[i] = fs[j]
  BY ConcatElements
<1> QED
  BY <1>1 DEF Numbered

\* Reading leaves numbered frames.
LEMMA NumberedRead ==
  ASSUME NEW tc \in Seq(ClientFrames), tc # << >>, Numbered(tc)
  PROVE  Numbered(Tail(tc))
<1>1. \A i \in DOMAIN Tail(tc) : \E j \in DOMAIN tc : Tail(tc)[i] = tc[j]
  BY TailElements
<1> QED
  BY <1>1 DEF Numbered

-----------------------------------------------------------------------------
(* The invariant. *)

Idle(obj) == \A s \in Slots : obj[s].n = 0

\* The object has read the message that f, the first of the r frames left of it, is part of.
Growing(obj, f, r) ==
  LET msg == obj[Slot(obj)] IN
  /\ msg.n = f.n /\ msg.whole /\ msg.tag = f.tag
  /\ \A s \in Slots \ {Slot(obj)} : obj[s].n = 0
  /\ f.m = "header" => r = f.size + 1
  /\ f.m = "body" => msg.size = f.size /\ msg.pos + r = f.size

\* The listed objects have no message begun, but for the one whose frames come next.
SlotsAre(os, chs, tc, r, clean) ==
  \A id \in Ids : chs[id] # 0 =>
     \/ Idle(os[chs[id]]) /\ ~(clean /\ r > 0 /\ tc[1].ch = id)
     \/ r > 0 /\ tc[1].ch = id /\ Growing(os[chs[id]], tc[1], r)

Assembled(os, chs, tc, clean) ==
  \E r \in Nat : Rest(tc, r) /\ Chunks(tc, r) /\ SlotsAre(os, chs, tc, r, clean)

\* The gaps in which a part of a message comes to a channel that is not listed.
Late == Crossed \union {"late delivery"}

\* A part of a message in tc is parsed while its channel is listed.
Closing == {"close", "closeOk"}
Told(chs, tc) ==
  \A i \in DOMAIN tc : tc[i].m \in MessageKinds =>
    /\ chs[tc[i].ch] # 0
    /\ \A j \in DOMAIN tc : j < i /\ tc[j].m \in Closing => tc[j].ch # tc[i].ch

MessageInv ==
  /\ LifeInv /\ Numbered(toClient)
  /\ client.socket = "open" => Assembled(objs, channels, toClient, Clean(Late))
  /\ Clean(Late) => Told(channels, toClient)
  /\ "mixed" \notin faults
  /\ Clean(Late) => "no message" \notin faults

\* No message is under way.
LEMMA MessageInit == Init => MessageInv
<1> SUFFICES ASSUME Init PROVE MessageInv
  OBVIOUS
<1>1. toClient = << >> /\ faults = {} /\ channels = [i \in Ids |-> 0]
  BY DEF Init
<1>2. Rest(<< >>, 0) /\ Chunks(<< >>, 0)
  BY DEF Rest, Chunks
<1>3. SlotsAre(objs, channels, toClient, 0, Clean(Late))
  BY <1>1 DEF SlotsAre
<1>4. Assembled(objs, channels, toClient, Clean(Late))
  BY <1>1, <1>2, <1>3 DEF Assembled
<1>5. Told(channels, toClient)
  BY <1>1 DEF Told
<1> QED
  BY <1>1, <1>4, <1>5, LifeInit DEF MessageInv, Numbered

\* An object goes on with the messages it had.
SameSlots(old, new) == \A s \in Slots : new[s] = old[s]

\* What is known of the messages of an object holds with the same slots.
LEMMA SlotSame ==
  ASSUME NEW old, NEW new, SameSlots(old, new)
  PROVE  /\ Slot(new) = Slot(old) /\ (Idle(old) => Idle(new))
         /\ \A f, r : Growing(old, f, r) => Growing(new, f, r)
<1>1. new.delivery = old.delivery /\ new.getMessage = old.getMessage /\ Slot(old) \in Slots
  BY SlotType DEF SameSlots, Slots
<1>2. Slot(new) = Slot(old)
  BY <1>1 DEF Slot
<1> QED
  BY <1>1, <1>2 DEF SameSlots, Idle, Growing

\* SlotsAre holds for objects that keep their slots, are idle, or are no longer listed.
LEMMA SlotsStay ==
  ASSUME NEW os, NEW chs, NEW tc, NEW r, NEW clean, SlotsAre(os, chs, tc, r, clean),
         NEW ps, NEW dhs, NEW td, NEW fresh, fresh => clean, r > 0 => td[1] = tc[1],
         \A id \in Ids : dhs[id] # 0 =>
           \/ dhs[id] = chs[id] /\ SameSlots(os[chs[id]], ps[chs[id]])
           \/ Idle(ps[dhs[id]]) /\ ~(clean /\ r > 0 /\ tc[1].ch = id)
  PROVE  SlotsAre(ps, dhs, td, r, fresh)
<1> SUFFICES ASSUME NEW id \in Ids, dhs[id] # 0
             PROVE  \/ Idle(ps[dhs[id]]) /\ ~(fresh /\ r > 0 /\ td[1].ch = id)
                    \/ r > 0 /\ td[1].ch = id /\ Growing(ps[dhs[id]], td[1], r)
  BY DEF SlotsAre
<1>1. CASE dhs[id] = chs[id] /\ SameSlots(os[chs[id]], ps[chs[id]])
  BY <1>1, SlotSame DEF SlotsAre
<1>2. CASE Idle(ps[dhs[id]]) /\ ~(clean /\ r > 0 /\ tc[1].ch = id)
  BY <1>2
<1> QED
  BY <1>1, <1>2

-----------------------------------------------------------------------------
(* Steps that read no part of a message. *)

KeepsMessages == \A o \in DOMAIN objs : SameSlots(objs[o], objs'[o])

\* In particular for channels that stay or go.
LEMMA SlotsUnread ==
  ASSUME TypeInv, KeepsMessages, NEW r, NEW td, NEW fresh, fresh => Clean(Late), r > 0 => td[1] = toClient[1],
         SlotsAre(objs, channels, toClient, r, Clean(Late)),
         \A id \in Ids : channels'[id] \in {0, channels[id]}
  PROVE  SlotsAre(objs', channels', td, r, fresh)
<1>1. \A id \in Ids : channels'[id] # 0 =>
         channels'[id] = channels[id] /\ SameSlots(objs[channels[id]], objs'[channels[id]])
  BY ListedObject DEF KeepsMessages
<1> QED
  BY <1>1, SlotsStay

\* The client reads a frame; only one that closes a channel takes it off the list.
LEMMA ToldRead ==
  ASSUME TypeInv, toClient # << >>, toClient' = Tail(toClient), odd \subseteq odd',
         Clean(Late) => Told(channels, toClient),
         \A id \in Ids : channels'[id] # channels[id] => Arrived.m \in Closing /\ id = Arrived.ch
  PROVE  Clean(Late)' => Told(channels', toClient')
<1> SUFFICES ASSUME Clean(Late)' PROVE Told(channels', toClient')
  OBVIOUS
<1>1. toClient \in Seq(ClientFrames) /\ Channelled(toClient) /\ 1 \in DOMAIN toClient /\ Arrived = toClient[1]
  BY ArrivedTypes DEF TypeInv, WebTypes
<1>2. Told(channels, toClient)
  BY CleanBefore
<1> DEFINE td == Tail(toClient)
<1>3. \A i \in DOMAIN td : i \in Nat /\ i > 0 /\ i + 1 \in DOMAIN toClient /\ td[i] = toClient[i + 1]
  BY <1>1, TailSeq
<1>4. \A i \in DOMAIN td : 1 < i + 1 /\ \A j \in DOMAIN td : j < i => j + 1 < i + 1
  BY <1>3
<1> HIDE DEF td
<1>5. ASSUME NEW i \in DOMAIN td, td[i].m \in MessageKinds
      PROVE  /\ channels'[td[i].ch] # 0
             /\ \A j \in DOMAIN td : j < i /\ td[j].m \in Closing => td[j].ch # td[i].ch
  <2> DEFINE h == i + 1
  <2>1. h \in DOMAIN toClient /\ td[i] = toClient[h] /\ 1 < h
    BY <1>3, <1>4
  <2> HIDE DEF h
  <2>2. toClient[h].ch \in Ids
    BY <1>1, <1>5, <2>1 DEF Channelled, ChannelKinds
  <2>3. channels[toClient[h].ch] # 0 /\ (toClient[1].m \in Closing => toClient[1].ch # toClient[h].ch)
    BY <1>1, <1>2, <1>5, <2>1 DEF Told
  <2>4. channels'[td[i].ch] # 0
    BY <1>1, <2>1, <2>2, <2>3
  <2>5. ASSUME NEW j \in DOMAIN td, j < i, td[j].m \in Closing PROVE td[j].ch # td[i].ch
    <3>1. j + 1 \in DOMAIN toClient /\ td[j] = toClient[j + 1] /\ j + 1 < h
      BY <1>3, <1>4, <2>5 DEF h
    <3> QED
      BY <1>2, <1>5, <2>1, <2>5, <3>1 DEF Told
  <2> QED
    BY <2>4, <2>5
<1> QED
  BY <1>5 DEF Told, td

\* Nothing is read.
LEMMA UnreadStep ==
  ASSUME MessageInv, LifeInv', UNCHANGED <<channels, toClient, faults>>, client'.socket = client.socket,
         odd \subseteq odd', KeepsMessages
  PROVE  MessageInv'
<1>1. Clean(Late)' => Clean(Late)
  BY DEF Clean
<1>2. ASSUME client.socket = "open" PROVE Assembled(objs', channels', toClient', Clean(Late)')
  <2>1. PICK r \in Nat : /\ Rest(toClient, r) /\ Chunks(toClient, r)
                         /\ SlotsAre(objs, channels, toClient, r, Clean(Late))
    BY <1>2 DEF MessageInv, Assembled
  <2> DEFINE fresh == Clean(Late)'
  <2>2. fresh => Clean(Late)
    BY <1>1
  <2> HIDE DEF fresh
  <2>3. SlotsAre(objs', channels', toClient, r, fresh)
    BY <2>1, <2>2, SlotsUnread DEF MessageInv, LifeInv
  <2> QED
    BY <2>1, <2>3 DEF Assembled, fresh
<1> QED
  BY <1>1, <1>2 DEF MessageInv

\* Zero is not above zero.
LEMMA NoneLeft ==
  ASSUME NEW r, r = 0
  PROVE  ~(r > 0)
OBVIOUS

\* A frame that is not part of a message is read.
LEMMA OtherStep ==
  ASSUME MessageInv, LifeInv', NEW m, Parse(m), m \notin MessageKinds, odd \subseteq odd', KeepsMessages,
         \A id \in Ids : channels'[id] = channels[id] \/ (channels'[id] = 0 /\ m \in Closing /\ id = Arrived.ch),
         faults' \subseteq faults \union {"no channel"}
  PROVE  MessageInv'
<1>1. Clean(Late)' => Clean(Late)
  BY DEF Clean
<1>1a. TypeInv
  BY DEF MessageInv, LifeInv
<1>1b. toClient \in Seq(ClientFrames)
  BY <1>1a DEF TypeInv, WebTypes
<1>2. toClient \in Seq(ClientFrames) /\ toClient # << >> /\ toClient[1].m = m /\ toClient' = Tail(toClient)
      /\ client.socket = "open" /\ TypeInv
  <2>1. toClient # << >> /\ Arrived.m = m /\ toClient' = Tail(toClient) /\ client.socket = "open"
    BY DEF Parse, MayParse, Arrived
  <2>2. toClient[1].m = m
    BY <1>1a, <2>1, ArrivedTypes
  <2> QED
    BY <1>1a, <1>1b, <2>1, <2>2
<1>3. PICK r \in Nat : /\ Rest(toClient, r) /\ Chunks(toClient, r)
                       /\ SlotsAre(objs, channels, toClient, r, Clean(Late))
  BY <1>2 DEF MessageInv, Assembled
<1>4. r = 0 /\ Rest(Tail(toClient), 0) /\ Chunks(Tail(toClient), 0)
  BY <1>2, <1>3, OtherRead
<1> DEFINE fresh == Clean(Late)'
<1>5. fresh => Clean(Late)
  BY <1>1
<1> HIDE DEF fresh
<1>6. SlotsAre(objs', channels', Tail(toClient), 0, fresh)
  <2> DEFINE td == Tail(toClient)
  <2>1. ~(r > 0)
    BY <1>4, NoneLeft
  <2> HIDE DEF td
  <2>2. SlotsAre(objs', channels', td, r, fresh)
    BY <1>2, <1>3, <1>5, <2>1, SlotsUnread
  <2> QED
    BY <1>4, <2>2 DEF SlotsAre, td
<1>7. Assembled(objs', channels', toClient', fresh)
  BY <1>2, <1>4, <1>6 DEF Assembled
<1>8. Numbered(toClient')
  BY <1>2, NumberedRead DEF MessageInv
<1>9. Clean(Late)' => Told(channels', toClient')
  <2>1. \A id \in Ids : channels'[id] # channels[id] => Arrived.m \in Closing /\ id = Arrived.ch
    BY DEF Parse, Arrived
  <2> QED
    BY <1>2, <2>1, ToldRead DEF MessageInv
<1> QED
  BY <1>1, <1>7, <1>8, <1>9 DEF MessageInv, fresh

\* Nothing under way closes the channel, and it is listed.
Heard(id) == /\ channels[id] # 0
             /\ \A k \in DOMAIN toClient : toClient[k].m \in Closing => toClient[k].ch # id

\* The parts of messages in fs are on such channels.
Plain(fs) == \A i \in DOMAIN fs : fs[i].m \notin MessageKinds
Listening(fs) == \A i \in DOMAIN fs : fs[i].m \notin Closing /\ (fs[i].m \in MessageKinds => Heard(fs[i].ch))

\* They can be appended.
LEMMA ToldAppended ==
  ASSUME toClient \in Seq(ClientFrames), NEW fs \in Seq(ClientFrames), Told(channels, toClient), Plain(fs) \/ Listening(fs)
  PROVE  Told(channels, toClient \o fs)
<1> DEFINE td == toClient \o fs
<1>1. \A i \in DOMAIN td : \/ i \in DOMAIN toClient /\ td[i] = toClient[i]
                           \/ i \notin DOMAIN toClient /\ \E j \in DOMAIN fs : td[i] = fs[j]
  BY ConcatSeq
<1>2. \A i, j \in DOMAIN td : j < i /\ i \in DOMAIN toClient => j \in DOMAIN toClient
  BY ConcatSeq
<1> HIDE DEF td
<1>3. ASSUME NEW i \in DOMAIN td, td[i].m \in MessageKinds
      PROVE  /\ channels[td[i].ch] # 0
             /\ \A j \in DOMAIN td : j < i /\ td[j].m \in Closing => td[j].ch # td[i].ch
  <2>1. CASE i \in DOMAIN toClient
    BY <1>1, <1>2, <1>3, <2>1 DEF Told
  <2>2. CASE i \notin DOMAIN toClient
    <3>1. PICK h \in DOMAIN fs : td[i] = fs[h]
      BY <1>1, <2>2
    <3>2. Listening(fs) /\ Heard(td[i].ch)
      BY <1>3, <3>1 DEF Plain, Listening
    <3>3. \A j \in DOMAIN td : td[j].m \in Closing => td[j].ch # td[i].ch
      BY <1>1, <3>2 DEF Listening, Heard
    <3> QED
      BY <3>2, <3>3 DEF Heard
  <2> QED
    BY <2>1, <2>2
<1> QED
  BY <1>3 DEF Told, td

\* A channel that runs is heard.
LEMMA RunningHeard ==
  ASSUME LifeInv, Clean(Crossed), NEW id \in Ids, broker.state = "running", broker.ch[id].running
  PROVE  Heard(id)
<1>1. RunningLife(id, channels[id], objs, broker.ch[id], toServer, toClient)
  BY DEF LifeInv, Life, LifeOf
<1>2. Closing \subseteq HeededKinds
  BY DEF Closing, HeededKinds, ChannelKinds, ReplyKinds, MessageKinds, StartKinds
<1> QED
  BY <1>1, <1>2 DEF RunningLife, IsOn, Heard, Closing

\* The broker says something.
LEMMA SaidStep ==
  ASSUME MessageInv, LifeInv', UNCHANGED <<objs, channels, client, faults>>, odd \subseteq odd',
         NEW fs \in Seq(ClientFrames), Chunks(fs, 0), Numbered(fs), toClient' = toClient \o fs,
         Clean(Late)' => Plain(fs) \/ Listening(fs)
  PROVE  MessageInv'
<1>1. Clean(Late)' => Clean(Late)
  BY DEF Clean
<1>2. toClient \in Seq(ClientFrames) /\ TypeInv
  BY DEF MessageInv, LifeInv, TypeInv, WebTypes
<1>3. ASSUME client.socket = "open" PROVE Assembled(objs', channels', toClient', Clean(Late)')
  <2>1. PICK r \in Nat : /\ Rest(toClient, r) /\ Chunks(toClient, r)
                         /\ SlotsAre(objs, channels, toClient, r, Clean(Late))
    BY <1>3 DEF MessageInv, Assembled
  <2>2. Rest(toClient \o fs, r) /\ Chunks(toClient \o fs, r)
    BY <1>2, <2>1, ChunksAppended
  <2>3. r > 0 => (toClient \o fs)[1] = toClient[1]
    <3>1. r > 0 => 1 \in DOMAIN toClient
      BY <1>2, <2>1 DEF Rest
    <3> QED
      BY <1>2, <3>1, ConcatSeq
  <2> DEFINE fresh == Clean(Late)'
             td == toClient \o fs
  <2>4. fresh => Clean(Late)
    BY <1>1
  <2>5. KeepsMessages
    BY DEF KeepsMessages, SameSlots
  <2> HIDE DEF fresh, td
  <2>6. SlotsAre(objs', channels', td, r, fresh)
    BY <1>2, <2>1, <2>3, <2>4, <2>5, SlotsUnread DEF td
  <2> QED
    BY <2>1, <2>2, <2>6 DEF Assembled, fresh, td
<1>4. Numbered(toClient')
  BY <1>2, NumberedAppended DEF MessageInv
<1>5. Clean(Late)' => Told(channels', toClient')
  BY <1>1, <1>2, ToldAppended DEF MessageInv
<1> QED
  BY <1>1, <1>3, <1>4, <1>5 DEF MessageInv

-----------------------------------------------------------------------------
(* The page and the jobs. *)

\* Objects that do not change keep their messages.
LEMMA SameKeeps ==
  ASSUME UNCHANGED objs
  PROVE  KeepsMessages
BY DEF KeepsMessages, SameSlots

\* So does one that keeps its slots.
LEMMA OneKeeps ==
  ASSUME NEW o \in DOMAIN objs, NEW obj, objs' = [objs EXCEPT ![o] = obj], SameSlots(objs[o], obj)
  PROVE  KeepsMessages
BY DEF KeepsMessages, SameSlots

\* An object keeps its messages when another field of it is set.
LEMMA FieldSlots ==
  ASSUME NEW obj \in Objects, NEW value
  PROVE  /\ SameSlots(obj, [obj EXCEPT !.promises = value])
         /\ SameSlots(obj, [obj EXCEPT !.unconfirmed = value])
         /\ SameSlots(obj, [obj EXCEPT !.consumers = value])
         /\ SameSlots(obj, [obj EXCEPT !.confirmId = value])
         /\ SameSlots(obj, [obj EXCEPT !.closed = value])
BY DEF SameSlots, Slots, Objects

\* A step that leaves objects and frames to the client alone keeps MessageInv.
LEMMA PlainUnread ==
  ASSUME MessageInv, LifeInv', UNCHANGED <<objs, channels, toClient, faults>>,
         client'.socket = client.socket, odd \subseteq odd'
  PROVE  MessageInv'
BY SameKeeps, UnreadStep

\* So does one that changes an object but for its slots.
LEMMA OneUnread ==
  ASSUME MessageInv, LifeInv', UNCHANGED <<channels, client, toClient, faults>>, odd \subseteq odd',
         NEW o \in DOMAIN objs, NEW obj, objs' = [objs EXCEPT ![o] = obj], SameSlots(objs[o], obj)
  PROVE  MessageInv'
<1>1. KeepsMessages
  BY OneKeeps
<1> QED
  BY <1>1, UnreadStep

\* The calls of the page on an object touch no slot.
LEMMA RequestsMessages ==
  ASSUME MessageInv, LifeInv', NEW o \in DOMAIN objs,
         \/ QueueDeclare(o) \/ QueueDelete(o) \/ QueueBind(o) \/ QueueUnbind(o) \/ QueuePurge(o)
         \/ ExchangeDeclare(o) \/ ExchangeDelete(o) \/ ExchangeBind(o) \/ ExchangeUnbind(o)
         \/ BasicQos(o) \/ BasicFlow(o) \/ BasicRecover(o) \/ ConfirmSelect(o) \/ TxMethod(o)
         \/ BasicGet(o) \/ BasicConsume(o) \/ BasicCancel(o)
         \/ BasicAck(o) \/ BasicNack(o) \/ BasicReject(o) \/ BasicPublish(o)
  PROVE  MessageInv'
<1>1. UNCHANGED <<objs, channels, client, toClient, faults>> /\ odd \subseteq odd'
  BY DEF QueueDeclare, QueueDelete, QueueBind, QueueUnbind, ExchangeBind, ExchangeUnbind, Topology,
         QueuePurge, ExchangeDeclare, ExchangeDelete, UncheckedRpc, BasicQos, BasicFlow, BasicRecover, Mode,
         ConfirmSelect, TxMethod, BasicGet, BasicConsume, BasicCancel, Request,
         BasicAck, BasicNack, BasicReject, Settle, BasicPublish
<1> QED
  BY <1>1, PlainUnread

\* Nor does waiting for a consumer.
LEMMA WaitMessages ==
  ASSUME MessageInv, LifeInv', NEW o \in DOMAIN objs, Wait(o)
  PROVE  MessageInv'
<1>1. TypeInv
  BY DEF MessageInv, LifeInv
<1>2. objs[o] \in Objects
  BY <1>1, ObjectTypes
<1>3. PICK cs : objs' = [objs EXCEPT ![o].consumers = cs]
  BY DEF Wait
<1>4. UNCHANGED <<channels, client, toClient, faults>> /\ odd \subseteq odd'
  BY DEF Wait
<1> DEFINE obj == [objs[o] EXCEPT !.consumers = cs]
<1>5. SameSlots(objs[o], obj) /\ objs' = [objs EXCEPT ![o] = obj]
  BY <1>2, <1>3, FieldSlots
<1> HIDE DEF obj
<1> QED
  BY <1>4, <1>5, OneUnread

\* Nor does closing a channel.
LEMMA CloseChannelMessages ==
  ASSUME MessageInv, LifeInv', NEW o \in DOMAIN objs, CloseChannel(o)
  PROVE  MessageInv'
<1>1. TypeInv
  BY DEF MessageInv, LifeInv
<1>2. objs[o] \in Objects
  BY <1>1, ObjectTypes
<1>3. UNCHANGED <<channels, client, toClient, faults>> /\ odd \subseteq odd'
  BY DEF CloseChannel
<1>4. CASE UNCHANGED objs
  BY <1>3, <1>4, PlainUnread
<1>5. CASE objs' = [objs EXCEPT ![o].closed = TRUE]
  <2> DEFINE obj == [objs[o] EXCEPT !.closed = TRUE]
  <2>1. SameSlots(objs[o], obj) /\ objs' = [objs EXCEPT ![o] = obj]
    BY <1>2, <1>5, FieldSlots
  <2> HIDE DEF obj
  <2> QED
    BY <1>3, <2>1, OneUnread
<1> QED
  BY <1>4, <1>5 DEF CloseChannel

\* The object of a new channel has no message, and none is on its way to it.
LEMMA OpenChannelMessages ==
  ASSUME MessageInv, LifeInv', OpenChannel
  PROVE  MessageInv'
<1>1. TypeInv /\ UNCHANGED <<client, toClient, faults, odd>>
  BY DEF MessageInv, LifeInv, OpenChannel
<1>2. CASE UNCHANGED <<objs, channels>>
  BY <1>1, <1>2, PlainUnread
<1>3. CASE ~UNCHANGED <<objs, channels>>
  <2>1. objs \in Seq(Objects) /\ channels \in [Ids -> Nat] /\ toClient \in Seq(ClientFrames)
    BY <1>1 DEF TypeInv, WebTypes
  <2>2. PICK b \in Ids : /\ channels[b] = 0 /\ objs' = Append(objs, NewObject(b))
                         /\ channels' = [channels EXCEPT ![b] = Len(objs) + 1]
    BY <1>3 DEF OpenChannel
  <2> DEFINE n == Len(objs) + 1
             new == NewObject(b)
  <2>3. Idle(new)
    BY DEF Idle, Slots, NewObject, NoMessage
  <2>4. objs'[n] = new /\ \A p \in DOMAIN objs : objs'[p] = objs[p]
    BY <2>1, <2>2
  <2>5. channels'[b] = n /\ \A id \in Ids : id # b => channels'[id] = channels[id]
    BY <2>1, <2>2
  <2> HIDE DEF n, new
  <2>6. ASSUME client.socket = "open" PROVE Assembled(objs', channels', toClient, Clean(Late))
    <3>1. PICK r \in Nat : /\ Rest(toClient, r) /\ Chunks(toClient, r)
                           /\ SlotsAre(objs, channels, toClient, r, Clean(Late))
      BY <2>6 DEF MessageInv, Assembled
    <3>2. ASSUME Clean(Late), r > 0, toClient[1].ch = b PROVE FALSE
      <4>1. 1 \in DOMAIN toClient /\ toClient # << >>
        BY <2>1, <3>1, <3>2 DEF Rest
      <4>2. toClient[1].m \in PartKinds
        BY <3>1, <3>2 DEF Rest
      <4>3. channels[toClient[1].ch] # 0
        BY <3>2, <4>1, <4>2 DEF MessageInv, Told, PartKinds, MessageKinds
      <4> QED
        BY <2>2, <3>2, <4>3
    <3>3. ASSUME NEW id \in Ids, channels'[id] # 0
          PROVE  \/ channels'[id] = channels[id] /\ SameSlots(objs[channels[id]], objs'[channels[id]])
                 \/ Idle(objs'[channels'[id]]) /\ ~(Clean(Late) /\ r > 0 /\ toClient[1].ch = id)
      <4>1. CASE id = b
        BY <2>3, <2>4, <2>5, <3>2, <4>1
      <4>2. CASE id # b
        <5>1. channels'[id] = channels[id] /\ channels[id] \in DOMAIN objs
          BY <1>1, <2>5, <3>3, <4>2, ListedObject
        <5> QED
          BY <2>4, <5>1 DEF SameSlots
      <4> QED
        BY <4>1, <4>2
    <3> DEFINE fresh == Clean(Late)
    <3>4. fresh => Clean(Late)
      OBVIOUS
    <3> HIDE DEF fresh
    <3>5. SlotsAre(objs', channels', toClient, r, fresh)
      BY <3>1, <3>3, <3>4, SlotsStay
    <3> QED
      BY <3>1, <3>5 DEF Assembled, fresh
  <2>7. Clean(Late)' = Clean(Late)
    BY <1>1 DEF Clean
  <2>8. Told(channels, toClient) => Told(channels', toClient)
    <3>1. \A i \in DOMAIN toClient : toClient[i].m \in MessageKinds => toClient[i].ch \in Ids
      BY <1>1 DEF TypeInv, Channelled, ChannelKinds
    <3>2. n # 0
      BY <2>1 DEF n
    <3> QED
      BY <2>5, <3>1, <3>2 DEF Told
  <2> QED
    BY <1>1, <2>6, <2>7, <2>8 DEF MessageInv
<1> QED
  BY <1>2, <1>3

\* No call of the page disturbs a message; a new object has begun none.
LEMMA PageCallMessages ==
  ASSUME MessageInv, PageCall
  PROVE  MessageInv'
<1>1. LifeInv'
  BY PageCallLife DEF MessageInv
<1>2. CASE OpenChannel
  BY <1>1, <1>2, OpenChannelMessages
<1>3. CASE CloseConnection
  <2>1. client \in Clients
    BY DEF MessageInv, LifeInv, TypeInv, WebTypes
  <2>2. UNCHANGED <<objs, channels, toClient, faults, odd>> /\ client'.socket = client.socket
    BY <1>3, <2>1 DEF CloseConnection, Clients
  <2> QED
    BY <1>1, <2>2, PlainUnread
<1>4. ASSUME NEW o \in DOMAIN objs,
             \/ QueueDeclare(o) \/ QueueDelete(o) \/ QueueBind(o) \/ QueueUnbind(o) \/ QueuePurge(o)
             \/ ExchangeDeclare(o) \/ ExchangeDelete(o) \/ ExchangeBind(o) \/ ExchangeUnbind(o)
             \/ BasicQos(o) \/ BasicFlow(o) \/ BasicRecover(o) \/ ConfirmSelect(o) \/ TxMethod(o)
             \/ BasicGet(o) \/ BasicConsume(o) \/ BasicCancel(o)
             \/ BasicAck(o) \/ BasicNack(o) \/ BasicReject(o) \/ BasicPublish(o)
      PROVE  MessageInv'
  BY <1>1, <1>4, RequestsMessages
<1>5. ASSUME NEW o \in DOMAIN objs, Wait(o) \/ CloseChannel(o)
      PROVE  MessageInv'
  BY <1>1, <1>5, WaitMessages, CloseChannelMessages
<1> QED
  BY <1>2, <1>3, <1>4, <1>5 DEF PageCall

\* Nor does a continuation.
LEMMA RunJobMessages ==
  ASSUME MessageInv, RunJob
  PROVE  MessageInv'
<1>1. TypeInv /\ LifeInv'
  BY RunJobLife DEF MessageInv, LifeInv
<1>2. jobs # << >> /\ UNCHANGED <<channels, toClient, odd, faults>>
  BY DEF RunJob, RunAwait, RunClosing, RunSent, RunCount, RunConsume, RunCancel, HeadJob
<1>3. CASE RunClosing \/ RunSent
  <2>1. client \in Clients
    BY <1>1 DEF TypeInv, WebTypes
  <2>2. UNCHANGED objs /\ client'.socket = client.socket
    BY <1>3, <2>1 DEF RunClosing, RunSent, Clients
  <2> QED
    BY <1>1, <1>2, <2>2, PlainUnread
<1>4. CASE RunAwait \/ RunCount \/ RunConsume \/ RunCancel
  <2> DEFINE j == Head(jobs)
             o == j.obj
  <2>1. o \in DOMAIN objs
    <3>1. Head(jobs).do # "closing"
      BY <1>4 DEF RunAwait, RunCount, RunConsume, RunCancel, HeadJob
    <3> QED
      BY <1>1, <1>2, <3>1, JobObject
  <2>2. objs[o] \in Objects /\ UNCHANGED client
    BY <1>1, <1>4, <2>1, ObjectTypes DEF RunAwait, RunCount, RunConsume, RunCancel
  <2>3. PICK obj : objs' = [objs EXCEPT ![o] = obj] /\ SameSlots(objs[o], obj)
    <3>1. ASSUME RunAwait PROVE \E obj : objs' = [objs EXCEPT ![o] = obj] /\ SameSlots(objs[o], obj)
      <4> DEFINE obj == [objs[o] EXCEPT !.promises = Append(objs[o].promises, j.call)]
      <4>1. objs' = [objs EXCEPT ![o] = obj]
        BY <3>1 DEF RunAwait
      <4>2. SameSlots(objs[o], obj)
        BY <2>2, FieldSlots
      <4> HIDE DEF obj
      <4> QED
        BY <4>1, <4>2
    <3>2. ASSUME RunCount PROVE \E obj : objs' = [objs EXCEPT ![o] = obj] /\ SameSlots(objs[o], obj)
      <4> DEFINE obj == [objs[o] EXCEPT !.unconfirmed = Append(@, [tag |-> objs[o].confirmId + 1, call |-> j.call]),
                                        !.confirmId = @ + 1]
      <4>1. objs' = [objs EXCEPT ![o] = obj]
        <5>1. objs' = [objs EXCEPT
                 ![o].unconfirmed = Append(@, [tag |-> objs[o].confirmId + 1, call |-> j.call]),
                 ![o].confirmId = @ + 1]
          BY <3>2 DEF RunCount
        <5> QED
          BY <2>1, <2>2, <5>1 DEF Objects
      <4>2. SameSlots(objs[o], obj)
        BY <2>2 DEF SameSlots, Slots, Objects
      <4> HIDE DEF obj
      <4> QED
        BY <4>1, <4>2
    <3>3. ASSUME RunConsume \/ RunCancel
          PROVE  \E obj : objs' = [objs EXCEPT ![o] = obj] /\ SameSlots(objs[o], obj)
      <4>1. PICK cs : objs' = [objs EXCEPT ![o].consumers = cs]
        BY <3>3 DEF RunConsume, RunCancel
      <4> DEFINE obj == [objs[o] EXCEPT !.consumers = cs]
      <4>2. objs' = [objs EXCEPT ![o] = obj]
        BY <4>1
      <4>3. SameSlots(objs[o], obj)
        BY <2>2, FieldSlots
      <4> HIDE DEF obj
      <4> QED
        BY <4>2, <4>3
    <3> QED
      BY <1>4, <3>1, <3>2, <3>3
  <2> HIDE DEF o
  <2>4. odd \subseteq odd'
    BY <1>2
  <2> QED
    BY <1>1, <1>2, <2>1, <2>2, <2>3, <2>4, OneUnread
<1> QED
  BY <1>3, <1>4 DEF RunJob

-----------------------------------------------------------------------------
(* The frames that are not part of a message. *)

\* A promise that is resolved leaves the messages of its object alone.
LEMMA ResolveSlots ==
  ASSUME NEW o \in DOMAIN objs, NEW obj \in Objects, SameSlots(objs[o], obj),
         NEW by, NEW tag, ResolvePromise(o, obj, by, tag)
  PROVE  KeepsMessages
<1>1. CASE obj.promises = << >>
  BY <1>1, OneKeeps DEF ResolvePromise
<1>2. CASE obj.promises # << >>
  <2> DEFINE rest == [obj EXCEPT !.promises = Tail(obj.promises)]
  <2>2. objs' = [objs EXCEPT ![o] = rest]
    BY <1>2 DEF ResolvePromise
  <2>3. SameSlots(obj, rest)
    BY FieldSlots
  <2> HIDE DEF rest
  <2>1. SameSlots(objs[o], rest)
    BY <2>3 DEF SameSlots
  <2> HIDE DEF rest
  <2> QED
    BY <2>1, <2>2, OneKeeps
<1> QED
  BY <1>1, <1>2

\* A reply is read between two messages and touches no slot.
LEMMA ReplyMessages ==
  ASSUME MessageInv, NEW m \in ReplyKinds, Reply(m)
  PROVE  MessageInv'
<1>1. TypeInv /\ LifeInv' /\ Parse(m) /\ m \in ChannelKinds /\ m \notin MessageKinds /\ UNCHANGED <<channels, odd>>
  BY ReplyQuiet DEF MessageInv, LifeInv, Reply, ChannelKinds, MessageKinds, StartKinds, ReplyKinds
<1>2. toClient # << >> /\ Arrived.m = m
  BY <1>1 DEF Parse, Arrived
<1>3. KeepsMessages
  <2>1. CASE Addressed = 0
    BY <2>1, SameKeeps DEF Reply
  <2>2. CASE Addressed # 0
    <3>1. Addressed \in DOMAIN objs /\ ResolvePromise(Addressed, objs[Addressed], Arrived.call, Arrived.tag)
      BY <1>1, <1>2, <2>2, AddressedTypes DEF Reply
    <3>2. objs[Addressed] \in Objects /\ SameSlots(objs[Addressed], objs[Addressed])
      BY <1>1, <3>1, ObjectTypes DEF SameSlots
    <3> QED
      BY <3>1, <3>2, ResolveSlots
  <2> QED
    BY <2>1, <2>2
<1>4. faults' \subseteq faults \union {"no channel"}
  BY DEF Reply
<1>5. odd \subseteq odd' /\ \A id \in Ids : channels'[id] = channels[id]
  BY <1>1
<1> QED
  BY <1>1, <1>3, <1>4, <1>5, OtherStep

\* So is the reply to Confirm.Select.
LEMMA SelectOkMessages ==
  ASSUME MessageInv, OnSelectOk
  PROVE  MessageInv'
<1>1. TypeInv /\ LifeInv' /\ Parse("selectOk") /\ UNCHANGED channels
      /\ "selectOk" \notin MessageKinds /\ "selectOk" \in ChannelKinds
  BY SelectOkQuiet DEF MessageInv, LifeInv, OnSelectOk, ChannelKinds, MessageKinds, StartKinds, ReplyKinds
<1>2. toClient # << >> /\ Arrived.m = "selectOk"
  BY <1>1 DEF Parse, Arrived
<1>3. KeepsMessages
  <2>1. CASE Addressed = 0
    BY <2>1, SameKeeps DEF OnSelectOk
  <2>2. CASE Addressed # 0
    <3> DEFINE obj == [objs[Addressed] EXCEPT !.confirmId = 0]
    <3>1. Addressed \in DOMAIN objs /\ ResolvePromise(Addressed, obj, Arrived.call, 0)
      BY <1>1, <1>2, <2>2, AddressedTypes DEF OnSelectOk
    <3>2. objs[Addressed] \in Objects
      BY <1>1, <3>1, ObjectTypes
    <3>3. obj \in Objects
      BY <3>2 DEF Objects
    <3>4. SameSlots(objs[Addressed], obj)
      BY <3>2, FieldSlots
    <3> HIDE DEF obj
    <3> QED
      BY <3>1, <3>3, <3>4, ResolveSlots
  <2> QED
    BY <2>1, <2>2
<1>4. faults' \subseteq faults \union {"no channel"} /\ odd \subseteq odd'
  BY DEF OnSelectOk
<1>5. \A id \in Ids : channels'[id] = channels[id]
  BY <1>1
<1> QED
  BY <1>1, <1>3, <1>4, <1>5, OtherStep

\* So is a confirm.
LEMMA ConfirmedMessages ==
  ASSUME MessageInv, LifeInv', NEW m \in {"ack", "nack"}, NEW st, PublishConfirmed(m, st)
  PROVE  MessageInv'
<1>1. TypeInv /\ Parse(m) /\ m \in ChannelKinds /\ m \notin MessageKinds /\ UNCHANGED <<channels, odd, faults>>
  BY DEF MessageInv, LifeInv, PublishConfirmed, ChannelKinds, MessageKinds, StartKinds
<1>2. toClient # << >> /\ Arrived.m = m
  BY <1>1 DEF Parse, Arrived
<1>3. KeepsMessages
  <2>1. CASE UNCHANGED objs
    BY <2>1, SameKeeps
  <2>2. CASE ~UNCHANGED objs
    <3>1. PICK u : Addressed # 0 /\ objs' = [objs EXCEPT ![Addressed].unconfirmed = u]
      BY <2>2 DEF PublishConfirmed
    <3>2. Addressed \in DOMAIN objs
      BY <1>1, <1>2, <3>1, AddressedTypes
    <3>3. objs[Addressed] \in Objects
      BY <1>1, <3>2, ObjectTypes
    <3> DEFINE obj == [objs[Addressed] EXCEPT !.unconfirmed = u]
    <3>4. objs' = [objs EXCEPT ![Addressed] = obj] /\ SameSlots(objs[Addressed], obj)
      BY <3>1, <3>3, FieldSlots
    <3> HIDE DEF obj
    <3> QED
      BY <3>2, <3>4, OneKeeps
  <2> QED
    BY <2>1, <2>2
<1>4. odd \subseteq odd' /\ faults' \subseteq faults \union {"no channel"} /\ \A id \in Ids : channels'[id] = channels[id]
  BY <1>1
<1> QED
  BY <1>1, <1>3, <1>4, OtherStep

\* A channel that closes takes its object off the list.
LEMMA SetClosedSlots ==
  ASSUME NEW o, objs[o] \in Objects
  PROVE  SameSlots(objs[o], SetClosed(o))
BY DEF SetClosed, SameSlots, Slots, Objects

\* So is the end of a channel, whose object is listed no longer.
LEMMA ChannelCloseMessages ==
  ASSUME MessageInv, OnChannelClose \/ OnChannelCloseOk
  PROVE  MessageInv'
<1>1. TypeInv /\ LifeInv' /\ odd \subseteq odd' /\ faults' \subseteq faults \union {"no channel"}
  BY ChannelCloseLife, ChannelCloseOkLife DEF MessageInv, LifeInv, OnChannelClose, OnChannelCloseOk
<1>2. PICK m \in {"close", "closeOk"} : Parse(m)
  BY DEF OnChannelClose, OnChannelCloseOk
<1>3. m \in ChannelKinds /\ m \notin MessageKinds
  BY DEF ChannelKinds, MessageKinds, StartKinds, ReplyKinds
<1>4. toClient # << >> /\ Arrived.m = m
  BY <1>2 DEF Parse, Arrived
<1>5. KeepsMessages
  <2>1. CASE Addressed = 0
    BY <2>1, SameKeeps DEF OnChannelClose, OnChannelCloseOk
  <2>2. CASE Addressed # 0
    <3>1. Addressed \in DOMAIN objs
      BY <1>1, <1>3, <1>4, <2>2, AddressedTypes
    <3>2. objs[Addressed] \in Objects /\ SetClosed(Addressed) \in Objects
      BY <1>1, <3>1, ObjectTypes, SetClosedIs
    <3>3. SameSlots(objs[Addressed], SetClosed(Addressed))
      BY <3>2, SetClosedSlots
    <3>4. \/ objs' = [objs EXCEPT ![Addressed] = SetClosed(Addressed)]
          \/ ResolvePromise(Addressed, SetClosed(Addressed), Arrived.call, 0)
      BY <2>2 DEF OnChannelClose, OnChannelCloseOk
    <3> QED
      BY <3>1, <3>2, <3>3, <3>4, OneKeeps, ResolveSlots
  <2> QED
    BY <2>1, <2>2
<1>6. \A id \in Ids : channels'[id] = channels[id] \/ (channels'[id] = 0 /\ m \in Closing /\ id = Arrived.ch)
  <2>1. channels \in [Ids -> Nat]
    BY <1>1 DEF TypeInv, WebTypes
  <2>2. channels' = channels \/ channels' = [channels EXCEPT ![Arrived.ch] = 0]
    BY DEF OnChannelClose, OnChannelCloseOk
  <2> QED
    BY <2>1, <2>2 DEF Closing
<1> QED
  BY <1>1, <1>2, <1>3, <1>5, <1>6, OtherStep

-----------------------------------------------------------------------------
(* The frames of a message. *)

\* The slot in use is the one that has a message.
LEMMA SlotIs ==
  ASSUME NEW obj, NEW slot \in Slots, obj[slot].n # 0, \A s \in Slots \ {slot} : obj[s].n = 0
  PROVE  Slot(obj) = slot
<1>1. CASE slot = "delivery"
  BY <1>1 DEF Slot, Slots
<1>2. CASE slot = "getMessage"
  <2>1. obj.delivery.n = 0
    BY <1>2 DEF Slots
  <2> QED
    BY <1>2, <2>1 DEF Slot
<1>3. CASE slot = "returned"
  <2>1. obj.delivery.n = 0 /\ obj.getMessage.n = 0
    BY <1>3 DEF Slots
  <2> QED
    BY <1>3, <2>1 DEF Slot
<1> QED
  BY <1>1, <1>2, <1>3 DEF Slots

\* The object with a message in one of its slots.
Put(obj, slot, msg) == [obj EXCEPT ![slot] = msg]

\* A message is put into one slot.
LEMMA SlotPut ==
  ASSUME NEW obj \in Objects, NEW slot \in Slots, NEW msg
  PROVE  Put(obj, slot, msg)[slot] = msg /\ \A other \in Slots \ {slot} : Put(obj, slot, msg)[other] = obj[other]
<1>1. CASE slot = "delivery"
  BY <1>1 DEF Objects, Slots, Put
<1>2. CASE slot = "getMessage"
  BY <1>2 DEF Objects, Slots, Put
<1>3. CASE slot = "returned"
  BY <1>3 DEF Objects, Slots, Put
<1> QED
  BY <1>1, <1>2, <1>3 DEF Slots

\* When that slot is emptied the object is idle again.
LEMMA EmptiedIdle ==
  ASSUME NEW obj \in Objects, NEW slot \in Slots, \A s \in Slots \ {slot} : obj[s].n = 0
  PROVE  Idle([obj EXCEPT ![slot] = NoMessage])
<1>1. CASE slot = "delivery"
  BY <1>1 DEF Idle, Objects, Slots, NoMessage
<1>2. CASE slot = "getMessage"
  BY <1>2 DEF Idle, Objects, Slots, NoMessage
<1>3. CASE slot = "returned"
  BY <1>3 DEF Idle, Objects, Slots, NoMessage
<1> QED
  BY <1>1, <1>2, <1>3 DEF Slots

\* The first frame of a message gives it a slot of an object that has no other.
LEMMA GrowingStart ==
  ASSUME NEW obj \in Objects, Idle(obj), NEW slot \in Slots, NEW msg \in Messages, NEW f, NEW g,
         msg.n = f.n, f.n # 0, msg.tag = f.tag, msg.whole, f.size \in Nat,
         g.m = "header", SameMessage(g, f)
  PROVE  Growing([obj EXCEPT ![slot] = msg], g, 1 + f.size)
<1> DEFINE new == Put(obj, slot, msg)
<1>1. new[slot] = msg /\ \A other \in Slots \ {slot} : new[other] = obj[other]
  BY SlotPut
<1> HIDE DEF new
<1>2. Slot(new) = slot
  BY <1>1, SlotIs DEF Idle
<1>3. g.n = f.n /\ g.size = f.size /\ g.tag = f.tag
  BY DEF SameMessage
<1>4. 1 + f.size = g.size + 1
  BY <1>3
<1> DEFINE q == 1 + f.size
<1> HIDE DEF q
<1>5. q = g.size + 1
  BY <1>4 DEF q
<1>6. Growing(new, g, q)
  BY <1>1, <1>2, <1>3, <1>5 DEF Growing, Idle
<1> QED
  BY <1>6 DEF new, q, Put

\* What the message of an object grows to with the frame f.
Grown(old, f) == IF f.m = "header" THEN [old EXCEPT !.size = f.size, !.pos = 0, !.whole = (old.n = f.n)]
                                   ELSE [old EXCEPT !.pos = @ + 1, !.whole = @ /\ old.n = f.n]

\* The next part belongs to the message that grows, and completes it if it is the last.
LEMMA GrowingPart ==
  ASSUME NEW obj \in Objects, NEW f, f.m \in PartKinds, f.n \in Nat, f.n # 0, f.size \in Nat,
         NEW r \in Nat, r > 0, Growing(obj, f, r),
         NEW g, r > 1 => g.m = "body" /\ SameMessage(g, f)
  PROVE  LET slot == Slot(obj)
             msg == Grown(obj[slot], f)
         IN  /\ msg.n # 0 /\ msg.whole
             /\ Idle([obj EXCEPT ![slot] = NoMessage])
             /\ msg.pos = msg.size => r = 1
             /\ msg.pos # msg.size => r > 1 /\ Growing([obj EXCEPT ![slot] = msg], g, r - 1)
<1> DEFINE slot == Slot(obj)
           old == obj[slot]
           msg == Grown(old, f)
           ready == [obj EXCEPT ![slot] = NoMessage]
           new == Put(obj, slot, msg)
<1>1. slot \in Slots
  BY SlotType
<1>2. old \in Messages
  BY <1>1 DEF Objects, Slots
<1>3. /\ old.n = f.n /\ old.whole /\ old.tag = f.tag
      /\ \A s \in Slots \ {slot} : obj[s].n = 0
      /\ f.m = "header" => r = f.size + 1
      /\ f.m = "body" => old.size = f.size /\ old.pos + r = f.size
  BY DEF Growing
<1> HIDE DEF slot
<1> HIDE DEF old, msg, new
<1>5. Idle(ready)
  BY <1>1, <1>3, EmptiedIdle
<1> HIDE DEF ready
<1> USE DEF msg
<1>6. /\ msg \in Messages /\ msg.n = f.n /\ msg.whole = TRUE /\ msg.tag = f.tag /\ msg.size = f.size
      /\ msg.pos \in Nat /\ msg.pos + (r - 1) = f.size
  <2>1. CASE f.m = "header"
    <3>1. msg = [old EXCEPT !.size = f.size, !.pos = 0, !.whole = TRUE]
      BY <1>3, <2>1 DEF Grown
    <3>0. [old EXCEPT !.size = f.size, !.pos = 0, !.whole = TRUE] \in Messages
      BY <1>2 DEF Messages
    <3>2. msg \in Messages
      BY <3>0, <3>1
    <3>3. msg.n = f.n /\ msg.whole = TRUE /\ msg.tag = f.tag /\ msg.size = f.size /\ msg.pos = 0
      BY <1>2, <1>3, <3>1 DEF Messages
    <3>4. 0 + (r - 1) = f.size
      BY <1>3, <2>1
    <3> QED
      BY <3>2, <3>3, <3>4
  <2>2. CASE f.m = "body"
    <3>1. msg = [old EXCEPT !.pos = old.pos + 1, !.whole = TRUE]
      BY <1>3, <2>2 DEF Grown
    <3> DEFINE p == old.pos + 1
    <3>p. old.pos \in Nat /\ p \in Nat
      BY <1>2 DEF Messages
    <3> HIDE DEF p
    <3>q. [old EXCEPT !.pos = p, !.whole = TRUE] \in Messages
      BY <1>2, <3>p DEF Messages
    <3>0. old.pos \in Nat /\ [old EXCEPT !.pos = old.pos + 1, !.whole = TRUE] \in Messages
      BY <3>p, <3>q DEF p
    <3>2. msg \in Messages /\ old.pos \in Nat
      BY <3>0, <3>1
    <3>3. msg.n = f.n /\ msg.whole = TRUE /\ msg.tag = f.tag /\ msg.size = f.size /\ msg.pos = old.pos + 1
      BY <1>2, <1>3, <2>2, <3>1 DEF Messages
    <3>4. (old.pos + 1) + (r - 1) = f.size
      BY <1>3, <2>2, <3>2
    <3>5. old.pos + 1 \in Nat
      BY <3>2
    <3> QED
      BY <3>2, <3>3, <3>4, <3>5
  <2> QED
    BY <2>1, <2>2 DEF PartKinds
<1> HIDE DEF msg
<1>7. new[slot] = msg /\ \A other \in Slots \ {slot} : new[other] = obj[other]
  BY <1>1, SlotPut DEF new
<1>8. msg.pos = msg.size => r = 1
  BY <1>6
<1>9. ASSUME msg.pos # msg.size PROVE r > 1 /\ Growing(new, g, r - 1)
  <2>1. r > 1
    BY <1>6, <1>9
  <2>2. g.m = "body" /\ g.n = f.n /\ g.size = f.size /\ g.tag = f.tag
    BY <2>1 DEF SameMessage
  <2>3. Slot(new) = slot
    <3>1. new[slot].n # 0 /\ \A s \in Slots \ {slot} : new[s].n = 0
      BY <1>3, <1>6, <1>7
    <3> QED
      BY <1>1, <3>1, SlotIs
  <2> DEFINE q == r - 1
  <2>4. msg.pos + q = f.size
    BY <1>6
  <2> HIDE DEF q
  <2>5. Growing(new, g, q)
    BY <1>3, <1>6, <1>7, <2>2, <2>3, <2>4 DEF Growing
  <2> QED
    BY <2>1, <2>5 DEF q
<1> QED
  BY <1>5, <1>6, <1>8, <1>9 DEF slot, old, msg, ready, new, Put

\* The other objects on the list are as they were.
LEMMA OtherSlots ==
  ASSUME TypeInv, NEW c \in Ids, NEW r \in Nat, NEW clean, SlotsAre(objs, channels, toClient, r, clean),
         toClient[1].ch = c,
         NEW os, \A o \in DOMAIN objs : o # channels[c] => os[o] = objs[o],
         NEW td, NEW q \in Nat, q > 0 => td[1].ch = c, NEW fresh,
         channels[c] # 0 => \/ Idle(os[channels[c]]) /\ ~(fresh /\ q > 0)
                            \/ q > 0 /\ Growing(os[channels[c]], td[1], q)
  PROVE  SlotsAre(os, channels, td, q, fresh)
<1> SUFFICES ASSUME NEW id \in Ids, channels[id] # 0
             PROVE  \/ Idle(os[channels[id]]) /\ ~(fresh /\ q > 0 /\ td[1].ch = id)
                    \/ q > 0 /\ td[1].ch = id /\ Growing(os[channels[id]], td[1], q)
  BY DEF SlotsAre
<1>1. CASE id = c
  BY <1>1
<1>2. CASE id # c
  <2>1. channels[id] \in DOMAIN objs /\ channels[id] # channels[c]
    BY <1>2, ListedObject
  <2>2. Idle(objs[channels[id]])
    BY <1>2 DEF SlotsAre
  <2> QED
    BY <1>2, <2>1, <2>2
<1> QED
  BY <1>1, <1>2

\* The first frame finds an idle object and begins a message in one slot.
LEMMA StartMessageMessages ==
  ASSUME MessageInv, LifeInv', NEW m \in StartKinds, NEW slot \in Slots, StartMessage(m, slot)
  PROVE  MessageInv'
<1>1. TypeInv /\ Parse(m) /\ m \in MessageKinds /\ UNCHANGED <<channels, client, odd, faults>>
  BY DEF MessageInv, LifeInv, StartMessage, MessageKinds
<1>2. toClient # << >> /\ Arrived.m = m /\ toClient' = Tail(toClient) /\ client.socket = "open"
  BY <1>1 DEF Parse, MayParse, Arrived
<1>3. toClient \in Seq(ClientFrames) /\ objs \in Seq(Objects)
  BY <1>1 DEF TypeInv, WebTypes
<1>4. /\ 1 \in DOMAIN toClient /\ Arrived = toClient[1] /\ Arrived.ch \in Ids /\ Arrived \in ClientFrames
      /\ Arrived.m \in ChannelKinds
  BY <1>1, <1>2, <1>3, ArrivedTypes DEF ChannelKinds
<1>5. Arrived.size \in Nat /\ Arrived.n \in Nat /\ Arrived.tag \in Nat /\ Arrived.n # 0
  BY <1>1, <1>2, <1>4, PartSizes DEF MessageInv, Numbered
<1> DEFINE c == Arrived.ch
           q == 1 + Arrived.size
           td == Tail(toClient)
           a == channels[c]
<1>6. PICK r \in Nat : /\ Rest(toClient, r) /\ Chunks(toClient, r)
                       /\ SlotsAre(objs, channels, toClient, r, Clean(Late))
  BY <1>2 DEF MessageInv, Assembled
<1>7. /\ r = 0 /\ q \in Nat /\ q > 0 /\ Rest(td, q) /\ Chunks(td, q)
      /\ td[1].m = "header" /\ SameMessage(td[1], Arrived)
  <2> DEFINE tc == toClient
             p == 1 + tc[1].size
  <2>1. tc \in Seq(ClientFrames) /\ tc # << >> /\ Rest(tc, r) /\ Chunks(tc, r) /\ tc[1].m \in StartKinds
    BY <1>2, <1>3, <1>4, <1>6
  <2> HIDE DEF tc
  <2>2. /\ r = 0 /\ p \in Nat /\ p > 0 /\ Rest(Tail(tc), p) /\ Chunks(Tail(tc), p)
        /\ Tail(tc)[1].m = "header" /\ SameMessage(Tail(tc)[1], tc[1])
    BY <2>1, StartRead
  <2>3. p = q /\ Tail(tc) = td /\ tc[1] = Arrived
    BY <1>4 DEF tc
  <2> HIDE DEF p, q, td
  <2> QED
    BY <2>2, <2>3
<1>8. td[1].ch = c
  BY <1>7 DEF SameMessage
<1>9. a # 0 => Growing(objs'[a], td[1], q)
  <2> SUFFICES ASSUME a # 0 PROVE Growing(objs'[a], td[1], q)
    OBVIOUS
  <2> DEFINE new == [objs[a] EXCEPT ![slot] = NewMessage]
             g == td[1]
             f == Arrived
  <2>1. a \in DOMAIN objs /\ objs[a] \in Objects
    BY <1>1, <1>4, ListedObject, ObjectTypes
  <2>2. objs'[a] = new
    BY <1>3, <2>1 DEF StartMessage, Addressed
  <2>3. Idle(objs[a])
    <3>1. ~(r > 0)
      BY <1>7, NoneLeft
    <3> QED
      BY <1>4, <1>6, <3>1 DEF SlotsAre
  <2>4. NewMessage \in Messages /\ NewMessage.n = f.n /\ NewMessage.tag = f.tag /\ NewMessage.whole
    <3>1. NoMessage \in Messages /\ NoMessage.whole
      BY NoMessageType DEF NoMessage
    <3>2. NewMessage \in Messages
      BY <1>5, <3>1 DEF NewMessage, Messages
    <3>3. NewMessage.n = f.n /\ NewMessage.tag = f.tag /\ NewMessage.whole
      BY <1>5, <3>1 DEF NewMessage, Messages
    <3> QED
      BY <3>2, <3>3
  <2>5. f.n # 0 /\ f.size \in Nat /\ g.m = "header" /\ SameMessage(g, f)
    BY <1>5, <1>7
  <2> DEFINE msg == NewMessage
  <2> HIDE DEF f, g, msg, td, q
  <2>6. Growing([objs[a] EXCEPT ![slot] = msg], g, 1 + f.size)
    BY <2>1, <2>3, <2>4, <2>5, GrowingStart DEF msg
  <2> QED
    BY <2>2, <2>6 DEF q, f, g, msg
<1>10. \A o \in DOMAIN objs : o # a => objs'[o] = objs[o]
  BY <1>3 DEF StartMessage, Addressed
<1> DEFINE fresh == Clean(Late)
<1> HIDE DEF c, q, td, a, fresh
<1>11. SlotsAre(objs', channels, td, q, fresh)
  <2>1. c \in Ids /\ toClient[1].ch = c
    BY <1>4 DEF c
  <2>2. q > 0 => td[1].ch = c
    BY <1>8
  <2>3. channels[c] # 0 => q > 0 /\ Growing(objs'[channels[c]], td[1], q)
    BY <1>7, <1>9 DEF a
  <2>4. \A o \in DOMAIN objs : o # channels[c] => objs'[o] = objs[o]
    BY <1>10 DEF a
  <2> QED
    BY <1>1, <1>6, <1>7, <2>1, <2>2, <2>3, <2>4, OtherSlots
<1>12. Clean(Late)' = Clean(Late)
  BY <1>1 DEF Clean
<1>13. Assembled(objs', channels', toClient', Clean(Late)')
  BY <1>1, <1>2, <1>7, <1>11, <1>12 DEF Assembled, td, fresh
<1>14. Numbered(toClient')
  BY <1>2, <1>3, NumberedRead DEF MessageInv
<1>15. Clean(Late)' => Told(channels', toClient')
  BY <1>1, <1>2, ToldRead DEF MessageInv
<1> QED
  BY <1>1, <1>12, <1>13, <1>14, <1>15 DEF MessageInv

\* A header or a body goes to the message it is part of.
LEMMA PartMessages ==
  ASSUME MessageInv, LifeInv', NEW m \in PartKinds, Parse(m),
         Addressed # 0 => Part(Grown(objs[Addressed][Slot(objs[Addressed])], Arrived)),
         Addressed = 0 => UNCHANGED <<objs, faults>>,
         UNCHANGED <<channels, client, odd>>
  PROVE  MessageInv'
<1>1. TypeInv /\ m \in MessageKinds
  BY DEF MessageInv, LifeInv, MessageKinds, PartKinds
<1>2. toClient # << >> /\ Arrived.m = m /\ toClient' = Tail(toClient) /\ client.socket = "open"
  BY <1>1 DEF Parse, MayParse, Arrived
<1>3. toClient \in Seq(ClientFrames) /\ objs \in Seq(Objects)
  BY <1>1 DEF TypeInv, WebTypes
<1>4. /\ 1 \in DOMAIN toClient /\ Arrived = toClient[1] /\ Arrived.ch \in Ids /\ Arrived \in ClientFrames
      /\ Arrived.m \in ChannelKinds
  BY <1>1, <1>2, <1>3, ArrivedTypes DEF ChannelKinds
<1>5. Arrived.size \in Nat /\ Arrived.n \in Nat /\ Arrived.n # 0
  BY <1>1, <1>2, <1>4, PartSizes DEF MessageInv, Numbered
<1> DEFINE c == Arrived.ch
           td == Tail(toClient)
           a == channels[c]
           f == Arrived
           g == td[1]
<1>6. PICK r \in Nat : /\ Rest(toClient, r) /\ Chunks(toClient, r)
                       /\ SlotsAre(objs, channels, toClient, r, Clean(Late))
  BY <1>2 DEF MessageInv, Assembled
<1> DEFINE q == r - 1
<1>7. /\ r > 0 /\ q \in Nat /\ Rest(td, q) /\ Chunks(td, q)
      /\ r > 1 => g.m = "body" /\ SameMessage(g, f)
  BY <1>2, <1>3, <1>4, <1>6, PartRead
<1>8. q > 0 => g.ch = c
  <2>1. q > 0 => r > 1
    BY <1>7
  <2> QED
    BY <1>7, <2>1 DEF SameMessage
<1> HIDE DEF g
<1>9. \A o \in DOMAIN objs : o # a => objs'[o] = objs[o]
  <2>1. CASE UNCHANGED objs
    BY <2>1
  <2>2. CASE ~UNCHANGED objs
    <3> DEFINE msg == Grown(objs[Addressed][Slot(objs[Addressed])], Arrived)
    <3>1. Part(msg) /\ Addressed # 0
      BY <2>2
    <3>2. a \in DOMAIN objs /\ a = Addressed /\ objs[a] \in Objects
      BY <1>1, <1>4, <3>1, ListedObject, ObjectTypes DEF Addressed
    <3> HIDE DEF msg
    <3>3. OnMessageReady(a, msg) \/ objs' = [objs EXCEPT ![a] = [objs[a] EXCEPT ![Slot(objs[a])] = msg]]
      BY <2>2, <3>1, <3>2 DEF Part
    <3>4. CASE OnMessageReady(a, msg)
      <4> DEFINE ready == [objs[a] EXCEPT ![Slot(objs[a])] = NoMessage]
      <4>1. ready \in Objects
        BY <3>2, SlotType, SlotSet, NoMessageType
      <4>2. ResolvePromise(a, ready, msg.tag, 0) \/ objs' = [objs EXCEPT ![a] = ready]
        BY <3>4 DEF OnMessageReady
      <4> HIDE DEF ready, a
      <4> QED
        BY <1>3, <3>2, <4>1, <4>2, ResolveOne
    <3>5. CASE objs' = [objs EXCEPT ![a] = [objs[a] EXCEPT ![Slot(objs[a])] = msg]]
      BY <1>3, <3>5
    <3> QED
      BY <3>3, <3>4, <3>5
  <2> QED
    BY <2>1, <2>2
<1>10. ASSUME a # 0, Growing(objs[a], f, r)
       PROVE  /\ (Idle(objs'[a]) /\ ~(q > 0)) \/ (q > 0 /\ Growing(objs'[a], g, q))
              /\ faults' \subseteq faults \union {"dropped"}
  <2> DEFINE slot == Slot(objs[a])
             msg == Grown(objs[a][slot], f)
             ready == [objs[a] EXCEPT ![slot] = NoMessage]
             new == [objs[a] EXCEPT ![slot] = msg]
  <2>1. a \in DOMAIN objs /\ a = Addressed /\ objs[a] \in Objects
    BY <1>1, <1>4, <1>10, ListedObject, ObjectTypes DEF Addressed
  <2>2. Part(msg)
    BY <1>10, <2>1
  <2>3. f.m \in PartKinds /\ f.n \in Nat /\ f.n # 0 /\ f.size \in Nat
    BY <1>2, <1>5
  <2>4. /\ msg.n # 0 /\ msg.whole
        /\ Idle(ready)
        /\ msg.pos = msg.size => r = 1
        /\ msg.pos # msg.size => r > 1 /\ Growing(new, g, r - 1)
    <3> HIDE DEF f, a
    <3> QED
      BY <1>6, <1>7, <1>10, <2>1, <2>3, GrowingPart
  <2>5. slot \in Slots /\ ready \in Objects
    BY <2>1, SlotType, SlotSet, NoMessageType
  <2> HIDE DEF msg
  <2>6. CASE msg.pos = msg.size
    <3>1. OnMessageReady(a, msg)
      BY <1>10, <2>1, <2>2, <2>4, <2>6 DEF Part
    <3>2. ResolvePromise(a, ready, msg.tag, 0) \/ objs' = [objs EXCEPT ![a] = ready]
      BY <3>1 DEF OnMessageReady
    <3>3. faults' \subseteq faults \union {"dropped"}
      BY <2>4, <3>1 DEF OnMessageReady
    <3>4. Idle(objs'[a])
      <4>1. CASE objs' = [objs EXCEPT ![a] = ready]
        BY <1>3, <2>1, <2>4, <4>1
      <4>2. CASE ResolvePromise(a, ready, msg.tag, 0)
        <5> DEFINE rest == [ready EXCEPT !.promises = Tail(ready.promises)]
        <5>1. objs' = [objs EXCEPT ![a] = ready] \/ objs' = [objs EXCEPT ![a] = rest]
          BY <4>2 DEF ResolvePromise
        <5>2. SameSlots(ready, rest)
          BY <2>5, FieldSlots
        <5> HIDE DEF ready, rest
        <5>3. Idle(rest)
          BY <2>4, <5>2, SlotSame
        <5> HIDE DEF a
        <5> QED
          BY <1>3, <2>1, <2>4, <5>1, <5>3
      <4> QED
        BY <3>2, <4>1, <4>2
    <3>5. ~(q > 0)
      BY <2>4, <2>6
    <3> QED
      BY <3>3, <3>4, <3>5
  <2>7. CASE msg.pos # msg.size
    <3>1. objs' = [objs EXCEPT ![a] = new] /\ UNCHANGED faults
      BY <1>10, <2>1, <2>2, <2>4, <2>7 DEF Part
    <3>2. q > 0 /\ Growing(new, g, q)
      BY <1>6, <2>4, <2>7
    <3>3. objs'[a] = new
      BY <1>3, <2>1, <3>1
    <3> HIDE DEF new
    <3> QED
      BY <3>1, <3>2, <3>3
  <2> QED
    BY <2>6, <2>7
<1>11. ASSUME a # 0, Idle(objs[a])
       PROVE  UNCHANGED objs /\ faults' \subseteq faults \union {"no message"}
  <2> DEFINE slot == Slot(objs[a])
             msg == Grown(objs[a][slot], f)
  <2>1. a \in DOMAIN objs /\ a = Addressed /\ objs[a] \in Objects /\ slot \in Slots
    BY <1>1, <1>4, <1>11, ListedObject, ObjectTypes, SlotType DEF Addressed
  <2>2. Part(msg)
    BY <1>11, <2>1
  <2>3. objs[a][slot].n = 0 /\ objs[a][slot] \in Messages
    BY <1>11, <2>1 DEF Idle, Slots, Objects
  <2>4. msg.n = 0
    BY <2>3 DEF Grown, Messages
  <2> HIDE DEF msg
  <2> QED
    BY <1>11, <2>1, <2>2, <2>4 DEF Part
<1>12. a # 0 => Growing(objs[a], f, r) \/ (Idle(objs[a]) /\ ~Clean(Late))
  BY <1>4, <1>6, <1>7 DEF SlotsAre
<1>13. faults' \subseteq faults \union {"dropped", "no message"} /\ (Clean(Late) => faults' \subseteq faults \union {"dropped"})
  <2>1. CASE a = 0
    BY <2>1 DEF Addressed
  <2>2. CASE a # 0
    BY <1>10, <1>11, <1>12, <2>2
  <2> QED
    BY <2>1, <2>2
<1>14. Clean(Late)' = Clean(Late)
  BY DEF Clean
<1> DEFINE fresh == Clean(Late)
<1>15. a # 0 => \/ Idle(objs'[a]) /\ ~(fresh /\ q > 0)
                \/ q > 0 /\ Growing(objs'[a], g, q)
  BY <1>10, <1>11, <1>12
<1> HIDE DEF c, q, td, a, fresh, f
<1>16. SlotsAre(objs', channels, td, q, fresh)
  <2>1. c \in Ids /\ toClient[1].ch = c
    BY <1>4 DEF c
  <2>2. q > 0 => td[1].ch = c
    BY <1>8 DEF g
  <2>3. channels[c] # 0 => \/ Idle(objs'[channels[c]]) /\ ~(fresh /\ q > 0)
                           \/ q > 0 /\ Growing(objs'[channels[c]], td[1], q)
    BY <1>15 DEF a, g
  <2>4. \A o \in DOMAIN objs : o # channels[c] => objs'[o] = objs[o]
    BY <1>9 DEF a
  <2> QED
    BY <1>1, <1>6, <1>7, <2>1, <2>2, <2>3, <2>4, OtherSlots
<1>17. Assembled(objs', channels', toClient', Clean(Late)')
  BY <1>2, <1>7, <1>14, <1>16 DEF Assembled, td, fresh
<1>18. Numbered(toClient')
  BY <1>2, <1>3, NumberedRead DEF MessageInv
<1>19. Clean(Late)' => Told(channels', toClient')
  BY <1>1, <1>2, ToldRead DEF MessageInv
<1> QED
  BY <1>13, <1>14, <1>17, <1>18, <1>19 DEF MessageInv

\* The connection is down: nothing is left to read.
LEMMA DownMessages ==
  ASSUME MessageInv, LifeInv', client'.socket = "closed", toClient' = << >>, UNCHANGED faults, odd \subseteq odd'
  PROVE  MessageInv'
<1>1. Clean(Late)' => Clean(Late)
  BY DEF Clean
<1>2. Numbered(toClient') /\ Told(channels', toClient')
  BY DEF Numbered, Told
<1> QED
  BY <1>1, <1>2 DEF MessageInv

\* The frames of the handshake are read between messages.
LEMMA HandshakeFrameMessages ==
  ASSUME MessageInv, LifeInv', OnStart \/ OnTune \/ OnConnectionOpenOk
  PROVE  MessageInv'
<1>1. PICK m \in {"start", "tune", "connOpenOk"} : Parse(m)
  BY DEF OnStart, OnTune, OnConnectionOpenOk
<1>2. m \notin MessageKinds
  BY DEF MessageKinds, StartKinds
<1>3. UNCHANGED <<objs, channels, odd, faults>>
  BY DEF OnStart, OnTune, OnConnectionOpenOk
<1>4. /\ odd \subseteq odd' /\ faults' \subseteq faults \union {"no channel"}
      /\ \A id \in Ids : channels'[id] = channels[id]
  BY <1>3
<1>5. KeepsMessages
  BY <1>3, SameKeeps
<1> QED
  BY <1>1, <1>2, <1>4, <1>5, OtherStep

\* So every frame the client reads keeps MessageInv.
LEMMA ParseFrameMessages ==
  ASSUME MessageInv, ParseFrame
  PROVE  MessageInv'
<1>1. LifeInv'
  BY ParseFrameLife DEF MessageInv
<1>2. CASE OnStart \/ OnTune \/ OnConnectionOpenOk
  BY <1>1, <1>2, HandshakeFrameMessages
<1>3. CASE OnConnectionClose \/ OnConnectionCloseOk
  <2>1. client \in Clients
    BY DEF MessageInv, LifeInv, TypeInv, WebTypes
  <2>2. toClient' = << >> /\ UNCHANGED faults /\ odd \subseteq odd'
    BY <1>3 DEF OnConnectionClose, OnConnectionCloseOk
  <2>3. client'.socket = "closed"
    BY <1>3, <2>1 DEF OnConnectionClose, OnConnectionCloseOk, Clients
  <2> QED
    BY <1>1, <2>2, <2>3, DownMessages
<1>4. CASE OnChannelOpenOk \/ OnTopologyOk \/ OnFlowOk \/ OnConsumerOk \/ OnGetEmpty
  BY <1>4, ReplyMessages DEF OnChannelOpenOk, OnTopologyOk, OnFlowOk, OnConsumerOk, OnGetEmpty, ReplyKinds
<1>5. CASE OnSelectOk \/ OnChannelClose \/ OnChannelCloseOk
  BY <1>5, SelectOkMessages, ChannelCloseMessages
<1>6. CASE OnAck \/ OnNack
  BY <1>1, <1>6, ConfirmedMessages DEF OnAck, OnNack
<1>7. CASE OnCancel
  <2>1. Parse("cancel") /\ "cancel" \notin MessageKinds /\ UNCHANGED <<objs, channels, odd, faults>>
    BY <1>7 DEF OnCancel, MessageKinds, StartKinds
  <2>2. KeepsMessages
    BY <2>1, SameKeeps
  <2>3. odd \subseteq odd' /\ faults' \subseteq faults \union {"no channel"}
    BY <2>1
  <2>4. \A id \in Ids : channels'[id] = channels[id]
    BY <2>1
  <2> QED
    BY <1>1, <2>1, <2>2, <2>3, <2>4, OtherStep
<1>8. CASE OnReturn \/ OnDeliver \/ OnGetOk
  BY <1>1, <1>8, StartMessageMessages DEF OnReturn, OnDeliver, OnGetOk, StartKinds, Slots
<1>9. CASE OnHeader
  <2> DEFINE old == objs[Addressed][Slot(objs[Addressed])]
             h == [old EXCEPT !.size = Arrived.size, !.pos = 0, !.whole = (old.n = Arrived.n)]
  <2>1. Parse("header") /\ Part(h) /\ UNCHANGED <<channels, client, odd>>
    BY <1>9 DEF OnHeader
  <2>2. Arrived.m = "header"
    BY <2>1 DEF Parse, Arrived
  <2>3. h = Grown(old, Arrived)
    BY <2>2 DEF Grown
  <2> HIDE DEF h
  <2>4. /\ Addressed # 0 => Part(Grown(objs[Addressed][Slot(objs[Addressed])], Arrived))
        /\ Addressed = 0 => UNCHANGED <<objs, faults>>
    BY <2>1, <2>3 DEF Part
  <2> QED
    BY <1>1, <2>1, <2>4, PartMessages DEF PartKinds
<1>10. CASE OnBody
  <2> DEFINE old == objs[Addressed][Slot(objs[Addressed])]
             b == [old EXCEPT !.pos = @ + 1, !.whole = @ /\ old.n = Arrived.n]
  <2>1. Parse("body") /\ Part(b) /\ UNCHANGED <<channels, client, odd>>
    BY <1>10 DEF OnBody
  <2>2. Arrived.m = "body"
    BY <2>1 DEF Parse, Arrived
  <2>3. b = Grown(old, Arrived)
    BY <2>2 DEF Grown
  <2> HIDE DEF b
  <2>4. /\ Addressed # 0 => Part(Grown(objs[Addressed][Slot(objs[Addressed])], Arrived))
        /\ Addressed = 0 => UNCHANGED <<objs, faults>>
    BY <2>1, <2>3 DEF Part
  <2> QED
    BY <1>1, <2>1, <2>4, PartMessages DEF PartKinds
<1> QED
  BY <1>2, <1>3, <1>4, <1>5, <1>6, <1>7, <1>8, <1>9, <1>10 DEF ParseFrame

-----------------------------------------------------------------------------
(* The broker. *)

Whole(fs) == fs \in Seq(ClientFrames) /\ Chunks(fs, 0) /\ Numbered(fs)
TellsWhole == \/ UNCHANGED toClient
              \/ \E fs : /\ Whole(fs) /\ toClient' = toClient \o fs
                         /\ Clean(Late)' => Plain(fs) \/ Listening(fs)

\* Nothing is whole.
LEMMA WholeEmpty == Whole(<< >>) /\ Plain(<< >>) /\ Listening(<< >>)
BY DEF Whole, Chunks, Numbered, Plain, Listening

\* So is any one frame that is not of a message,
LEMMA WholeOther ==
  ASSUME NEW f \in ClientFrames, f.m \notin MessageKinds
  PROVE  Whole(<<f>>) /\ Plain(<<f>>)
<1> DEFINE fs == <<f>>
<1>1. fs \in Seq(ClientFrames) /\ \A i \in DOMAIN fs : fs[i] = f
  OBVIOUS
<1> HIDE DEF fs
<1>2. \A i \in DOMAIN fs : fs[i].m \notin MessageKinds
  BY <1>1
<1> QED
  BY <1>1, <1>2, OtherChunks DEF Whole, Plain, fs

\* and a message,
LEMMA WholeMessage ==
  ASSUME lastMsg \in Nat, NEW m \in StartKinds, NEW f, f.ch \in Ids, NEW tag \in Nat, NEW body \in Nat
  PROVE  /\ Whole(MessageFrames(m, f, tag, body))
         /\ Heard(f.ch) => Listening(MessageFrames(m, f, tag, body))
<1> DEFINE fs == MessageFrames(m, f, tag, body)
<1>1. fs \in Seq(ClientFrames)
  BY MessageFramesTyped DEF MessageParts
<1>2. Chunks(fs, 0) /\ Numbered(fs)
  BY MessageChunks
<1>3. \A i \in DOMAIN fs : fs[i].ch = f.ch /\ fs[i].m \notin Ending
  BY MessageSaid
<1> HIDE DEF fs
<1>4. Heard(f.ch) => Listening(fs)
  BY <1>3 DEF Listening, Closing, Ending
<1> QED
  BY <1>1, <1>2, <1>4 DEF Whole, fs

\* and one after the other,
LEMMA WholeConcat ==
  ASSUME NEW s, NEW t, Whole(s), Whole(t)
  PROVE  Whole(s \o t) /\ (Listening(s) /\ Listening(t) => Listening(s \o t))
<1>1. s \in Seq(ClientFrames) /\ t \in Seq(ClientFrames) /\ Chunks(s, 0) /\ Chunks(t, 0) /\ Numbered(s) /\ Numbered(t)
  BY DEF Whole
<1>2. Rest(s, 0)
  BY <1>1 DEF Rest
<1>3. Chunks(s \o t, 0)
  BY <1>1, <1>2, ChunksAppended
<1>4. Numbered(s \o t)
  BY <1>1, NumberedAppended
<1>5. s \o t \in Seq(ClientFrames)
  BY <1>1
<1>6. \A i \in DOMAIN (s \o t) : \/ i \in DOMAIN s /\ (s \o t)[i] = s[i]
                                 \/ \E j \in DOMAIN t : (s \o t)[i] = t[j]
  BY <1>1, ConcatElements
<1>7. Listening(s) /\ Listening(t) => Listening(s \o t)
  BY <1>6 DEF Listening
<1> QED
  BY <1>3, <1>4, <1>5, <1>7 DEF Whole

\* and a confirm,
LEMMA WholeConfirm ==
  ASSUME NEW m \in {"ack", "nack"}, NEW id \in Ids, NEW call \in Nat, NEW tag \in Nat, NEW multiple \in BOOLEAN
  PROVE  Whole(ConfirmFrame(m, id, call, tag, multiple)) /\ Plain(ConfirmFrame(m, id, call, tag, multiple))
         /\ Listening(ConfirmFrame(m, id, call, tag, multiple))
<1> DEFINE fs == ConfirmFrame(m, id, call, tag, multiple)
<1>1. fs \in Seq(ClientFrames) /\ Len(fs) = 1 /\ fs[1].m = m
  BY ConfirmFrameTyped
<1> HIDE DEF fs
<1>2. DOMAIN fs = {1} /\ m \notin MessageKinds
  BY <1>1 DEF MessageKinds, StartKinds
<1>3. \A i \in DOMAIN fs : fs[i].m \notin MessageKinds /\ fs[i].m \notin Closing
  BY <1>1, <1>2 DEF Closing
<1> QED
  BY <1>1, <1>3, OtherChunks DEF Whole, Plain, Listening, fs

\* and a frame of the connection,
LEMMA WholeSimple ==
  ASSUME NEW m \in {"start", "tune", "connOpenOk", "connClose", "connCloseOk"}
  PROVE  Whole(Simple(m)) /\ Plain(Simple(m))
<1> DEFINE fs == Simple(m)
<1>1. fs \in Seq(ClientFrames) /\ \A i \in DOMAIN fs : fs[i].m = m
  BY SimpleSaid
<1>2. m \notin MessageKinds
  BY DEF MessageKinds, StartKinds
<1> HIDE DEF fs
<1> QED
  BY <1>1, <1>2, OtherChunks DEF Whole, Plain, fs

\* and a reply.
LEMMA WholeOut ==
  ASSUME NEW m \in ReplyKinds \union {"close", "connClose"}, NEW f \in ServerFrames, NEW tag \in Nat
  PROVE  Whole(Out(m, f, tag)) /\ Plain(Out(m, f, tag))
<1> DEFINE g == [m |-> m, ch |-> f.ch, call |-> f.call, tag |-> tag]
<1>1. Out(m, f, tag) = <<g>> /\ g \in ClientFrames /\ g.m = m
  BY OutFrame
<1>2. m \notin MessageKinds
  BY DEF ReplyKinds, MessageKinds, StartKinds
<1> HIDE DEF g
<1> QED
  BY <1>1, <1>2, WholeOther

\* A step of the broker that tells only whole messages keeps MessageInv.
LEMMA WholeStep ==
  ASSUME MessageInv, LifeInv', UNCHANGED <<objs, channels, client, faults>>, odd \subseteq odd', TellsWhole
  PROVE  MessageInv'
<1>1. CASE UNCHANGED toClient
  BY <1>1, PlainUnread
<1>2. ASSUME NEW fs, Whole(fs), toClient' = toClient \o fs, Clean(Late)' => Plain(fs) \/ Listening(fs)
      PROVE  MessageInv'
  BY <1>2, SaidStep DEF Whole
<1> QED
  BY <1>1, <1>2 DEF TellsWhole

\* In particular the handling of a frame.
LEMMA ReadsWhole ==
  ASSUME MessageInv, LifeInv', NEW op \in ChannelOps, Reads(op), odd \subseteq odd', TellsWhole
  PROVE  MessageInv'
BY WholeStep DEF Reads

\* What the branches that several requests share say.
LEMMA BranchesWhole ==
  ASSUME TypeInv, NEW op \in ChannelOps, Reads(op)
  PROVE  /\ Nothing \/ RefusesChannel \/ ClosesConnection \/ NotOpen => TellsWhole /\ UNCHANGED odd
         /\ \A m \in ReplyKinds, tag \in Nat : Says(m, tag) => TellsWhole /\ UNCHANGED odd
<1>1. Asked \in ServerFrames
  BY ReadOp
<1>2. ASSUME NEW m \in ReplyKinds \union {"close", "connClose"}, NEW tag \in Nat, Answers(Out(m, Asked, tag))
      PROVE  TellsWhole
  BY <1>1, <1>2, WholeOut DEF Answers, TellsWhole
<1>3. ASSUME NEW m \in ReplyKinds, NEW tag \in Nat, Says(m, tag) PROVE TellsWhole /\ UNCHANGED odd
  BY <1>2, <1>3 DEF Says
<1>4. Nothing => TellsWhole /\ UNCHANGED odd
  BY DEF Nothing, TellsWhole
<1>5. ClosesConnection => TellsWhole /\ UNCHANGED odd
  BY <1>2 DEF ClosesConnection
<1>6. RefusesChannel => TellsWhole /\ UNCHANGED odd
  BY <1>2, <1>4 DEF RefusesChannel, TellsWhole
<1>7. NotOpen => TellsWhole /\ UNCHANGED odd
  BY <1>4, <1>5 DEF NotOpen
<1> QED
  BY <1>3, <1>4, <1>5, <1>6, <1>7

\* The replies of the broker are whole.
LEMMA AnswersMessages ==
  ASSUME MessageInv,
         \/ BrokerOpen \/ BrokerClose \/ BrokerCloseOk
         \/ BrokerTopology \/ BrokerPurge \/ BrokerConsume \/ BrokerCancel \/ BrokerMode \/ BrokerSelect
         \/ BrokerSettle \/ BrokerTx
  PROVE  MessageInv'
<1>1. LifeInv /\ LifeInv'
  BY BrokerLife, BrokerCloseOkLife, BrokerAnswersLife DEF MessageInv
<1>2. TypeInv
  BY <1>1 DEF LifeInv
<1>3. PICK op \in {"open", "close", "closeOk", "topology", "purge", "consume", "cancel", "mode", "select", "settle", "tx"} :
        Reads(op)
  BY DEF BrokerOpen, BrokerClose, BrokerCloseOk, BrokerTopology, BrokerPurge, BrokerConsume, BrokerCancel, BrokerMode,
         BrokerSelect, BrokerSettle, BrokerTx
<1>4. op \in ChannelOps
  BY DEF ChannelOps, Awaited
<1>5. {"openOk", "closeOk", "topologyOk", "consumerOk", "modeOk", "selectOk"} \subseteq ReplyKinds
  BY DEF ReplyKinds
<1>6. Asked.tag \in Nat /\ 0 \in Nat
  BY <1>2, <1>3, <1>4, ReadOp
<1>7. /\ Nothing \/ RefusesChannel \/ ClosesConnection \/ NotOpen => TellsWhole /\ UNCHANGED odd
      /\ \A m \in ReplyKinds, tag \in Nat : Says(m, tag) => TellsWhole /\ UNCHANGED odd
  BY <1>2, <1>3, <1>4, BranchesWhole
<1>8. \/ Nothing \/ RefusesChannel \/ ClosesConnection \/ NotOpen
      \/ \E m \in ReplyKinds, tag \in Nat : Says(m, tag)
      \/ UNCHANGED <<toClient, odd>>
  <2>1. CASE BrokerOpen \/ BrokerClose
    BY <1>5, <1>6, <2>1 DEF BrokerOpen, BrokerClose
  <2>2. CASE BrokerCloseOk
    BY <2>2 DEF BrokerCloseOk
  <2>3. CASE BrokerTopology \/ BrokerPurge
    BY <1>5, <1>6, <2>3 DEF BrokerTopology, BrokerPurge
  <2>4. CASE BrokerConsume \/ BrokerCancel
    BY <1>5, <1>6, <2>4 DEF BrokerConsume, BrokerCancel
  <2>5. CASE BrokerMode \/ BrokerSelect
    BY <1>5, <1>6, <2>5 DEF BrokerMode, BrokerSelect
  <2>6. CASE BrokerSettle \/ BrokerTx
    BY <2>6 DEF BrokerSettle, BrokerTx
  <2> QED
    BY <2>1, <2>2, <2>3, <2>4, <2>5, <2>6
<1>9. TellsWhole /\ UNCHANGED odd
  BY <1>7, <1>8 DEF TellsWhole
<1> QED
  BY <1>1, <1>3, <1>4, <1>9, ReadsWhole

\* A channel that runs is heard while the broker reads its frames.
LEMMA AskedHeard ==
  ASSUME LifeInv, NEW op \in ChannelOps, Reads(op), On.running, odd \subseteq odd', Clean(Late)'
  PROVE  Heard(Asked.ch)
<1>1. broker.state = "running" /\ broker.ch[Asked.ch].running
  BY DEF Reads, On
<1>2. Asked.ch \in Ids
  <2>1. TypeInv
    BY DEF LifeInv
  <2> QED
    BY <2>1, ReadOp
<1>3. Clean(Crossed)
  BY DEF Clean, Late
<1> QED
  BY <1>1, <1>2, <1>3, RunningHeard

\* The answer to a get is one message or GetEmpty.
LEMMA GetMessages ==
  ASSUME MessageInv, BrokerGet
  PROVE  MessageInv'
<1>1. LifeInv /\ LifeInv'
  BY BrokerGetLife DEF MessageInv
<1>2. TypeInv /\ Reads("get") /\ "get" \in ChannelOps /\ "getEmpty" \in ReplyKinds /\ "getOk" \in StartKinds
  BY <1>1 DEF LifeInv, BrokerGet, ChannelOps, Awaited, ReplyKinds, StartKinds
<1>3. lastMsg \in Nat /\ Asked.ch \in Ids /\ Asked.call \in Nat
  BY <1>2, ReadOp, HistoryTypes
<1>4. /\ Nothing \/ RefusesChannel \/ ClosesConnection \/ NotOpen => TellsWhole /\ UNCHANGED odd
      /\ \A m \in ReplyKinds, tag \in Nat : Says(m, tag) => TellsWhole /\ UNCHANGED odd
  BY <1>2, BranchesWhole
<1>5. ASSUME NEW body \in 0..MaxBody, On.running, UNCHANGED odd,
             Answers(MessageFrames("getOk", Asked, Asked.call, body))
      PROVE  TellsWhole
  <2>1. body \in Nat
    <3>1. MaxBody \in Nat
      BY WebClientAssumption
    <3> QED
      BY <3>1
  <2>2. /\ Whole(MessageFrames("getOk", Asked, Asked.call, body))
        /\ Heard(Asked.ch) => Listening(MessageFrames("getOk", Asked, Asked.call, body))
    BY <1>2, <1>3, <2>1, WholeMessage
  <2>3. Clean(Late)' => Heard(Asked.ch)
    BY <1>1, <1>2, <1>3, <1>5, AskedHeard
  <2> QED
    BY <1>5, <2>2, <2>3 DEF Answers, TellsWhole
<1>6. TellsWhole /\ UNCHANGED odd
  BY <1>2, <1>4, <1>5 DEF BrokerGet
<1> QED
  BY <1>1, <1>2, <1>6, ReadsWhole

\* A returned message comes with its confirm before or after it, never inside.
LEMMA ReturnsWhole ==
  ASSUME LifeInv, Reads("publish"), On.running, BrokerReturns
  PROVE  TellsWhole
<1>1. TypeInv /\ "publish" \in ChannelOps /\ "return" \in StartKinds
  BY DEF LifeInv, ChannelOps, StartKinds
<1>2. Asked.ch \in Ids /\ Asked.call \in Nat /\ On \in Channels /\ lastMsg \in Nat
  BY <1>1, ReadOp, HistoryTypes
<1>3. Total \in Nat
  BY <1>2, CountedTyped
<1>4. PICK mandatory \in BOOLEAN :
        LET due == mandatory /\ On.waiting
            first == IF due THEN ConfirmFrame("ack", Asked.ch, Asked.call, Total, TRUE) ELSE << >>
            message == IF mandatory THEN MessageFrames("return", Asked, 0, 0) ELSE << >>
            alone == IF On.confirm THEN ConfirmFrame("ack", Asked.ch, Asked.call, Total, FALSE) ELSE << >>
        IN Answers(first \o message \o alone)
  BY DEF BrokerReturns
<1> DEFINE due == mandatory /\ On.waiting
           first == IF due THEN ConfirmFrame("ack", Asked.ch, Asked.call, Total, TRUE) ELSE << >>
           message == IF mandatory THEN MessageFrames("return", Asked, 0, 0) ELSE << >>
           alone == IF On.confirm THEN ConfirmFrame("ack", Asked.ch, Asked.call, Total, FALSE) ELSE << >>
<1>5. Answers(first \o message \o alone)
  BY <1>4
<1>6. Whole(first) /\ Listening(first)
  <2>1. Whole(ConfirmFrame("ack", Asked.ch, Asked.call, Total, TRUE))
        /\ Listening(ConfirmFrame("ack", Asked.ch, Asked.call, Total, TRUE))
    BY <1>2, <1>3, WholeConfirm
  <2>2. CASE due
    BY <2>1, <2>2
  <2>3. CASE ~due
    BY <2>3, WholeEmpty
  <2> QED
    BY <2>2, <2>3
<1>7. Whole(message) /\ (Heard(Asked.ch) => Listening(message))
  <2>1. Whole(MessageFrames("return", Asked, 0, 0))
        /\ (Heard(Asked.ch) => Listening(MessageFrames("return", Asked, 0, 0)))
    BY <1>1, <1>2, WholeMessage
  <2> QED
    BY <2>1, WholeEmpty
<1>8. Whole(alone) /\ Listening(alone)
  <2>1. Whole(ConfirmFrame("ack", Asked.ch, Asked.call, Total, FALSE))
        /\ Listening(ConfirmFrame("ack", Asked.ch, Asked.call, Total, FALSE))
    BY <1>2, <1>3, WholeConfirm
  <2>2. CASE On.confirm
    BY <2>1, <2>2
  <2>3. CASE ~On.confirm
    BY <2>3, WholeEmpty
  <2> QED
    BY <2>2, <2>3
<1> HIDE DEF first, message, alone
<1>9. Whole(first \o message) /\ (Heard(Asked.ch) => Listening(first \o message))
  BY <1>6, <1>7, WholeConcat
<1>10. Whole(first \o message \o alone) /\ (Heard(Asked.ch) => Listening(first \o message \o alone))
  BY <1>8, <1>9, WholeConcat
<1>11. Clean(Late)' => Heard(Asked.ch)
  BY <1>1, AskedHeard DEF BrokerReturns
<1> QED
  BY <1>5, <1>10, <1>11 DEF Answers, TellsWhole

\* Nor does a publish put frames into a message.
LEMMA PublishMessages ==
  ASSUME MessageInv, BrokerPublish
  PROVE  MessageInv'
<1>1. LifeInv /\ LifeInv'
  BY BrokerPublishLife DEF MessageInv
<1>2. TypeInv /\ Reads("publish") /\ "publish" \in ChannelOps
  BY <1>1 DEF LifeInv, BrokerPublish, ChannelOps
<1>3. Asked.ch \in Ids /\ Asked.call \in Nat /\ On \in Channels /\ Asked \in ServerFrames
  BY <1>2, ReadOp
<1>4. Nothing \/ RefusesChannel => TellsWhole /\ odd \subseteq odd'
  BY <1>2, BranchesWhole
<1>5. BrokerRoutes => TellsWhole /\ odd \subseteq odd'
  BY <1>4 DEF BrokerRoutes, TellsWhole
<1>6. BrokerRejects => TellsWhole /\ odd \subseteq odd'
  <2>1. Whole(ConfirmFrame("nack", Asked.ch, Asked.call, Total, FALSE))
        /\ Plain(ConfirmFrame("nack", Asked.ch, Asked.call, Total, FALSE))
    BY <1>3, CountedTyped, WholeConfirm
  <2> QED
    BY <1>4, <2>1 DEF BrokerRejects, Answers, TellsWhole
<1>7. On.running /\ BrokerReturns => TellsWhole /\ odd \subseteq odd'
  BY <1>1, <1>2, ReturnsWhole DEF BrokerReturns
<1>8. BrokerRefusesUser => TellsWhole /\ odd \subseteq odd'
  <2>1. Whole(Out("close", Asked, 0))
        /\ Plain(Out("close", Asked, 0))
    BY <1>3, WholeOut
  <2> QED
    BY <2>1 DEF BrokerRefusesUser, Answers, TellsWhole
<1>9. BrokerRepliesDirectly => TellsWhole /\ odd \subseteq odd'
  BY DEF BrokerRepliesDirectly, TellsWhole
<1>10. TellsWhole /\ odd \subseteq odd'
  BY <1>4, <1>5, <1>6, <1>7, <1>8, <1>9 DEF BrokerPublish
<1> QED
  BY <1>1, <1>2, <1>10, ReadsWhole

\* Confirms, deliveries and cancels come as a whole, and a delivery that is not late
\* comes on a channel that runs.
LEMMA UnaskedMessages ==
  ASSUME MessageInv, NEW id \in Ids,
         BrokerConfirms(id) \/ BrokerChecks(id) \/ BrokerDelivers(id) \/ BrokerCancelsConsumer(id)
  PROVE  MessageInv'
<1>1. LifeInv /\ LifeInv'
  BY ConfirmsLife, ChecksLife, DeliversLife, CancelsLife DEF MessageInv
<1>2. TypeInv
  BY <1>1 DEF LifeInv
<1>3. broker.ch[id] \in Channels /\ lastMsg \in Nat /\ id \in Nat
  BY <1>2, HistoryTypes, WebClientAssumption DEF Brokers
<1>4. CASE BrokerConfirms(id)
  <2>1. Len(broker.ch[id].published) \in Nat
    BY <1>3 DEF Channels
  <2>2. Whole(ConfirmsUpTo(id))
        /\ Plain(ConfirmsUpTo(id))
    BY <2>1, WholeConfirm DEF ConfirmsUpTo
  <2>3. TellsWhole
    BY <1>4, <2>2 DEF BrokerConfirms, Answers, TellsWhole
  <2>4. UNCHANGED <<objs, channels, client, faults>> /\ odd \subseteq odd'
    BY <1>4 DEF BrokerConfirms
  <2> QED
    BY <1>1, <2>3, <2>4, WholeStep
<1>5. CASE BrokerDelivers(id)
  <2>1. PICK d \in Deliveries : \E body \in Nat :
           /\ d.ch = id
           /\ Answers(MessageFrames("deliver", d, d.tag, body))
           /\ odd \subseteq odd'
           /\ "late delivery" \notin odd' => d.tag \in broker.ch[id].consumers
    BY <1>2, <1>5, DeliversMessage
  <2>2. PICK body \in Nat :
           /\ d.ch = id
           /\ Answers(MessageFrames("deliver", d, d.tag, body))
           /\ odd \subseteq odd'
           /\ "late delivery" \notin odd' => d.tag \in broker.ch[id].consumers
    BY <2>1
  <2>3. d.ch \in Ids /\ d.tag \in Nat /\ "deliver" \in StartKinds
    BY DEF Deliveries, StartKinds
  <2>4. /\ Whole(MessageFrames("deliver", d, d.tag, body))
        /\ Heard(d.ch) => Listening(MessageFrames("deliver", d, d.tag, body))
    <3> DEFINE tag == d.tag
    <3>1. tag \in Nat
      BY <2>3
    <3> HIDE DEF tag
    <3>2. /\ Whole(MessageFrames("deliver", d, tag, body))
          /\ Heard(d.ch) => Listening(MessageFrames("deliver", d, tag, body))
      BY <1>3, <2>3, <3>1, WholeMessage
    <3> QED
      BY <3>2 DEF tag
  <2>5. Clean(Late)' => Heard(d.ch)
    <3>1. Clean(Late)' => Clean(Crossed) /\ "late delivery" \notin odd'
      BY <2>2 DEF Clean, Late
    <3>2. broker.ch[id].consumers # {} => broker.ch[id].running
      BY <1>1, ChannelRuns DEF LifeInv
    <3>3. broker.state = "running"
      BY <1>5 DEF BrokerDelivers
    <3> QED
      BY <1>1, <2>2, <3>1, <3>2, <3>3, RunningHeard
  <2>6. TellsWhole
    BY <2>2, <2>4, <2>5 DEF Answers, TellsWhole
  <2>7. UNCHANGED <<objs, channels, client, faults>>
    BY <1>5 DEF BrokerDelivers
  <2> QED
    BY <1>1, <2>2, <2>6, <2>7, WholeStep
<1>6. CASE BrokerCancelsConsumer(id)
  <2>1. PICK tag \in broker.ch[id].consumers : Answers(<<[m |-> "cancel", ch |-> id, tag |-> tag]>>)
    BY <1>6 DEF BrokerCancelsConsumer
  <2>2. tag \in Nat
    BY <1>3 DEF Channels
  <2> DEFINE r == [m |-> "cancel", ch |-> id, tag |-> tag]
  <2>3. r \in ClientFrames
    BY <1>3, <2>2 DEF ClientFrames, CancelFrames
  <2>4. r.m \notin MessageKinds
    BY DEF MessageKinds, StartKinds
  <2>5. Answers(<<r>>)
    BY <2>1
  <2> HIDE DEF r
  <2>6. TellsWhole
    BY <2>3, <2>4, <2>5, WholeOther DEF Answers, TellsWhole
  <2>7. UNCHANGED <<objs, channels, client, faults, odd>>
    BY <1>6 DEF BrokerCancelsConsumer
  <2> QED
    BY <1>1, <2>6, <2>7, WholeStep
<1>7. CASE BrokerChecks(id)
  <2>1. UNCHANGED <<objs, channels, client, toClient, odd, faults>>
    BY <1>7 DEF BrokerChecks
  <2> QED
    BY <1>1, <2>1, PlainUnread
<1> QED
  BY <1>4, <1>5, <1>6, <1>7

\* The frames of the connection are on no channel.
LEMMA ConnectionMessages ==
  ASSUME MessageInv, BrokerHandshakes \/ BrokerDisconnects \/ BrokerDiscards \/ BrokerStops
  PROVE  MessageInv'
<1>1. LifeInv'
  BY HandshakesLife, DisconnectsLife, StopsLife DEF MessageInv
<1>2. toClient \in Seq(ClientFrames)
  BY DEF MessageInv, LifeInv, TypeInv, WebTypes
<1>3. \A m \in {"start", "tune", "connOpenOk", "connClose", "connCloseOk"} : Answers(Simple(m)) => TellsWhole
  BY WholeSimple DEF Answers, TellsWhole
<1>4. CASE BrokerHandshakes
  <2>1. PICK m \in {"start", "tune", "connOpenOk", "connClose"} :
          \E st, op : Handshake(op, Simple(m), st) \/ Handshake(op, << >>, st)
    BY <1>4 DEF BrokerHandshakes
  <2>2. UNCHANGED <<objs, channels, client, odd, faults>> /\ (Answers(Simple(m)) \/ Answers(<< >>))
    BY <2>1 DEF Handshake
  <2>3. TellsWhole
    BY <1>3, <2>2, WholeEmpty DEF Answers, TellsWhole
  <2> QED
    BY <1>1, <2>2, <2>3, WholeStep
<1>5. CASE BrokerDisconnects \/ BrokerDiscards
  <2>1. UNCHANGED <<objs, channels, client, faults>> /\ odd \subseteq odd'
    BY <1>5 DEF BrokerDisconnects, BrokerDiscards
  <2>2. Answers(Simple("connCloseOk")) \/ UNCHANGED toClient
    BY <1>5 DEF BrokerDisconnects, BrokerDiscards
  <2>3. TellsWhole
    BY <1>3, <2>2 DEF TellsWhole
  <2> QED
    BY <1>1, <2>1, <2>3, WholeStep
<1>6. CASE BrokerStops
  <2>1. UNCHANGED <<objs, channels, client, odd, faults>> /\ Answers(Simple("connClose"))
    BY <1>6 DEF BrokerStops, Simple
  <2>2. TellsWhole
    BY <1>3, <2>1
  <2> QED
    BY <1>1, <2>1, <2>2, WholeStep
<1> QED
  BY <1>4, <1>5, <1>6

\* A lost socket leaves no frame to read.
LEMMA LostMessages ==
  ASSUME MessageInv, SocketLost
  PROVE  MessageInv'
<1>1. client \in Clients
  BY DEF MessageInv, LifeInv, TypeInv, WebTypes
<1>2. client'.socket = "closed" /\ toClient' = << >> /\ UNCHANGED faults /\ odd \subseteq odd'
  BY <1>1 DEF SocketLost, Clients
<1> QED
  BY <1>2, LostLife, DownMessages DEF MessageInv

-----------------------------------------------------------------------------
(* The theorem. *)

\* Every step keeps MessageInv.
LEMMA MessageStep == MessageInv /\ [Next]_vars => MessageInv'
<1> SUFFICES ASSUME MessageInv, [Next]_vars PROVE MessageInv'
  OBVIOUS
<1>1. CASE PageCall \/ RunJob \/ ParseFrame
  BY <1>1, PageCallMessages, RunJobMessages, ParseFrameMessages
<1>2. CASE BrokerReads
  <2>1. CASE BrokerHandshakes \/ BrokerDisconnects \/ BrokerDiscards
    BY <2>1, ConnectionMessages
  <2> QED
    BY <1>2, <2>1, AnswersMessages, GetMessages, PublishMessages DEF BrokerReads
<1>3. ASSUME NEW id \in Ids,
             BrokerConfirms(id) \/ BrokerChecks(id) \/ BrokerDelivers(id) \/ BrokerCancelsConsumer(id)
      PROVE  MessageInv'
  BY <1>3, UnaskedMessages
<1>4. CASE BrokerStops \/ SocketLost
  BY <1>4, ConnectionMessages, LostMessages
<1>5. CASE UNCHANGED vars
  <2>1. LifeInv'
    BY <1>5, LifeStep DEF MessageInv
  <2>2. UNCHANGED <<objs, channels, client, toClient, odd, faults>>
    BY <1>5 DEF vars
  <2> QED
    BY <2>1, <2>2, PlainUnread
<1> QED
  BY <1>1, <1>2, <1>3, <1>4, <1>5 DEF Next

\* MessageInv holds in every state.
LEMMA MessageAlways == Spec => []MessageInv
<1>1. Init => MessageInv
  BY MessageInit
<1>2. MessageInv /\ [Next]_vars => MessageInv'
  BY MessageStep
<1> QED
  BY <1>1, <1>2, PTL DEF Spec

\* The client hands the page no message put together of parts of two, although deliveries,
\* the answers to gets and returned messages share the channel and a delivery may come on
\* an id that is closed or open again.  Where no delivery came late and no closes crossed,
\* no part of a message arrives for an object that has begun none.
THEOREM WholeMessages == Spec => []MessagesWhole
<1>1. MessageInv => MessagesWhole
  BY DEF MessageInv, MessagesWhole, Clean, Late, Crossed
<1> QED
  BY <1>1, MessageAlways, PTL

=============================================================================
