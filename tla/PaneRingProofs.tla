--------------------------- MODULE PaneRingProofs ---------------------------
(***************************************************************************)
(* What the ring operators preserve, for every capacity and every ring: a  *)
(* ring stays a ring, only its newest segment can be empty, and its replay *)
(* is a sequence of frames.                                                *)
(***************************************************************************)
EXTENDS PaneRing, SequenceFacts

RingOK(r, Byte) ==
    /\ r \in Ring(Byte)
    /\ r.segments # <<>>
    /\ OnlyNewestEmpty(r)

(* A new ring (ReplayRing::new) is well formed. *)
LEMMA RingNewOK ==
    ASSUME NEW Byte, NEW s \in Size
    PROVE  RingOK(RingNew(s), Byte)
<1>1. <<>> \in Seq(Byte)
  OBVIOUS
<1>2. [size |-> s, bytes |-> <<>>] \in Segment(Byte)
  BY <1>1 DEF Segment
<1>3. <<[size |-> s, bytes |-> <<>>]>> \in Seq(Segment(Byte))
  BY <1>2
<1> QED
  BY <1>3 DEF RingNew, RingOK, Ring, OnlyNewestEmpty

(* Draining one byte from a ring whose bytes leave no empty segment ahead  *)
(* of the newest one.                                                      *)
LEMMA DrainOneOK ==
    ASSUME NEW Byte, NEW segs \in Seq(Segment(Byte)), segs # <<>>,
           \A i \in 1 .. Len(segs) : segs[i].bytes # <<>>
    PROVE  /\ DrainOne(segs) \in Seq(Segment(Byte))
           /\ DrainOne(segs) # <<>>
           /\ \A i \in 1 .. Len(DrainOne(segs)) - 1 :
                  DrainOne(segs)[i].bytes # <<>>
<1> DEFINE rest == Tail(segs[1].bytes)
<1>1. Len(segs) \in Nat /\ Len(segs) >= 1
  OBVIOUS
<1>2. segs[1] \in Segment(Byte)
  BY <1>1
<1>3. segs[1].bytes \in Seq(Byte) /\ segs[1].bytes # <<>> /\ segs[1].size \in Size
  BY <1>1, <1>2 DEF Segment
<1>4. rest \in Seq(Byte)
  BY <1>3, HeadTailProperties
<1>5. CASE rest = <<>> /\ Len(segs) > 1
  <2>1. DrainOne(segs) = Tail(segs)
    BY <1>5 DEF DrainOne
  <2>2. /\ Tail(segs) \in Seq(Segment(Byte))
        /\ Len(Tail(segs)) = Len(segs) - 1
        /\ \A i \in 1 .. Len(Tail(segs)) : Tail(segs)[i] = segs[i + 1]
    BY HeadTailProperties
  <2> QED
    BY <2>1, <2>2, <1>1, <1>5, SMTT(30)
<1>6. CASE ~(rest = <<>> /\ Len(segs) > 1)
  <2> DEFINE first == WithBytes(segs[1], rest)
             out == [segs EXCEPT ![1] = first]
  <2>1. DrainOne(segs) = out
    BY <1>1, <1>6 DEF DrainOne
  <2>2. first \in Segment(Byte)
    BY <1>3, <1>4 DEF Segment, WithBytes
  <2>3. /\ out \in Seq(Segment(Byte))
        /\ Len(out) = Len(segs)
        /\ \A j \in 1 .. Len(segs) : out[j] = IF j = 1 THEN first ELSE segs[j]
    BY <1>1, <2>2, ExceptSeq
  <2>4. first.bytes = rest
    BY DEF WithBytes
  <2>5. \A i \in 1 .. Len(out) - 1 : out[i].bytes # <<>>
    <3> SUFFICES ASSUME NEW i \in 1 .. Len(out) - 1 PROVE out[i].bytes # <<>>
      OBVIOUS
    <3>1. Len(segs) > 1 /\ i \in 1 .. Len(segs)
      BY <2>3, <1>1
    <3>2. rest # <<>>
      BY <3>1, <1>6
    <3>3. out[i] = IF i = 1 THEN first ELSE segs[i]
      BY <2>3, <3>1
    <3> HIDE DEF out, first, rest
    <3> QED
      BY <2>4, <3>1, <3>2, <3>3
  <2> QED
    BY <2>1, <2>3, <2>5, <1>1
<1> QED
  BY <1>5, <1>6

(* append: one byte more, at most one byte less at the front. *)
LEMMA RingPushOK ==
    ASSUME NEW Byte, NEW r, RingOK(r, Byte), NEW b \in Byte
    PROVE  RingOK(RingPush(r, b), Byte)
<1> DEFINE n == Len(r.segments)
           tail == WithBytes(r.segments[n], Append(r.segments[n].bytes, b))
           grown == [r.segments EXCEPT ![n] = tail]
<1>1. /\ r.segments \in Seq(Segment(Byte)) /\ r.len \in Nat
      /\ n \in Nat /\ n >= 1
  BY DEF RingOK, Ring
<1>2. r.segments[n] \in Segment(Byte)
  BY <1>1
<1>3. tail \in Segment(Byte) /\ tail.bytes = Append(r.segments[n].bytes, b)
  <2>1. r.segments[n].bytes \in Seq(Byte) /\ r.segments[n].size \in Size
    BY <1>2 DEF Segment
  <2>2. Append(r.segments[n].bytes, b) \in Seq(Byte)
    BY <2>1
  <2> QED
    BY <2>1, <2>2 DEF Segment, WithBytes
<1>4. tail.bytes # <<>>
  BY <1>2, <1>3, AppendProperties DEF Segment
<1>6. /\ grown \in Seq(Segment(Byte))
      /\ Len(grown) = n
      /\ \A j \in 1 .. n : grown[j] = IF j = n THEN tail ELSE r.segments[j]
  BY <1>1, <1>3, ExceptSeq
<1>7. \A i \in 1 .. Len(grown) : grown[i].bytes # <<>>
  BY <1>1, <1>4, <1>6 DEF RingOK, OnlyNewestEmpty
<1>8. CASE RingCap = 1
  <2> DEFINE one == [size |-> Newest(r).size, bytes |-> <<b>>]
  <2>1. one \in Segment(Byte)
    BY <1>2 DEF Segment, Newest
  <2>2. <<one>> \in Seq(Segment(Byte)) /\ Len(<<one>>) = 1 /\ <<one>> # <<>>
    BY <2>1
  <2>3. RingPush(r, b) = [segments |-> <<one>>, len |-> 1]
    BY <1>8 DEF RingPush
  <2> QED
    BY <2>2, <2>3 DEF RingOK, Ring, OnlyNewestEmpty
<1>9. CASE RingCap # 1 /\ r.len < RingCap
  <2>1. RingPush(r, b) = [segments |-> grown, len |-> r.len + 1]
    BY <1>9 DEF RingPush
  <2> QED
    BY <2>1, <1>1, <1>6, <1>7 DEF RingOK, Ring, OnlyNewestEmpty
<1>10. CASE RingCap # 1 /\ ~(r.len < RingCap)
  <2>1. RingPush(r, b) = [segments |-> DrainOne(grown), len |-> r.len]
    BY <1>10 DEF RingPush
  <2>2. grown # <<>>
    BY <1>1, <1>6
  <2>3. /\ DrainOne(grown) \in Seq(Segment(Byte))
        /\ DrainOne(grown) # <<>>
        /\ \A i \in 1 .. Len(DrainOne(grown)) - 1 :
               DrainOne(grown)[i].bytes # <<>>
    BY <1>6, <1>7, <2>2, DrainOneOK
  <2> DEFINE kept == DrainOne(grown)
  <2>4. RingPush(r, b) = [segments |-> kept, len |-> r.len]
    BY <2>1
  <2>5. /\ kept \in Seq(Segment(Byte))
        /\ kept # <<>>
        /\ \A i \in 1 .. Len(kept) - 1 : kept[i].bytes # <<>>
    BY <2>3
  <2> HIDE DEF kept
  <2> QED
    BY <2>4, <2>5, <1>1 DEF RingOK, Ring, OnlyNewestEmpty
<1> QED
  BY <1>8, <1>9, <1>10

(* Merging the two oldest segments. *)
LEMMA MergeOldestOK ==
    ASSUME NEW Byte, NEW segs \in Seq(Segment(Byte)), segs # <<>>,
           \A i \in 1 .. Len(segs) : segs[i].bytes # <<>>
    PROVE  /\ MergeOldest(segs) \in Seq(Segment(Byte))
           /\ \A i \in 1 .. Len(MergeOldest(segs)) :
                  MergeOldest(segs)[i].bytes # <<>>
<1>1. CASE ~(Len(segs) >= MaxSegments)
  BY <1>1 DEF MergeOldest
<1>2. CASE Len(segs) >= MaxSegments
  <2> DEFINE both == segs[1].bytes \o segs[2].bytes
             head == WithBytes(segs[2], both)
             joined == [segs EXCEPT ![2] = head]
  <2>1. Len(segs) \in Nat /\ Len(segs) >= 2
    BY <1>2, RingAssumption
  <2>2. segs[1] \in Segment(Byte) /\ segs[2] \in Segment(Byte)
    BY <2>1
  <2>3. /\ segs[1].bytes \in Seq(Byte) /\ segs[2].bytes \in Seq(Byte)
        /\ segs[2].size \in Size
        /\ segs[2] = [size |-> segs[2].size, bytes |-> segs[2].bytes]
    BY <2>2 DEF Segment
  <2>4. both \in Seq(Byte) /\ both # <<>>
    BY <2>1, <2>3, ConcatProperties, ConcatEqualIffEmpty
  <2>5. head \in Segment(Byte)
    BY <2>3, <2>4 DEF Segment, WithBytes
  <2>6. /\ joined \in Seq(Segment(Byte))
        /\ Len(joined) = Len(segs)
        /\ \A j \in 1 .. Len(segs) : joined[j] = IF j = 2 THEN head ELSE segs[j]
    BY <2>1, <2>5, ExceptSeq
  <2>7. MergeOldest(segs) = Tail(joined)
    BY <1>2 DEF MergeOldest
  <2>8. joined # <<>>
    BY <2>1, <2>6
  <2>9. /\ Tail(joined) \in Seq(Segment(Byte))
        /\ Len(Tail(joined)) = Len(segs) - 1
        /\ \A i \in 1 .. Len(Tail(joined)) : Tail(joined)[i] = joined[i + 1]
    BY <2>6, <2>8, HeadTailProperties
  <2>10. \A i \in 1 .. Len(Tail(joined)) : Tail(joined)[i].bytes # <<>>
    BY <2>1, <2>4, <2>6, <2>9 DEF WithBytes
  <2> QED
    BY <2>7, <2>9, <2>10
<1> QED
  BY <1>1, <1>2

(* resize: the newest segment takes the geometry or a new one is opened.   *)
LEMMA RingResizeOK ==
    ASSUME NEW Byte, NEW r, RingOK(r, Byte), NEW s \in Size
    PROVE  RingOK(RingResize(r, s), Byte)
<1> DEFINE n == Len(r.segments)
           segs == r.segments
<1>1. /\ segs \in Seq(Segment(Byte)) /\ r.len \in Nat
      /\ n \in Nat /\ n >= 1
      /\ r = [segments |-> segs, len |-> r.len]
  BY DEF RingOK, Ring
<1>2. segs[n] \in Segment(Byte)
  BY <1>1
<1>3. CASE ~RingResizes(r, s)
  BY <1>3 DEF RingResize
<1>4. CASE RingResizes(r, s) /\ segs[n].bytes = <<>>
  <2> DEFINE last == [size |-> s, bytes |-> <<>>]
             out == [segs EXCEPT ![n] = last]
  <2>1. last \in Segment(Byte)
    BY DEF Segment
  <2>2. /\ out \in Seq(Segment(Byte))
        /\ Len(out) = n
        /\ \A j \in 1 .. n : out[j] = IF j = n THEN last ELSE segs[j]
    BY <1>1, <2>1, ExceptSeq
  <2>3. RingResize(r, s) = [segments |-> out, len |-> r.len]
    BY <1>1, <1>4 DEF RingResize, Newest
  <2> HIDE DEF out
  <2> QED
    BY <2>2, <2>3, <1>1 DEF RingOK, Ring, OnlyNewestEmpty
<1>5. CASE RingResizes(r, s) /\ segs[n].bytes # <<>>
  <2> DEFINE kept == MergeOldest(segs)
             last == [size |-> s, bytes |-> <<>>]
             out == Append(kept, last)
  <2>1. last \in Segment(Byte)
    BY DEF Segment
  <2>2. \A i \in 1 .. Len(segs) : segs[i].bytes # <<>>
    BY <1>1, <1>5 DEF RingOK, OnlyNewestEmpty
  <2>3. /\ kept \in Seq(Segment(Byte))
        /\ \A i \in 1 .. Len(kept) : kept[i].bytes # <<>>
    BY <1>1, <2>2, MergeOldestOK
  <2>4. RingResize(r, s) = [segments |-> out, len |-> r.len]
    <3>1. RingResize(r, s) = [r EXCEPT !.segments = out]
      BY <1>5 DEF RingResize, Newest
    <3> QED
      BY <3>1, <1>1
  <2> HIDE DEF kept, last
  <2>5. /\ out \in Seq(Segment(Byte)) /\ out # <<>>
        /\ Len(out) = Len(kept) + 1
        /\ \A i \in 1 .. Len(kept) : out[i] = kept[i]
    BY <2>1, <2>3, AppendProperties
  <2>6. \A i \in 1 .. Len(out) - 1 : out[i].bytes # <<>>
    BY <2>3, <2>5
  <2> HIDE DEF out
  <2> QED
    BY <2>4, <2>5, <2>6, <1>1 DEF RingOK, Ring, OnlyNewestEmpty
<1> QED
  BY <1>3, <1>4, <1>5

(* replay: a sequence of SIZE and SNAPSHOT frames. *)
LEMMA RingReplayType ==
    ASSUME NEW Byte, NEW r, RingOK(r, Byte)
    PROVE  RingReplay(r) \in Seq(Frame(Byte))
<1> DEFINE segs == r.segments
           frames == IF Newest(r).bytes = <<>> THEN 2 * Len(segs) - 1
                                               ELSE 2 * Len(segs)
           item(i) == IF i % 2 = 1 THEN SizeFrame(segs[(i + 1) \div 2].size)
                                   ELSE BytesFrame("SNAPSHOT", segs[i \div 2].bytes)
<1>1. segs \in Seq(Segment(Byte)) /\ Len(segs) \in Nat /\ Len(segs) >= 1
  BY DEF RingOK, Ring
<1>2. frames \in Nat /\ frames <= 2 * Len(segs)
  BY <1>1
<1>3. \A i \in 1 .. frames : item(i) \in Frame(Byte)
  <2> SUFFICES ASSUME NEW i \in 1 .. frames PROVE item(i) \in Frame(Byte)
    OBVIOUS
  <2>1. CASE i % 2 = 1
    <3>1. (i + 1) \div 2 \in 1 .. Len(segs)
      BY <1>1, <1>2, <2>1
    <3>2. segs[(i + 1) \div 2] \in Segment(Byte)
      BY <1>1, <3>1
    <3>3. segs[(i + 1) \div 2].size \in Size
      BY <3>2 DEF Segment
    <3> QED
      BY <2>1, <3>3, EmptySeq DEF SizeFrame, Frame
  <2>2. CASE i % 2 # 1
    <3>1. i \div 2 \in 1 .. Len(segs)
      BY <1>1, <1>2, <2>2
    <3>2. segs[i \div 2] \in Segment(Byte)
      BY <1>1, <3>1
    <3>3. segs[i \div 2].bytes \in Seq(Byte)
      BY <3>2 DEF Segment
    <3> QED
      BY <2>2, <3>3 DEF BytesFrame, Frame
  <2> QED
    BY <2>1, <2>2
<1> HIDE DEF item, frames
<1>4. [i \in 1 .. frames |-> item(i)] \in Seq(Frame(Byte))
  BY <1>2, <1>3
<1>5. RingReplay(r) = [i \in 1 .. frames |-> item(i)]
  BY DEF RingReplay, item, frames
<1> QED
  BY <1>4, <1>5

-----------------------------------------------------------------------------
(* The ring's byte count.  `len` is the number of bytes in all segments:   *)
(* f[i] counts those of the first i.  As the count is carried along as a   *)
(* function, no sum over the segments has to be taken.                     *)

Counts(f, w, L, n) ==
    /\ f \in [0 .. L -> Nat]
    /\ f[0] = 0 /\ f[L] = n
    /\ \A i \in 1 .. L : f[i] = f[i - 1] + w[i]
    /\ \A i, j \in 0 .. L : i <= j => f[i] <= f[j]

Counted(w, L, n) == \E f \in [0 .. L -> Nat] : Counts(f, w, L, n)

Lengths(segs) == [i \in 1 .. Len(segs) |-> Len(segs[i].bytes)]

RingWithinCap(r) ==
    /\ r.len <= RingCap
    /\ Counted(Lengths(r.segments), Len(r.segments), r.len)

(* No segment holds more bytes than are counted. *)
LEMMA SegmentWithinCount ==
    ASSUME NEW L \in Nat, NEW w \in [1 .. L -> Nat], NEW n \in Nat,
           Counted(w, L, n), NEW i \in 1 .. L
    PROVE  w[i] <= n
<1>1. PICK f \in [0 .. L -> Nat] : Counts(f, w, L, n)
  BY DEF Counted
<1>2. i - 1 \in 0 .. L /\ i \in 0 .. L /\ L \in 0 .. L
  OBVIOUS
<1>3. f[i - 1] \in Nat /\ f[i] = f[i - 1] + w[i] /\ f[i] <= n
  BY <1>1, <1>2 DEF Counts
<1> QED
  BY <1>3

(* A byte more in the newest segment. *)
LEMMA CountedGrows ==
    ASSUME NEW L \in Nat \ {0},
           NEW w \in [1 .. L -> Nat], NEW v \in [1 .. L -> Nat],
           NEW n \in Nat, Counted(w, L, n),
           \A i \in 1 .. L : v[i] =
               IF i = L THEN w[i] + 1 ELSE w[i]
    PROVE  Counted(v, L, n + 1)
<1>1. PICK f \in [0 .. L -> Nat] : Counts(f, w, L, n)
  BY DEF Counted
<1> DEFINE g == [i \in 0 .. L |-> IF i = L THEN n + 1 ELSE f[i]]
<1>2. g \in [0 .. L -> Nat] /\ g[0] = 0 /\ g[L] = n + 1
  BY <1>1 DEF Counts
<1>3. ASSUME NEW i \in 1 .. L PROVE g[i] = g[i - 1] + v[i]
  <2>1. i - 1 \in 0 .. L /\ i \in 0 .. L /\ i - 1 # L
    OBVIOUS
  <2>2. f[i] = f[i - 1] + w[i] /\ f[L] = n /\ f[i - 1] \in Nat
    BY <1>1, <2>1 DEF Counts
  <2>3. /\ g[i - 1] = f[i - 1]
        /\ g[i] = IF i = L THEN n + 1 ELSE f[i]
        /\ w[i] \in Nat
        /\ v[i] =
               IF i = L THEN w[i] + 1 ELSE w[i]
    BY <2>1
  <2> HIDE DEF g
  <2>4. CASE i = L
    <3>1. n = g[i - 1] + w[i] /\ g[i] = n + 1 /\ v[i] = w[i] + 1 /\ g[i - 1] \in Nat
      BY <2>2, <2>3, <2>4
    <3>2. \A a, x \in Nat : (a + x) + 1 = a + (x + 1)
      OBVIOUS
    <3> QED
      BY <2>3, <3>1, <3>2, Zenon
  <2>5. CASE i # L
    BY <2>2, <2>3, <2>5
  <2> QED
    BY <2>4, <2>5
<1>4. ASSUME NEW i \in 0 .. L, NEW j \in 0 .. L, i <= j PROVE g[i] <= g[j]
  <2>1. f[i] <= f[j] /\ f[i] <= f[L] /\ f[L] = n /\ f[i] \in Nat /\ f[j] \in Nat
    BY <1>1, <1>4 DEF Counts
  <2> QED
    BY <2>1, <1>4
<1> HIDE DEF g
<1> QED
  BY <1>2, <1>3, <1>4 DEF Counts, Counted

(* A byte less in the oldest segment. *)
LEMMA CountedShrinks ==
    ASSUME NEW L \in Nat \ {0},
           NEW w \in [1 .. L -> Nat], NEW v \in [1 .. L -> Nat],
           NEW n \in Nat, Counted(w, L, n),
           w[1] >= 1,
           \A i \in 1 .. L : v[i] =
               IF i = 1 THEN w[i] - 1 ELSE w[i]
    PROVE  Counted(v, L, n - 1)
<1>1. PICK f \in [0 .. L -> Nat] : Counts(f, w, L, n)
  BY DEF Counted
<1> DEFINE g == [i \in 0 .. L |-> IF i = 0 THEN 0 ELSE f[i] - 1]
<1>2. ASSUME NEW i \in 1 .. L PROVE f[i] \in Nat /\ f[i] >= 1
  <2>1. 1 \in 1 .. L /\ 1 \in 0 .. L /\ i \in 0 .. L /\ 1 <= i /\ 0 \in 0 .. L
    OBVIOUS
  <2>2. f[0] = 0 /\ f[1] = f[1 - 1] + w[1] /\ f[1] <= f[i]
    BY <1>1, <2>1 DEF Counts
  <2> QED
    BY <1>1, <2>1, <2>2
<1>3. g \in [0 .. L -> Nat] /\ g[0] = 0 /\ g[L] = n - 1
  BY <1>1, <1>2, SMTT(30) DEF Counts
<1>4. ASSUME NEW i \in 1 .. L PROVE g[i] = g[i - 1] + v[i]
  <2>1. i - 1 \in 0 .. L /\ i \in 0 .. L
    OBVIOUS
  <2>2. f[i] = f[i - 1] + w[i] /\ f[i - 1] \in Nat /\ f[0] = 0
    BY <1>1, <2>1 DEF Counts
  <2>3. /\ g[i] = f[i] - 1
        /\ g[i - 1] = IF i = 1 THEN 0 ELSE f[i - 1] - 1
        /\ w[i] \in Nat
        /\ v[i] =
               IF i = 1 THEN w[i] - 1 ELSE w[i]
    BY <2>1
  <2> HIDE DEF g
  <2>4. CASE i = 1
    BY <2>2, <2>3, <2>4
  <2>5. CASE i # 1
    BY <2>2, <2>3, <2>5
  <2> QED
    BY <2>4, <2>5
<1>5. ASSUME NEW i \in 0 .. L, NEW j \in 0 .. L, i <= j PROVE g[i] <= g[j]
  <2>1. f[i] <= f[j] /\ f[i] \in Nat /\ f[j] \in Nat
    BY <1>1, <1>5 DEF Counts
  <2> QED
    BY <2>1, <1>2, <1>5, SMTT(30)
<1> HIDE DEF g
<1> QED
  BY <1>3, <1>4, <1>5 DEF Counts, Counted

(* The oldest segment's last byte is drained, and the segment with it.     *)
LEMMA CountedDrops ==
    ASSUME NEW L \in Nat, L > 1,
           NEW w \in [1 .. L -> Nat], NEW v \in [1 .. L - 1 -> Nat],
           NEW n \in Nat, Counted(w, L, n),
           w[1] = 1,
           \A i \in 1 .. L - 1 : v[i] = w[i + 1]
    PROVE  Counted(v, L - 1, n - 1)
<1>1. PICK f \in [0 .. L -> Nat] : Counts(f, w, L, n)
  BY DEF Counted
<1> DEFINE g == [i \in 0 .. L - 1 |-> f[i + 1] - 1]
<1>2. f[1] = 1
  <2>1. f[1] = f[1 - 1] + w[1] /\ f[0] = 0
    <3>1. 1 \in 1 .. L
      OBVIOUS
    <3> QED
      BY <1>1, <3>1 DEF Counts
  <2> QED
    BY <2>1
<1>3. ASSUME NEW i \in 1 .. L PROVE f[i] \in Nat /\ f[i] >= 1
  <2>1. 1 \in 0 .. L /\ i \in 0 .. L /\ 1 <= i
    OBVIOUS
  <2> QED
    BY <1>1, <1>2, <2>1 DEF Counts
<1>4. g \in [0 .. L - 1 -> Nat] /\ g[0] = 0 /\ g[L - 1] = n - 1
  <2>1. \A i \in 0 .. L - 1 : i + 1 \in 1 .. L
    OBVIOUS
  <2>2. 0 \in 0 .. L - 1 /\ L - 1 \in 0 .. L - 1 /\ L - 1 + 1 = L /\ f[L] = n
    BY <1>1 DEF Counts
  <2> QED
    BY <1>2, <1>3, <2>1, <2>2
<1>5. ASSUME NEW i \in 1 .. L - 1 PROVE g[i] = g[i - 1] + v[i]
  <2>1. i - 1 \in 0 .. L - 1 /\ i \in 0 .. L - 1 /\ i + 1 \in 1 .. L /\ i \in 1 .. L
        /\ i + 1 - 1 = i /\ i - 1 + 1 = i
    OBVIOUS
  <2>2. f[i + 1] = f[i] + w[i + 1] /\ f[i] \in Nat
    BY <1>1, <1>3, <2>1, SMTT(30) DEF Counts
  <2>3. g[i] = f[i + 1] - 1 /\ g[i - 1] = f[i] - 1
    BY <2>1
  <2>4. v[i] = w[i + 1] /\ w[i + 1] \in Nat
    BY <2>1
  <2> HIDE DEF g
  <2> QED
    BY <2>2, <2>3, <2>4, SMTT(30)
<1>6. ASSUME NEW i \in 0 .. L - 1, NEW j \in 0 .. L - 1, i <= j PROVE g[i] <= g[j]
  <2>1. i + 1 \in 1 .. L /\ j + 1 \in 1 .. L /\ i + 1 <= j + 1
    BY <1>6
  <2>2. f[i + 1] <= f[j + 1] /\ f[i + 1] \in Nat /\ f[j + 1] \in Nat
    BY <1>1, <2>1, SMTT(30) DEF Counts
  <2> QED
    BY <2>2, SMTT(30)
<1> HIDE DEF g
<1> QED
  BY <1>4, <1>5, <1>6 DEF Counts, Counted

(* The two oldest segments become one. *)
LEMMA CountedMerges ==
    ASSUME NEW L \in Nat, L > 1,
           NEW w \in [1 .. L -> Nat], NEW v \in [1 .. L - 1 -> Nat],
           NEW n \in Nat, Counted(w, L, n),
           \A i \in 1 .. L - 1 : v[i] =
               IF i = 1 THEN w[1] + w[2]
                        ELSE w[i + 1]
    PROVE  Counted(v, L - 1, n)
<1>1. PICK f \in [0 .. L -> Nat] : Counts(f, w, L, n)
  BY DEF Counted
<1> DEFINE g == [i \in 0 .. L - 1 |-> IF i = 0 THEN 0 ELSE f[i + 1]]
<1>2. g \in [0 .. L - 1 -> Nat] /\ g[0] = 0 /\ g[L - 1] = n
  BY <1>1, SMTT(30) DEF Counts
<1>3. ASSUME NEW i \in 1 .. L - 1 PROVE g[i] = g[i - 1] + v[i]
  <2>1. /\ i - 1 \in 0 .. L - 1 /\ i \in 0 .. L - 1 /\ i + 1 \in 1 .. L
        /\ i \in 1 .. L /\ i + 1 - 1 = i /\ i - 1 + 1 = i
        /\ 1 \in 1 .. L /\ 2 \in 1 .. L
    OBVIOUS
  <2>2. /\ f[i + 1] = f[i] + w[i + 1] /\ f[i] \in Nat
        /\ f[0] = 0 /\ f[1] = f[1 - 1] + w[1]
    BY <1>1, <2>1, SMTT(30) DEF Counts
  <2>3. CASE i = 1
    <3>1. g[1] = f[2] /\ g[0] = 0 /\ v[1] = w[1] + w[2]
      BY <2>1, <2>3
    <3>2. f[2] = f[1] + w[2] /\ f[1] = w[1]
      BY <2>1, <2>2, <2>3
    <3>3. i - 1 = 0 /\ w[1] \in Nat /\ w[2] \in Nat
      BY <2>1, <2>3
    <3> HIDE DEF g
    <3> QED
      BY <2>3, <3>1, <3>2, <3>3
  <2>4. CASE i # 1
    <3>1. g[i] = f[i + 1] /\ g[i - 1] = f[i]
      BY <2>1, <2>4
    <3> HIDE DEF g
    <3> QED
      BY <2>2, <2>4, <3>1
  <2> QED
    BY <2>3, <2>4
<1>4. ASSUME NEW i \in 0 .. L - 1, NEW j \in 0 .. L - 1, i <= j PROVE g[i] <= g[j]
  <2>1. i + 1 \in 0 .. L /\ j + 1 \in 0 .. L /\ i + 1 <= j + 1
    BY <1>4
  <2>2. f[i + 1] <= f[j + 1] /\ f[j + 1] \in Nat
    BY <1>1, <2>1 DEF Counts
  <2> QED
    BY <1>4, <2>2, SMTT(30)
<1> HIDE DEF g
<1> QED
  BY <1>2, <1>3, <1>4 DEF Counts, Counted

(* An empty segment is opened. *)
LEMMA CountedOpens ==
    ASSUME NEW L \in Nat,
           NEW w \in [1 .. L -> Nat], NEW v \in [1 .. L + 1 -> Nat],
           NEW n \in Nat, Counted(w, L, n),
           \A i \in 1 .. L + 1 : v[i] =
               IF i = L + 1 THEN 0 ELSE w[i]
    PROVE  Counted(v, L + 1, n)
<1>1. PICK f \in [0 .. L -> Nat] : Counts(f, w, L, n)
  BY DEF Counted
<1> DEFINE g == [i \in 0 .. L + 1 |-> IF i = L + 1 THEN n ELSE f[i]]
<1>2. g \in [0 .. L + 1 -> Nat] /\ g[0] = 0 /\ g[L + 1] = n
  BY <1>1 DEF Counts
<1>3. ASSUME NEW i \in 1 .. L + 1 PROVE g[i] = g[i - 1] + v[i]
  <2>0. /\ i - 1 \in 0 .. L + 1 /\ i \in 0 .. L + 1 /\ i - 1 \in 0 .. L
        /\ i - 1 # L + 1 /\ g[i - 1] = f[i - 1] /\ f[i - 1] \in Nat
    BY <1>1
  <2>1. CASE i = L + 1
    <3>1. i - 1 = L /\ f[L] = n /\ g[i] = n /\ v[i] = 0
      BY <1>1, <2>1 DEF Counts
    <3> HIDE DEF g
    <3> QED
      BY <2>0, <3>1
  <2>2. CASE i # L + 1
    <3>1. /\ i \in 1 .. L /\ f[i] = f[i - 1] + w[i]
          /\ g[i] = f[i] /\ v[i] = w[i]
      BY <1>1, <2>2 DEF Counts
    <3> HIDE DEF g
    <3> QED
      BY <2>0, <3>1
  <2> QED
    BY <2>1, <2>2
<1>4. ASSUME NEW i \in 0 .. L + 1, NEW j \in 0 .. L + 1, i <= j PROVE g[i] <= g[j]
  <2>1. \A k \in 0 .. L : f[k] \in Nat /\ f[k] <= n
    BY <1>1 DEF Counts
  <2>2. i \in 0 .. L /\ j \in 0 .. L => f[i] <= f[j]
    BY <1>1, <1>4 DEF Counts
  <2> QED
    BY <1>4, <2>1, <2>2
<1> HIDE DEF g
<1> QED
  BY <1>2, <1>3, <1>4 DEF Counts, Counted

(* The lengths of a ring's segments are naturals. *)
LEMMA LengthsType ==
    ASSUME NEW Byte, NEW segs \in Seq(Segment(Byte))
    PROVE  /\ Lengths(segs) \in [1 .. Len(segs) -> Nat]
           /\ \A i \in 1 .. Len(segs) :
                  /\ Lengths(segs)[i] = Len(segs[i].bytes)
                  /\ segs[i].bytes \in Seq(Byte)
<1>1. \A i \in 1 .. Len(segs) : segs[i] \in Segment(Byte)
  OBVIOUS
<1>2. \A i \in 1 .. Len(segs) : segs[i].bytes \in Seq(Byte)
  BY <1>1 DEF Segment
<1>3. \A i \in 1 .. Len(segs) : Len(segs[i].bytes) \in Nat
  BY <1>2, LenProperties
<1> QED
  BY <1>2, <1>3 DEF Lengths

(* Draining one byte counts one byte less. *)
LEMMA DrainOneCounted ==
    ASSUME NEW Byte, NEW segs \in Seq(Segment(Byte)), segs # <<>>,
           segs[1].bytes # <<>>,
           NEW n \in Nat, Counted(Lengths(segs), Len(segs), n)
    PROVE  Counted(Lengths(DrainOne(segs)), Len(DrainOne(segs)), n - 1)
<1> DEFINE rest == Tail(segs[1].bytes)
           L == Len(segs)
           w == Lengths(segs)
<1>1. L \in Nat \ {0} /\ 1 \in 1 .. L
  OBVIOUS
<1>2. segs[1] \in Segment(Byte)
  BY <1>1
<1>3. segs[1].bytes \in Seq(Byte) /\ segs[1].size \in Size
  BY <1>2 DEF Segment
<1>4. rest \in Seq(Byte) /\ Len(rest) = Len(segs[1].bytes) - 1
  BY <1>3, HeadTailProperties
<1>5. w \in [1 .. L -> Nat] /\ \A i \in 1 .. L : w[i] = Len(segs[i].bytes)
  BY LengthsType
<1>6. Len(segs[1].bytes) \in Nat /\ Len(segs[1].bytes) >= 1
  BY <1>3
<1>7. CASE rest = <<>> /\ Len(segs) > 1
  <2> DEFINE out == Tail(segs)
             v == Lengths(out)
  <2>1. DrainOne(segs) = out
    BY <1>7 DEF DrainOne
  <2>2. /\ out \in Seq(Segment(Byte)) /\ Len(out) = L - 1
        /\ \A i \in 1 .. L - 1 : out[i] = segs[i + 1]
    BY HeadTailProperties
  <2>3. v \in [1 .. L - 1 -> Nat] /\ \A i \in 1 .. L - 1 : v[i] = Len(out[i].bytes)
    BY <2>2, LengthsType
  <2>4. w[1] = 1
    <3>1. Len(rest) = 0
      <4>1. Len(<<>>) = 0
        OBVIOUS
      <4> HIDE DEF rest
      <4> QED
        BY <1>7, <4>1
    <3>2. w[1] = Len(segs[1].bytes)
      BY <1>1, <1>5
    <3> HIDE DEF rest, w
    <3> QED
      BY <1>4, <1>6, <3>1, <3>2
  <2>5. \A i \in 1 .. L - 1 : v[i] = w[i + 1]
    <3> SUFFICES ASSUME NEW i \in 1 .. L - 1 PROVE v[i] = w[i + 1]
      OBVIOUS
    <3>1. i + 1 \in 1 .. L
      BY <1>1
    <3>2. v[i] = Len(out[i].bytes) /\ out[i] = segs[i + 1]
      BY <2>2, <2>3
    <3> QED
      BY <1>5, <3>1, <3>2
  <2> HIDE DEF out, v, w, L, rest
  <2>6. Counted(v, L - 1, n - 1)
    BY <1>1, <1>5, <1>7, <2>3, <2>4, <2>5, CountedDrops DEF L, w
  <2> QED
    BY <2>1, <2>2, <2>6 DEF v
<1>8. CASE ~(rest = <<>> /\ Len(segs) > 1)
  <2> DEFINE first == WithBytes(segs[1], rest)
             out == [segs EXCEPT ![1] = first]
             v == Lengths(out)
  <2>1. DrainOne(segs) = out
    BY <1>1, <1>8 DEF DrainOne
  <2>2. first \in Segment(Byte) /\ first.bytes = rest
    BY <1>3, <1>4 DEF Segment, WithBytes
  <2>3. /\ out \in Seq(Segment(Byte))
        /\ Len(out) = L
        /\ \A j \in 1 .. L : out[j] = IF j = 1 THEN first ELSE segs[j]
    BY <1>1, <2>2, ExceptSeq
  <2>4. v \in [1 .. L -> Nat] /\ \A i \in 1 .. L : v[i] = Len(out[i].bytes)
    <3> HIDE DEF out
    <3> QED
      BY <2>3, LengthsType
  <2>5. \A i \in 1 .. L : v[i] = IF i = 1 THEN w[i] - 1 ELSE w[i]
    <3> SUFFICES ASSUME NEW i \in 1 .. L
                 PROVE  v[i] = IF i = 1 THEN w[i] - 1 ELSE w[i]
      OBVIOUS
    <3>1. /\ v[i] = Len(out[i].bytes) /\ w[i] = Len(segs[i].bytes)
          /\ out[i] = IF i = 1 THEN first ELSE segs[i]
      BY <1>5, <2>3, <2>4
    <3> HIDE DEF v, w, out, first, rest, L
    <3>2. CASE i = 1
      BY <1>4, <2>2, <3>1, <3>2
    <3>3. CASE i # 1
      BY <3>1, <3>3
    <3> QED
      BY <3>2, <3>3
  <2>6. w[1] >= 1
    BY <1>1, <1>5, <1>6
  <2> HIDE DEF out, v, w, L, rest, first
  <2>7. Counted(v, L, n - 1)
    BY <1>1, <1>5, <2>4, <2>5, <2>6, CountedShrinks DEF L, w
  <2> QED
    BY <2>1, <2>3, <2>7 DEF v
<1> QED
  BY <1>7, <1>8

(* append: the ring never holds more than its capacity. *)
LEMMA RingPushWithinCap ==
    ASSUME NEW Byte, NEW r, RingOK(r, Byte), RingWithinCap(r), NEW b \in Byte
    PROVE  RingWithinCap(RingPush(r, b))
<1> DEFINE segs == r.segments
           n == Len(segs)
           tail == WithBytes(segs[n], Append(segs[n].bytes, b))
           grown == [segs EXCEPT ![n] = tail]
<1>1. /\ segs \in Seq(Segment(Byte)) /\ r.len \in Nat
      /\ n \in Nat \ {0} /\ n \in 1 .. n
  BY DEF RingOK, Ring
<1>2. segs[n] \in Segment(Byte)
  BY <1>1
<1>3. segs[n].bytes \in Seq(Byte) /\ segs[n].size \in Size
  BY <1>2 DEF Segment
<1>4. /\ tail \in Segment(Byte) /\ tail.bytes = Append(segs[n].bytes, b)
      /\ Len(tail.bytes) = Len(segs[n].bytes) + 1 /\ tail.bytes # <<>>
  <2>1. /\ Append(segs[n].bytes, b) \in Seq(Byte)
        /\ Len(Append(segs[n].bytes, b)) = Len(segs[n].bytes) + 1
        /\ Append(segs[n].bytes, b) # <<>>
    BY <1>3, AppendProperties
  <2> QED
    BY <1>3, <2>1 DEF Segment, WithBytes
<1>5. /\ grown \in Seq(Segment(Byte))
      /\ Len(grown) = n
      /\ \A j \in 1 .. n : grown[j] = IF j = n THEN tail ELSE segs[j]
  BY <1>1, <1>4, ExceptSeq
<1>6. CASE RingCap = 1
  <2> DEFINE one == [size |-> Newest(r).size, bytes |-> <<b>>]
             f == [i \in 0 .. 1 |-> i]
  <2>1. RingPush(r, b) = [segments |-> <<one>>, len |-> 1]
    BY <1>6 DEF RingPush
  <2>2. Len(<<one>>) = 1 /\ Lengths(<<one>>) = [i \in 1 .. 1 |-> 1]
    BY DEF Lengths
  <2>3. Counts(f, [i \in 1 .. 1 |-> 1], 1, 1) /\ f \in [0 .. 1 -> Nat]
    BY DEF Counts
  <2> HIDE DEF f, one
  <2>4. Counted(Lengths(<<one>>), Len(<<one>>), 1)
    BY <2>2, <2>3 DEF Counted
  <2> QED
    BY <1>6, <2>1, <2>4 DEF RingWithinCap
<1>7. Counted(Lengths(grown), n, r.len + 1)
  <2> DEFINE w == Lengths(segs)
             v == Lengths(grown)
  <2>1. w \in [1 .. n -> Nat] /\ \A i \in 1 .. n : w[i] = Len(segs[i].bytes)
    BY <1>1, LengthsType
  <2>2. v \in [1 .. n -> Nat] /\ \A i \in 1 .. n : v[i] = Len(grown[i].bytes)
    BY <1>5, LengthsType, ZenonT(60)
  <2>3. \A i \in 1 .. n : v[i] = IF i = n THEN w[i] + 1 ELSE w[i]
    <3> SUFFICES ASSUME NEW i \in 1 .. n
                 PROVE  v[i] = IF i = n THEN w[i] + 1 ELSE w[i]
      OBVIOUS
    <3>1. /\ v[i] = Len(grown[i].bytes) /\ w[i] = Len(segs[i].bytes)
          /\ grown[i] = IF i = n THEN tail ELSE segs[i]
      BY <1>5, <2>1, <2>2
    <3> HIDE DEF v, w, grown, tail, n
    <3>2. CASE i = n
      BY <1>4, <3>1, <3>2
    <3>3. CASE i # n
      BY <3>1, <3>3
    <3> QED
      BY <3>2, <3>3
  <2>4. Counted(w, n, r.len)
    BY DEF RingWithinCap
  <2> HIDE DEF v, w, grown, n, segs
  <2>5. Counted(v, n, r.len + 1)
    BY <1>1, <2>1, <2>2, <2>3, <2>4, CountedGrows
  <2> QED
    BY <2>5 DEF v
<1>8. CASE RingCap # 1 /\ r.len < RingCap
  <2>1. RingPush(r, b) = [segments |-> grown, len |-> r.len + 1]
    BY <1>8 DEF RingPush
  <2> HIDE DEF grown
  <2> QED
    BY <1>1, <1>5, <1>7, <1>8, <2>1, RingAssumption DEF RingWithinCap
<1>9. CASE RingCap # 1 /\ ~(r.len < RingCap)
  <2>1. RingPush(r, b) = [segments |-> DrainOne(grown), len |-> r.len]
    BY <1>9 DEF RingPush
  <2>2. grown # <<>> /\ grown[1].bytes # <<>>
    <3>1. 1 \in 1 .. n /\ grown # <<>>
      BY <1>1, <1>5
    <3>2. grown[1] = IF n = 1 THEN tail ELSE segs[1]
      BY <1>5, <3>1
    <3>3. CASE n = 1
      BY <1>4, <3>2, <3>3
    <3>4. CASE n # 1
      <4>1. segs[1].bytes # <<>>
        <5>1. \A m \in Nat \ {0} : m # 1 => 1 \in 1 .. m - 1
          OBVIOUS
        <5>2. 1 \in 1 .. n - 1
          <6> HIDE DEF n
          <6> QED
            BY <1>1, <3>4, <5>1
        <5> QED
          BY <5>2 DEF RingOK, OnlyNewestEmpty
      <4>2. grown[1] = segs[1]
        <5> HIDE DEF grown, segs, n, tail
        <5> QED
          BY <3>2, <3>4
      <4> HIDE DEF grown, segs
      <4> QED
        BY <3>1, <4>1, <4>2
    <3> QED
      BY <3>1, <3>3, <3>4
  <2> HIDE DEF grown
  <2>3. r.len + 1 \in Nat /\ r.len <= RingCap
    BY <1>1 DEF RingWithinCap
  <2>4. Counted(Lengths(DrainOne(grown)), Len(DrainOne(grown)), r.len)
    <3> DEFINE m == r.len + 1
    <3>1. Counted(Lengths(grown), Len(grown), m) /\ m \in Nat /\ m - 1 = r.len
      BY <1>1, <1>5, <1>7, <2>3
    <3> HIDE DEF m
    <3>2. Counted(Lengths(DrainOne(grown)), Len(DrainOne(grown)), m - 1)
      BY <1>5, <2>2, <3>1, DrainOneCounted
    <3> QED
      BY <3>1, <3>2
  <2> QED
    BY <2>1, <2>3, <2>4 DEF RingWithinCap
<1> QED
  BY <1>6, <1>8, <1>9

(* resize moves no byte in or out. *)
LEMMA RingResizeWithinCap ==
    ASSUME NEW Byte, NEW r, RingOK(r, Byte), RingWithinCap(r), NEW s \in Size
    PROVE  RingWithinCap(RingResize(r, s))
<1> DEFINE segs == r.segments
           n == Len(segs)
           last == [size |-> s, bytes |-> <<>>]
<1>1. /\ segs \in Seq(Segment(Byte)) /\ r.len \in Nat
      /\ n \in Nat \ {0} /\ n \in 1 .. n
      /\ r = [segments |-> segs, len |-> r.len]
  BY DEF RingOK, Ring
<1>2. last \in Segment(Byte) /\ last.bytes = <<>> /\ Len(<<>>) = 0
  BY DEF Segment
<1>3. /\ Lengths(segs) \in [1 .. n -> Nat]
      /\ \A i \in 1 .. n : /\ Lengths(segs)[i] = Len(segs[i].bytes)
                           /\ segs[i].bytes \in Seq(Byte)
  BY <1>1, LengthsType
<1>4. CASE ~RingResizes(r, s)
  BY <1>4 DEF RingResize
<1>5. CASE RingResizes(r, s) /\ segs[n].bytes = <<>>
  <2> DEFINE out == [segs EXCEPT ![n] = last]
  <2>1. /\ out \in Seq(Segment(Byte))
        /\ Len(out) = n
        /\ \A j \in 1 .. n : out[j] = IF j = n THEN last ELSE segs[j]
    BY <1>1, <1>2, ExceptSeq
  <2>2. RingResize(r, s) = [segments |-> out, len |-> r.len]
    BY <1>1, <1>5 DEF RingResize, Newest
  <2>3. /\ Lengths(out) \in [1 .. n -> Nat]
        /\ \A i \in 1 .. n : Lengths(out)[i] = Len(out[i].bytes)
    BY <2>1, LengthsType, ZenonT(60)
  <2>4. \A i \in 1 .. n : Lengths(out)[i] = Lengths(segs)[i]
    <3> SUFFICES ASSUME NEW i \in 1 .. n
                 PROVE  Lengths(out)[i] = Lengths(segs)[i]
      OBVIOUS
    <3>1. /\ Lengths(out)[i] = Len(out[i].bytes)
          /\ Lengths(segs)[i] = Len(segs[i].bytes)
          /\ out[i] = IF i = n THEN last ELSE segs[i]
      BY <1>3, <2>1, <2>3
    <3> HIDE DEF out, segs, n, last
    <3>2. CASE i = n
      BY <1>2, <1>5, <3>1, <3>2
    <3>3. CASE i # n
      BY <3>1, <3>3
    <3> QED
      BY <3>2, <3>3
  <2> HIDE DEF out
  <2>5. Lengths(out) = Lengths(segs)
    BY <1>3, <2>3, <2>4
  <2> QED
    BY <2>1, <2>2, <2>5 DEF RingWithinCap
<1>6. CASE RingResizes(r, s) /\ segs[n].bytes # <<>>
  <2> DEFINE kept == MergeOldest(segs)
             out == Append(kept, last)
  <2>1. RingResize(r, s) = [segments |-> out, len |-> r.len]
    <3>1. RingResize(r, s) = [r EXCEPT !.segments = out]
      BY <1>6 DEF RingResize, Newest
    <3> QED
      BY <3>1, <1>1
  <2>2. Counted(Lengths(segs), n, r.len)
    BY DEF RingWithinCap
  <2>3. kept \in Seq(Segment(Byte)) /\ Counted(Lengths(kept), Len(kept), r.len)
    <3>1. CASE ~(n >= MaxSegments)
      BY <1>1, <2>2, <3>1 DEF MergeOldest
    <3>2. CASE n >= MaxSegments
      <4> DEFINE both == segs[1].bytes \o segs[2].bytes
                 head == WithBytes(segs[2], both)
                 joined == [segs EXCEPT ![2] = head]
      <4>1. n > 1 /\ 1 \in 1 .. n /\ 2 \in 1 .. n
        BY <1>1, <3>2, RingAssumption
      <4>2. segs[2] \in Segment(Byte) /\ segs[1].bytes \in Seq(Byte) /\ segs[2].bytes \in Seq(Byte)
        BY <1>1, <1>3, <4>1
      <4>3. /\ both \in Seq(Byte)
            /\ Len(both) = Len(segs[1].bytes) + Len(segs[2].bytes)
        BY <4>2, ConcatProperties
      <4>4. head \in Segment(Byte) /\ head.bytes = both
        BY <4>2, <4>3 DEF Segment, WithBytes
      <4>5. /\ joined \in Seq(Segment(Byte))
            /\ Len(joined) = n
            /\ \A j \in 1 .. n : joined[j] = IF j = 2 THEN head ELSE segs[j]
        <5>1. segs \in Seq(Segment(Byte)) /\ Len(segs) = n /\ DOMAIN segs = 1 .. n
          BY <1>1
        <5> HIDE DEF head, segs, n
        <5> QED
          BY <5>1, <4>1, <4>4, ExceptSeq
      <4>6. kept = Tail(joined)
        BY <3>2 DEF MergeOldest
      <4>7. joined # <<>>
        BY <1>1, <4>5
      <4> HIDE DEF joined
      <4>8. /\ kept \in Seq(Segment(Byte))
            /\ Len(kept) = n - 1
            /\ \A i \in 1 .. n - 1 : kept[i] = joined[i + 1]
        BY <4>5, <4>6, <4>7, HeadTailProperties
      <4> HIDE DEF kept, both, head
      <4>9. /\ Lengths(kept) \in [1 .. n - 1 -> Nat]
            /\ \A i \in 1 .. n - 1 : Lengths(kept)[i] = Len(kept[i].bytes)
        BY <4>8, LengthsType
      <4>10. ASSUME NEW i \in 1 .. n - 1
             PROVE  Lengths(kept)[i] =
                      IF i = 1 THEN Lengths(segs)[1] + Lengths(segs)[2]
                               ELSE Lengths(segs)[i + 1]
        <5>1. i + 1 \in 1 .. n
          BY <1>1
        <5>2. /\ Lengths(kept)[i] = Len(joined[i + 1].bytes)
              /\ joined[i + 1] = IF i + 1 = 2 THEN head ELSE segs[i + 1]
          BY <4>5, <4>8, <4>9, <5>1
        <5>3. CASE i = 1
          <6>1. /\ Lengths(segs)[1] = Len(segs[1].bytes)
                /\ Lengths(segs)[2] = Len(segs[2].bytes)
            BY <1>3, <4>1
          <6>2. joined[i + 1] = head
            BY <5>2, <5>3
          <6> QED
            BY <4>3, <4>4, <5>2, <5>3, <6>1, <6>2
        <5>4. CASE i # 1
          BY <1>3, <5>1, <5>2, <5>4
        <5> QED
          BY <5>3, <5>4
      <4> HIDE DEF n, segs
      <4>11. Counted(Lengths(kept), n - 1, r.len)
        BY <1>1, <1>3, <2>2, <4>1, <4>9, <4>10, CountedMerges
      <4> QED
        BY <4>8, <4>11
    <3> QED
      BY <3>1, <3>2
  <2> HIDE DEF kept, last
  <2>4. /\ out \in Seq(Segment(Byte))
        /\ Len(out) = Len(kept) + 1 /\ out[Len(kept) + 1] = last
        /\ \A i \in 1 .. Len(kept) : out[i] = kept[i]
        /\ Len(kept) \in Nat
    BY <1>2, <2>3, AppendProperties
  <2> HIDE DEF out
  <2>5. /\ Lengths(out) \in [1 .. Len(kept) + 1 -> Nat]
        /\ \A i \in 1 .. Len(kept) + 1 : Lengths(out)[i] = Len(out[i].bytes)
    BY <2>4, LengthsType
  <2>6. /\ Lengths(kept) \in [1 .. Len(kept) -> Nat]
        /\ \A i \in 1 .. Len(kept) : Lengths(kept)[i] = Len(kept[i].bytes)
    BY <2>3, LengthsType
  <2>7. ASSUME NEW i \in 1 .. Len(kept) + 1
        PROVE  Lengths(out)[i] = IF i = Len(kept) + 1 THEN 0 ELSE Lengths(kept)[i]
    <3>1. CASE i = Len(kept) + 1
      BY <1>2, <2>4, <2>5, <3>1
    <3>2. CASE i # Len(kept) + 1
      <4>1. i \in 1 .. Len(kept)
        BY <2>4, <3>2
      <4> QED
        BY <2>4, <2>5, <2>6, <3>2, <4>1
    <3> QED
      BY <3>1, <3>2
  <2>8. Counted(Lengths(out), Len(kept) + 1, r.len)
    BY <1>1, <2>3, <2>4, <2>5, <2>6, <2>7, CountedOpens
  <2> QED
    BY <2>1, <2>4, <2>8 DEF RingWithinCap
<1> QED
  BY <1>4, <1>5, <1>6

(* A new ring is empty. *)
LEMMA RingNewWithinCap ==
    ASSUME NEW s \in Size
    PROVE  RingWithinCap(RingNew(s))
<1> DEFINE segs == <<[size |-> s, bytes |-> <<>>]>>
           f == [i \in 0 .. 1 |-> 0]
<1>1. Len(segs) = 1 /\ Lengths(segs) = [i \in 1 .. 1 |-> 0]
  BY DEF Lengths
<1>2. Counts(f, [i \in 1 .. 1 |-> 0], 1, 0) /\ f \in [0 .. 1 -> Nat]
  BY DEF Counts
<1>3. RingNew(s) = [segments |-> segs, len |-> 0]
  BY DEF RingNew
<1> HIDE DEF f, segs
<1>4. Counted(Lengths(segs), Len(segs), 0)
  BY <1>1, <1>2 DEF Counted
<1> QED
  BY <1>3, <1>4, RingAssumption DEF RingWithinCap

(* replay: no SNAPSHOT is longer than the ring's capacity. *)
LEMMA RingReplayWithinCap ==
    ASSUME NEW Byte, NEW r, RingOK(r, Byte), RingWithinCap(r),
           NEW k \in 1 .. Len(RingReplay(r))
    PROVE  Len(RingReplay(r)[k].bytes) <= RingCap
<1> DEFINE segs == r.segments
           frames == IF Newest(r).bytes = <<>> THEN 2 * Len(segs) - 1
                                               ELSE 2 * Len(segs)
           item(i) == IF i % 2 = 1 THEN SizeFrame(segs[(i + 1) \div 2].size)
                                   ELSE BytesFrame("SNAPSHOT", segs[i \div 2].bytes)
<1>1. segs \in Seq(Segment(Byte)) /\ Len(segs) \in Nat /\ Len(segs) >= 1 /\ r.len \in Nat
  BY DEF RingOK, Ring
<1>2. frames \in Nat /\ frames <= 2 * Len(segs)
  BY <1>1
<1>3. RingReplay(r) = [i \in 1 .. frames |-> item(i)]
  BY DEF RingReplay
<1> HIDE DEF item, frames
<1>4. k \in 1 .. frames /\ RingReplay(r)[k] = item(k)
  <2>1. Len([i \in 1 .. frames |-> item(i)]) = frames
    BY <1>2
  <2> QED
    BY <1>3, <2>1
<1>5. CASE k % 2 = 1
  BY <1>4, <1>5, RingAssumption DEF item, SizeFrame
<1>6. CASE k % 2 # 1
  <2>1. k \div 2 \in 1 .. Len(segs)
    BY <1>1, <1>2, <1>4, <1>6
  <2>2. item(k).bytes = segs[k \div 2].bytes
    BY <1>6 DEF item, BytesFrame
  <2>3. /\ Lengths(segs) \in [1 .. Len(segs) -> Nat]
        /\ Lengths(segs)[k \div 2] = Len(segs[k \div 2].bytes)
    BY <1>1, <2>1, LengthsType
  <2>4. r.len <= RingCap /\ Counted(Lengths(segs), Len(segs), r.len)
    BY DEF RingWithinCap
  <2> HIDE DEF segs
  <2>5. Lengths(segs)[k \div 2] <= r.len
    BY <1>1, <2>1, <2>3, <2>4, SegmentWithinCount
  <2>6. Lengths(segs)[k \div 2] \in Nat
    BY <2>1, <2>3
  <2> QED
    BY <1>1, <1>4, <2>2, <2>3, <2>4, <2>5, <2>6, RingAssumption
<1> QED
  BY <1>5, <1>6

-----------------------------------------------------------------------------
(***************************************************************************)
(* The bytes of a ring, oldest first.  Segments and frames both carry      *)
(* bytes; what is said of one holds of the other.                          *)
(***************************************************************************)

BytesIn(s) == [i \in 1 .. Len(s) |-> s[i].bytes]

Carries(S, Byte) == \A x \in S : x.bytes \in Seq(Byte)

RingBytes(r) == FlattenSeq(BytesIn(r.segments))

(* The ring knows how many they are. *)
RingExact(r) == r.len = Len(RingBytes(r)) /\ r.len <= RingCap

(* Segments and frames carry bytes. *)
LEMMA Carriers ==
    ASSUME NEW Byte
    PROVE  Carries(Segment(Byte), Byte) /\ Carries(Frame(Byte), Byte)
BY DEF Carries, Segment, Frame

(* One sequence of bytes for each of them. *)
LEMMA BytesInType ==
    ASSUME NEW Byte, NEW S, Carries(S, Byte), NEW segs \in Seq(S)
    PROVE  /\ BytesIn(segs) \in Seq(Seq(Byte))
           /\ Len(BytesIn(segs)) = Len(segs)
           /\ \A i \in 1 .. Len(segs) : BytesIn(segs)[i] = segs[i].bytes
<1>1. \A i \in 1 .. Len(segs) : segs[i] \in S
  OBVIOUS
<1>2. \A i \in 1 .. Len(segs) : segs[i].bytes \in Seq(Byte)
  BY <1>1 DEF Carries
<1>3. Len(segs) \in Nat
  OBVIOUS
<1> QED
  BY <1>2, <1>3 DEF BytesIn

(* A new segment brings its bytes at the end. *)
LEMMA BytesInAppend ==
    ASSUME NEW Byte, NEW S, Carries(S, Byte), NEW segs \in Seq(S), NEW x \in S
    PROVE  BytesIn(Append(segs, x)) = Append(BytesIn(segs), x.bytes)
<1> DEFINE a == BytesIn(Append(segs, x))
           b == Append(BytesIn(segs), x.bytes)
<1>1. /\ Append(segs, x) \in Seq(S)
      /\ Len(Append(segs, x)) = Len(segs) + 1
      /\ \A i \in 1 .. Len(segs) : Append(segs, x)[i] = segs[i]
      /\ Append(segs, x)[Len(segs) + 1] = x
      /\ Len(segs) \in Nat /\ x.bytes \in Seq(Byte)
  BY AppendProperties DEF Carries
<1>2. /\ a \in Seq(Seq(Byte)) /\ Len(a) = Len(segs) + 1
      /\ \A i \in 1 .. Len(segs) + 1 : a[i] = Append(segs, x)[i].bytes
  BY <1>1, BytesInType
<1>3. /\ BytesIn(segs) \in Seq(Seq(Byte))
      /\ Len(BytesIn(segs)) = Len(segs)
      /\ \A i \in 1 .. Len(segs) : BytesIn(segs)[i] = segs[i].bytes
  BY BytesInType
<1>4. /\ b \in Seq(Seq(Byte)) /\ Len(b) = Len(segs) + 1
      /\ \A i \in 1 .. Len(segs) : b[i] = BytesIn(segs)[i]
      /\ b[Len(segs) + 1] = x.bytes
  BY <1>1, <1>3, AppendProperties
<1> HIDE DEF a, b
<1>5. ASSUME NEW i \in 1 .. Len(segs) + 1 PROVE a[i] = b[i]
  <2>1. CASE i = Len(segs) + 1
    BY <1>1, <1>2, <1>4, <2>1
  <2>2. CASE i # Len(segs) + 1
    <3>1. i \in 1 .. Len(segs)
      BY <1>1, <2>2
    <3>2. a[i] = Append(segs, x)[i].bytes /\ Append(segs, x)[i] = segs[i]
      BY <1>1, <1>2, <3>1
    <3>3. b[i] = BytesIn(segs)[i] /\ BytesIn(segs)[i] = segs[i].bytes
      BY <1>3, <1>4, <3>1
    <3> QED
      BY <3>2, <3>3
  <2> QED
    BY <2>1, <2>2
<1>6. a = b
  <2>1. Len(a) = Len(b) /\ \A i \in 1 .. Len(a) : a[i] = b[i]
    BY <1>2, <1>4, <1>5
  <2> QED
    BY <1>2, <1>4, <2>1, SeqEqual
<1> QED
  BY <1>6 DEF a, b

(* The bytes behind the oldest segment. *)
LEMMA BytesInTail ==
    ASSUME NEW Byte, NEW S, Carries(S, Byte), NEW segs \in Seq(S), segs # <<>>
    PROVE  BytesIn(Tail(segs)) = Tail(BytesIn(segs))
<1> DEFINE a == BytesIn(Tail(segs))
           s == BytesIn(segs)
           b == Tail(s)
<1>1. /\ Tail(segs) \in Seq(S) /\ Len(Tail(segs)) = Len(segs) - 1
      /\ \A i \in 1 .. Len(Tail(segs)) : Tail(segs)[i] = segs[i + 1]
      /\ Len(segs) \in Nat \ {0}
  BY HeadTailProperties
<1>2. /\ a \in Seq(Seq(Byte)) /\ Len(a) = Len(segs) - 1
      /\ \A i \in 1 .. Len(segs) - 1 : a[i] = Tail(segs)[i].bytes
  BY <1>1, BytesInType
<1>3. /\ s \in Seq(Seq(Byte)) /\ Len(s) = Len(segs)
      /\ \A i \in 1 .. Len(segs) : s[i] = segs[i].bytes
  BY BytesInType
<1> HIDE DEF s
<1>4. s # <<>>
  BY <1>1, <1>3
<1>5. /\ b \in Seq(Seq(Byte)) /\ Len(b) = Len(segs) - 1
      /\ \A i \in 1 .. Len(b) : b[i] = s[i + 1]
  BY <1>3, <1>4, HeadTailProperties
<1> HIDE DEF a, b
<1>6. \A i \in 1 .. Len(a) : a[i] = b[i]
  BY <1>1, <1>2, <1>3, <1>5
<1>7. a = b
  BY <1>1, <1>2, <1>5, <1>6, SeqEqual
<1> QED
  BY <1>7 DEF a, b, s

(* One segment replaced. *)
LEMMA BytesInExcept ==
    ASSUME NEW Byte, NEW S, Carries(S, Byte), NEW segs \in Seq(S), NEW k \in 1 .. Len(segs),
           NEW x \in S
    PROVE  BytesIn([segs EXCEPT ![k] = x]) = [BytesIn(segs) EXCEPT ![k] = x.bytes]
<1>1. /\ [segs EXCEPT ![k] = x] \in Seq(S)
      /\ Len([segs EXCEPT ![k] = x]) = Len(segs)
      /\ \A i \in 1 .. Len(segs) : [segs EXCEPT ![k] = x][i] = IF i = k THEN x ELSE segs[i]
      /\ Len(segs) \in Nat /\ x.bytes \in Seq(Byte)
  BY ExceptSeq DEF Carries
<1> DEFINE changed == [segs EXCEPT ![k] = x]
           a == BytesIn(changed)
           s == BytesIn(segs)
           b == [s EXCEPT ![k] = x.bytes]
<1>2. /\ a \in Seq(Seq(Byte)) /\ Len(a) = Len(segs)
      /\ \A i \in 1 .. Len(segs) : a[i] = changed[i].bytes
  <2> HIDE DEF changed
  <2>1. changed \in Seq(S) /\ Len(changed) = Len(segs)
    BY <1>1 DEF changed
  <2> QED
    BY <2>1, BytesInType
<1>3. /\ s \in Seq(Seq(Byte)) /\ Len(s) = Len(segs)
      /\ \A i \in 1 .. Len(segs) : s[i] = segs[i].bytes
  BY BytesInType
<1> HIDE DEF s
<1>4. /\ b \in Seq(Seq(Byte)) /\ Len(b) = Len(segs)
      /\ \A i \in 1 .. Len(segs) : b[i] = IF i = k THEN x.bytes ELSE s[i]
  BY <1>1, <1>3, ExceptSeq
<1>5. \A i \in 1 .. Len(segs) : changed[i] = IF i = k THEN x ELSE segs[i]
  BY <1>1
<1> HIDE DEF a, b, changed
<1>6. Len(a) = Len(b) /\ \A i \in 1 .. Len(a) : a[i] = b[i]
  BY <1>2, <1>3, <1>4, <1>5
<1>7. a = b
  BY <1>2, <1>4, <1>6, SeqEqual
<1> QED
  BY <1>7 DEF a, b, s, changed

(* resize moves no byte: it opens a segment, renames an empty one, or      *)
(* lets the two oldest become one.                                         *)
LEMMA MergeOldestBytes ==
    ASSUME NEW Byte, NEW segs \in Seq(Segment(Byte)), segs # <<>>
    PROVE  /\ MergeOldest(segs) \in Seq(Segment(Byte))
           /\ FlattenSeq(BytesIn(MergeOldest(segs))) = FlattenSeq(BytesIn(segs))
<1>1. CASE ~(Len(segs) >= MaxSegments)
  BY <1>1 DEF MergeOldest
<1>2. CASE Len(segs) >= MaxSegments
  <2> DEFINE both == segs[1].bytes \o segs[2].bytes
             head == WithBytes(segs[2], both)
             joined == [segs EXCEPT ![2] = head]
             s == BytesIn(segs)
             t == BytesIn(joined)
  <2>0. Carries(Segment(Byte), Byte)
    BY Carriers
  <2>1. Len(segs) \in Nat /\ Len(segs) >= 2
    BY <1>2, RingAssumption
  <2>2. segs[1] \in Segment(Byte) /\ segs[2] \in Segment(Byte)
    BY <2>1
  <2>3. /\ segs[1].bytes \in Seq(Byte) /\ segs[2].bytes \in Seq(Byte)
        /\ segs[2].size \in Size
    BY <2>2 DEF Segment
  <2>4. both \in Seq(Byte)
    BY <2>3, ConcatProperties
  <2>5. head \in Segment(Byte) /\ head.bytes = both
    BY <2>3, <2>4 DEF Segment, WithBytes
  <2> HIDE DEF both, head
  <2>6. /\ joined \in Seq(Segment(Byte)) /\ Len(joined) = Len(segs)
        /\ \A j \in 1 .. Len(segs) : joined[j] = IF j = 2 THEN head ELSE segs[j]
    BY <2>1, <2>5, ExceptSeq
  <2>7. MergeOldest(segs) = Tail(joined)
    BY <1>2 DEF MergeOldest, joined, head, both
  <2>8. /\ s \in Seq(Seq(Byte)) /\ Len(s) = Len(segs)
        /\ s[1] = segs[1].bytes /\ s[2] = segs[2].bytes
    BY <2>0, <2>1, BytesInType
  <2>9. t = [s EXCEPT ![2] = both]
    BY <2>0, <2>1, <2>5, BytesInExcept
  <2> HIDE DEF s, t, joined
  <2>10. joined # <<>>
    BY <2>1, <2>6
  <2>11. BytesIn(Tail(joined)) = Tail(t)
    BY <2>0, <2>6, <2>10, BytesInTail DEF t
  <2>12. Tail(t) = <<both>> \o Tail(Tail(s))
    <3>1. /\ t \in Seq(Seq(Byte)) /\ Len(t) = Len(s)
          /\ \A i \in 1 .. Len(s) : t[i] = IF i = 2 THEN both ELSE s[i]
      BY <2>1, <2>4, <2>8, <2>9, ExceptSeq
    <3>2. t # <<>> /\ s # <<>>
      BY <2>1, <2>8, <3>1
    <3> DEFINE tt == Tail(t)
               st == Tail(s)
    <3>3. /\ tt \in Seq(Seq(Byte)) /\ Len(tt) = Len(s) - 1
          /\ \A i \in 1 .. Len(tt) : tt[i] = t[i + 1]
      BY <3>1, <3>2, HeadTailProperties
    <3>4. /\ st \in Seq(Seq(Byte)) /\ Len(st) = Len(s) - 1
          /\ \A i \in 1 .. Len(st) : st[i] = s[i + 1]
      BY <2>8, <3>2, HeadTailProperties
    <3> HIDE DEF tt, st
    <3>5. tt # <<>> /\ st # <<>>
      BY <2>1, <2>8, <3>3, <3>4
    <3>6. Tail(tt) = Tail(st)
      <4>1. /\ Tail(tt) \in Seq(Seq(Byte)) /\ Len(Tail(tt)) = Len(s) - 2
            /\ \A i \in 1 .. Len(Tail(tt)) : Tail(tt)[i] = tt[i + 1]
        BY <2>1, <2>8, <3>3, <3>5, HeadTailProperties
      <4>2. /\ Tail(st) \in Seq(Seq(Byte)) /\ Len(Tail(st)) = Len(s) - 2
            /\ \A i \in 1 .. Len(Tail(st)) : Tail(st)[i] = st[i + 1]
        BY <2>1, <2>8, <3>4, <3>5, HeadTailProperties
      <4>3. \A i \in 1 .. Len(s) - 2 : tt[i + 1] = st[i + 1]
        <5> SUFFICES ASSUME NEW i \in 1 .. Len(s) - 2 PROVE tt[i + 1] = st[i + 1]
          OBVIOUS
        <5>1. i + 1 \in 1 .. Len(s) - 1 /\ i + 2 \in 1 .. Len(s) /\ i + 2 # 2
          BY <2>1, <2>8
        <5>2. tt[i + 1] = t[i + 1 + 1] /\ st[i + 1] = s[i + 1 + 1] /\ i + 1 + 1 = i + 2
          BY <3>3, <3>4, <5>1
        <5> QED
          BY <3>1, <5>1, <5>2
      <4> DEFINE p == Tail(tt)
                 q == Tail(st)
      <4> HIDE DEF p, q
      <4>4. p \in Seq(Seq(Byte)) /\ q \in Seq(Seq(Byte)) /\ Len(p) = Len(q)
            /\ \A i \in 1 .. Len(p) : p[i] = q[i]
        BY <4>1, <4>2, <4>3 DEF p, q
      <4>5. p = q
        BY <4>4, SeqEqual
      <4> QED
        BY <4>5 DEF p, q
    <3>7. Head(tt) = both
      BY <2>1, <2>8, <3>1, <3>3, <3>5
    <3>8. << Head(tt) >> \o Tail(tt) = tt
      BY <3>3, <3>5, HeadThenTail
    <3> QED
      BY <3>6, <3>7, <3>8 DEF tt, st
  <2>13. /\ FlattenSeq(s) = segs[1].bytes \o FlattenSeq(Tail(s))
         /\ FlattenSeq(Tail(s)) = segs[2].bytes \o FlattenSeq(Tail(Tail(s)))
         /\ Tail(Tail(s)) \in Seq(Seq(Byte))
    <3>1. s # <<>> /\ Head(s) = segs[1].bytes
      BY <2>1, <2>8
    <3>2. Tail(s) \in Seq(Seq(Byte)) /\ Len(Tail(s)) = Len(s) - 1 /\ Tail(s)[1] = s[2]
      BY <2>1, <2>8, <3>1, HeadTailProperties
    <3>3. Tail(s) # <<>> /\ Head(Tail(s)) = segs[2].bytes
      <4> DEFINE st == Tail(s)
      <4>1. st \in Seq(Seq(Byte)) /\ Len(st) = Len(s) - 1 /\ st[1] = s[2]
        BY <3>2
      <4> HIDE DEF st
      <4>2. st # <<>> /\ Head(st) = s[2]
        BY <2>1, <2>8, <4>1
      <4> QED
        BY <2>8, <4>2 DEF st
    <3>4. Tail(Tail(s)) \in Seq(Seq(Byte))
      BY <3>2, <3>3, HeadTailProperties
    <3>5. FlattenSeq(s) = Head(s) \o FlattenSeq(Tail(s))
      BY <2>8, <3>1, FlattenHead
    <3>6. FlattenSeq(Tail(s)) = Head(Tail(s)) \o FlattenSeq(Tail(Tail(s)))
      BY <3>2, <3>3, FlattenHead
    <3> QED
      BY <3>1, <3>3, <3>4, <3>5, <3>6
  <2>14. FlattenSeq(<<both>> \o Tail(Tail(s))) = both \o FlattenSeq(Tail(Tail(s)))
    <3>1. <<both>> \in Seq(Seq(Byte))
      BY <2>4
    <3>2. FlattenSeq(<<both>>) = both
      BY <2>4, FlattenOne
    <3>3. \A ss, tt \in Seq(Seq(Byte)) : FlattenSeq(ss \o tt) = FlattenSeq(ss) \o FlattenSeq(tt)
      BY FlattenConcat
    <3> QED
      BY <2>13, <3>1, <3>2, <3>3
  <2>15. both \o FlattenSeq(Tail(Tail(s))) = FlattenSeq(s)
    <3>1. FlattenSeq(Tail(Tail(s))) \in Seq(Byte)
      BY <2>13, FlattenType
    <3>2. \A p, q, u \in Seq(Byte) : (p \o q) \o u = p \o (q \o u)
      BY ConcatAssociative
    <3> DEFINE p == segs[1].bytes
               q == segs[2].bytes
               u == FlattenSeq(Tail(Tail(s)))
    <3>3. p \in Seq(Byte) /\ q \in Seq(Byte) /\ u \in Seq(Byte)
      BY <2>3, <3>1
    <3>4. FlattenSeq(s) = p \o (q \o u) /\ both = p \o q
      BY <2>13 DEF both
    <3> HIDE DEF p, q, u
    <3>5. (p \o q) \o u = p \o (q \o u)
      BY <3>2, <3>3
    <3> QED
      BY <3>4, <3>5 DEF u
  <2>16. Tail(joined) \in Seq(Segment(Byte))
    BY <2>6, <2>10, HeadTailProperties
  <2> QED
    BY <2>7, <2>11, <2>12, <2>14, <2>15, <2>16 DEF s
<1> QED
  BY <1>1, <1>2

(* The newest segment replaced. *)
LEMMA NewestReplaced ==
    ASSUME NEW Byte, NEW segs \in Seq(Segment(Byte)), segs # <<>>, NEW x \in Segment(Byte)
    PROVE  LET s == BytesIn(segs)
               front == SubSeq(s, 1, Len(s) - 1)
           IN  /\ front \in Seq(Seq(Byte)) /\ FlattenSeq(front) \in Seq(Byte)
               /\ FlattenSeq(s) = FlattenSeq(front) \o segs[Len(segs)].bytes
               /\ FlattenSeq(BytesIn([segs EXCEPT ![Len(segs)] = x]))
                     = FlattenSeq(front) \o x.bytes
<1> DEFINE n == Len(segs)
           s == BytesIn(segs)
           front == SubSeq(s, 1, Len(s) - 1)
<1>0. Carries(Segment(Byte), Byte)
  BY Carriers
<1>1. n \in Nat /\ n >= 1 /\ n \in 1 .. Len(segs) /\ x.bytes \in Seq(Byte)
  BY DEF Segment
<1>2. BytesIn([segs EXCEPT ![n] = x]) = [s EXCEPT ![n] = x.bytes]
  <2> HIDE DEF n
  <2>1. BytesIn([segs EXCEPT ![n] = x]) = [BytesIn(segs) EXCEPT ![n] = x.bytes]
    BY <1>0, <1>1, BytesInExcept
  <2> QED
    BY <2>1
<1>3. s \in Seq(Seq(Byte)) /\ Len(s) = n /\ s[n] = segs[n].bytes
  BY <1>0, <1>1, BytesInType
<1> HIDE DEF s
<1>4. s # <<>>
  BY <1>1, <1>3
<1>5. front \in Seq(Seq(Byte)) /\ FlattenSeq(s) = FlattenSeq(front) \o s[n]
  BY <1>3, <1>4, FlattenFront
<1>6. FlattenSeq([s EXCEPT ![Len(s)] = x.bytes]) = FlattenSeq(front) \o x.bytes
  BY <1>1, <1>3, <1>4, FlattenLastReplaced
<1>7. FlattenSeq(front) \in Seq(Byte)
  BY <1>5, FlattenType
<1> QED
  BY <1>2, <1>3, <1>5, <1>6, <1>7 DEF s

(* A byte more in the newest segment is a byte more at the end. *)
LEMMA GrownBytes ==
    ASSUME NEW Byte, NEW segs \in Seq(Segment(Byte)), segs # <<>>, NEW b \in Byte
    PROVE  LET grown == [segs EXCEPT ![Len(segs)] = WithBytes(@, Append(@.bytes, b))]
           IN  /\ grown \in Seq(Segment(Byte)) /\ Len(grown) = Len(segs)
               /\ FlattenSeq(BytesIn(grown)) = Append(FlattenSeq(BytesIn(segs)), b)
<1> DEFINE n == Len(segs)
           s == BytesIn(segs)
           front == SubSeq(s, 1, Len(s) - 1)
           last == WithBytes(segs[n], Append(segs[n].bytes, b))
           grown == [segs EXCEPT ![n] = last]
<1>1. n \in Nat /\ n >= 1 /\ n \in 1 .. Len(segs) /\ segs[n] \in Segment(Byte)
  OBVIOUS
<1>2. segs[n].bytes \in Seq(Byte) /\ segs[n].size \in Size
  BY <1>1 DEF Segment
<1>3. Append(segs[n].bytes, b) \in Seq(Byte)
  BY <1>2, AppendProperties
<1>4. last \in Segment(Byte) /\ last.bytes = Append(segs[n].bytes, b)
  BY <1>2, <1>3 DEF Segment, WithBytes
<1> HIDE DEF last
<1>5. grown \in Seq(Segment(Byte)) /\ Len(grown) = Len(segs)
  BY <1>1, <1>4, ExceptSeq
<1>6. /\ FlattenSeq(front) \in Seq(Byte)
      /\ FlattenSeq(s) = FlattenSeq(front) \o segs[n].bytes
      /\ FlattenSeq(BytesIn(grown)) = FlattenSeq(front) \o last.bytes
  BY <1>4, NewestReplaced
<1> HIDE DEF front, s
<1>7. FlattenSeq(front) \o Append(segs[n].bytes, b)
          = Append(FlattenSeq(front) \o segs[n].bytes, b)
  BY <1>2, <1>6, ConcatAppend
<1> QED
  BY <1>4, <1>5, <1>6, <1>7 DEF s, last

(* The oldest segment replaced. *)
LEMMA FirstReplaced ==
    ASSUME NEW Byte, NEW segs \in Seq(Segment(Byte)), segs # <<>>, NEW x \in Segment(Byte)
    PROVE  FlattenSeq(BytesIn([segs EXCEPT ![1] = x]))
               = x.bytes \o FlattenSeq(Tail(BytesIn(segs)))
<1> DEFINE k == 1
           s == BytesIn(segs)
<1>0. Carries(Segment(Byte), Byte)
  BY Carriers
<1>1. k \in 1 .. Len(segs)
  OBVIOUS
<1> HIDE DEF k
<1>2. BytesIn([segs EXCEPT ![k] = x]) = [BytesIn(segs) EXCEPT ![k] = x.bytes]
  BY <1>0, <1>1, BytesInExcept
<1>3. s \in Seq(Seq(Byte)) /\ Len(s) = Len(segs) /\ x.bytes \in Seq(Byte)
  BY <1>0, BytesInType DEF Segment
<1> HIDE DEF s
<1>4. s # <<>>
  BY <1>1, <1>3
<1>5. FlattenSeq([s EXCEPT ![1] = x.bytes]) = x.bytes \o FlattenSeq(Tail(s))
  BY <1>3, <1>4, FlattenFirstReplaced
<1> QED
  BY <1>2, <1>5 DEF k, s

(* The drain takes the oldest byte. *)
LEMMA DrainOneBytes ==
    ASSUME NEW Byte, NEW segs \in Seq(Segment(Byte)), segs # <<>>, segs[1].bytes # <<>>
    PROVE  FlattenSeq(BytesIn(DrainOne(segs))) = Tail(FlattenSeq(BytesIn(segs)))
<1> DEFINE s == BytesIn(segs)
           first == segs[1].bytes
           rest == Tail(first)
           others == FlattenSeq(Tail(s))
<1>0. Carries(Segment(Byte), Byte)
  BY Carriers
<1>1. 1 \in 1 .. Len(segs) /\ segs[1] \in Segment(Byte) /\ Len(segs) \in Nat \ {0}
  OBVIOUS
<1>2. first \in Seq(Byte) /\ segs[1].size \in Size /\ first # <<>>
  BY <1>1 DEF Segment
<1>3. rest \in Seq(Byte)
  BY <1>2, HeadTailProperties
<1>4. s \in Seq(Seq(Byte)) /\ Len(s) = Len(segs) /\ s[1] = first
  BY <1>0, <1>1, BytesInType
<1> HIDE DEF s, first
<1>5. s # <<>> /\ Head(s) = first
  BY <1>1, <1>4
<1>6. Tail(s) \in Seq(Seq(Byte)) /\ FlattenSeq(s) = first \o others
  BY <1>4, <1>5, HeadTailProperties, FlattenHead
<1>7. others \in Seq(Byte)
  BY <1>6, FlattenType
<1> HIDE DEF others
<1>8. Tail(first \o others) = rest \o others
  BY <1>2, <1>7, TailOfConcat
<1>9. CASE rest = <<>> /\ Len(segs) > 1
  <2>1. DrainOne(segs) = Tail(segs)
    BY <1>9 DEF DrainOne, first
  <2>2. BytesIn(Tail(segs)) = Tail(s)
    BY <1>0, BytesInTail DEF s
  <2>3. rest \o others = others
    BY <1>7, <1>9, ConcatEmptySeq
  <2> QED
    BY <1>6, <1>8, <2>1, <2>2, <2>3 DEF s, others
<1>10. CASE ~(rest = <<>> /\ Len(segs) > 1)
  <2> DEFINE x == WithBytes(segs[1], rest)
  <2>1. DrainOne(segs) = [segs EXCEPT ![1] = x]
    BY <1>10 DEF DrainOne, first
  <2>2. x \in Segment(Byte) /\ x.bytes = rest
    BY <1>2, <1>3 DEF Segment, WithBytes
  <2> HIDE DEF x
  <2>3. FlattenSeq(BytesIn([segs EXCEPT ![1] = x])) = x.bytes \o FlattenSeq(Tail(BytesIn(segs)))
    BY <2>2, FirstReplaced
  <2> QED
    BY <1>6, <1>8, <2>1, <2>2, <2>3 DEF s, others
<1> QED
  BY <1>9, <1>10

(* A new ring holds nothing. *)
LEMMA NewBytes ==
    ASSUME NEW s \in Size
    PROVE  RingBytes(RingNew(s)) = <<>> /\ RingExact(RingNew(s))
<1>1. BytesIn(RingNew(s).segments) = << <<>> >>
  BY DEF BytesIn, RingNew
<1>2. \A S : FlattenSeq(<< <<>> >>) = <<>>
  <2> SUFFICES ASSUME NEW S PROVE FlattenSeq(<< <<>> >>) = <<>>
    OBVIOUS
  <2> DEFINE x == <<>>
  <2>1. x \in Seq(S)
    OBVIOUS
  <2> HIDE DEF x
  <2>2. FlattenSeq(<< x >>) = x
    BY <2>1, FlattenOne
  <2> QED
    BY <2>2 DEF x
<1>3. RingBytes(RingNew(s)) = <<>>
  BY <1>1, <1>2 DEF RingBytes
<1>4. RingNew(s).len = 0 /\ Len(<<>>) = 0 /\ 0 <= RingCap
  BY RingAssumption DEF RingNew
<1> QED
  BY <1>3, <1>4 DEF RingExact

(* The bytes of a ring are a sequence of bytes. *)
LEMMA RingBytesType ==
    ASSUME NEW Byte, NEW r, r.segments \in Seq(Segment(Byte))
    PROVE  RingBytes(r) \in Seq(Byte)
<1>1. Carries(Segment(Byte), Byte)
  BY Carriers
<1>2. BytesIn(r.segments) \in Seq(Seq(Byte))
  BY <1>1, BytesInType
<1> QED
  BY <1>2, FlattenType DEF RingBytes

(* append: the byte comes last, and the oldest one leaves a full ring. *)
LEMMA PushBytes ==
    ASSUME NEW Byte, NEW r, RingOK(r, Byte), RingExact(r), NEW b \in Byte
    PROVE  /\ RingBytes(RingPush(r, b)) =
                  IF r.len < RingCap THEN Append(RingBytes(r), b)
                                     ELSE Tail(Append(RingBytes(r), b))
           /\ RingExact(RingPush(r, b))
<1> DEFINE segs == r.segments
           n == Len(segs)
           grown == [segs EXCEPT ![n] = WithBytes(@, Append(@.bytes, b))]
           old == RingBytes(r)
           more == Append(old, b)
           pushed == RingPush(r, b)
           held == r.len
<1>1. segs \in Seq(Segment(Byte)) /\ segs # <<>> /\ n \in Nat \ {0}
      /\ held \in Nat /\ held = Len(old) /\ held <= RingCap
  BY DEF RingOK, Ring, RingExact
<1>2. RingCap \in Nat /\ RingCap >= 1
  BY RingAssumption
<1>3. old \in Seq(Byte)
  BY <1>1, RingBytesType
<1>4. /\ grown \in Seq(Segment(Byte)) /\ Len(grown) = n
      /\ FlattenSeq(BytesIn(grown)) = more
  BY <1>1, GrownBytes DEF RingBytes
<1> HIDE DEF old, held
<1>5. more \in Seq(Byte) /\ Len(more) = held + 1 /\ more # <<>>
      /\ \A i \in 1 .. held : more[i] = old[i]
      /\ more[held + 1] = b
  BY <1>1, <1>3, AppendProperties
<1> HIDE DEF grown, more
<1>6. Tail(more) \in Seq(Byte) /\ Len(Tail(more)) = held
      /\ \A i \in 1 .. held : Tail(more)[i] = more[i + 1]
  BY <1>1, <1>5, HeadTailProperties
<1>7. CASE RingCap = 1
  <2> DEFINE one == << b >>
  <2>1. pushed.segments = <<[size |-> Newest(r).size, bytes |-> one]>> /\ pushed.len = 1
    BY <1>7 DEF RingPush
  <2>2. BytesIn(pushed.segments) = << one >>
    BY <2>1 DEF BytesIn
  <2>3. one \in Seq(Byte) /\ Len(one) = 1 /\ one[1] = b
    OBVIOUS
  <2> HIDE DEF one
  <2>4. FlattenSeq(<< one >>) = one
    BY <2>3, FlattenOne
  <2>5. held = 0 => more = one
    <3> SUFFICES ASSUME held = 0 PROVE more = one
      OBVIOUS
    <3>1. Len(old) = 0
      BY <1>1
    <3>2. old = <<>>
      BY <1>3, <3>1, EmptySeq
    <3> QED
      BY <3>2 DEF more, one
  <2>6. held = 1 => Tail(more) = one
    <3> SUFFICES ASSUME held = 1 PROVE Tail(more) = one
      OBVIOUS
    <3> DEFINE t == Tail(more)
    <3>a. held + 1 = 1 + 1 /\ 1 \in 1 .. held
      OBVIOUS
    <3>1. t \in Seq(Byte) /\ Len(t) = 1 /\ t[1] = b
      BY <1>5, <1>6, <3>a
    <3> HIDE DEF t
    <3>2. Len(t) = Len(one) /\ \A i \in 1 .. Len(t) : t[i] = one[i]
      BY <2>3, <3>1
    <3>3. t = one
      BY <2>3, <3>1, <3>2, SeqEqual
    <3> QED
      BY <3>3 DEF t
  <2>7. RingBytes(pushed) = one
    BY <2>2, <2>4 DEF RingBytes
  <2>8. held = 0 \/ held = 1
    BY <1>1, <1>7
  <2> QED
    BY <1>7, <2>1, <2>3, <2>5, <2>6, <2>7, <2>8 DEF RingExact, more, old, held
<1>8. CASE RingCap # 1 /\ held < RingCap
  <2>1. pushed.segments = grown /\ pushed.len = held + 1
    BY <1>8 DEF RingPush, grown, held
  <2>2. RingBytes(pushed) = more
    BY <1>4, <2>1 DEF RingBytes
  <2>3. held + 1 <= RingCap
    BY <1>1, <1>2, <1>8
  <2> QED
    BY <1>5, <1>8, <2>1, <2>2, <2>3 DEF RingExact, more, old, held
<1>9. CASE RingCap # 1 /\ ~(held < RingCap)
  <2>1. pushed.segments = DrainOne(grown) /\ pushed.len = held
    BY <1>9 DEF RingPush, grown, held
  <2>2. grown # <<>>
    BY <1>1, <1>4
  <2>3. grown[1].bytes # <<>>
    <3>1. \A i \in 1 .. n : grown[i] = IF i = n
              THEN WithBytes(segs[n], Append(segs[n].bytes, b)) ELSE segs[i]
      BY <1>1 DEF grown
    <3>2. CASE n = 1
      <4>1. grown[1] = WithBytes(segs[n], Append(segs[n].bytes, b))
        BY <3>1, <3>2
      <4>2. segs[n].bytes \in Seq(Byte)
        <5>1. segs[n] \in Segment(Byte)
          BY <1>1
        <5> QED
          BY <5>1 DEF Segment
      <4>3. Append(segs[n].bytes, b) # <<>>
        BY <4>2, AppendProperties
      <4> QED
        BY <4>1, <4>3 DEF WithBytes
    <3>3. CASE n # 1
      <4>1. 1 \in 1 .. n - 1 /\ grown[1] = segs[1]
        <5> HIDE DEF n
        <5>1. 1 \in 1 .. n - 1 /\ 1 \in 1 .. n /\ 1 # n
          BY <1>1, <3>3
        <5> QED
          BY <3>1, <5>1
      <4> QED
        BY <4>1 DEF RingOK, OnlyNewestEmpty
    <3> QED
      BY <3>2, <3>3
  <2>4. FlattenSeq(BytesIn(DrainOne(grown))) = Tail(more)
    BY <1>4, <2>2, <2>3, DrainOneBytes
  <2>5. RingBytes(pushed) = Tail(more)
    BY <2>1, <2>4 DEF RingBytes
  <2> QED
    BY <1>1, <1>6, <1>9, <2>1, <2>5 DEF RingExact, more, old, held
<1> QED
  BY <1>7, <1>8, <1>9

(* resize moves no byte. *)
LEMMA ResizeBytes ==
    ASSUME NEW Byte, NEW r, RingOK(r, Byte), NEW s \in Size
    PROVE  RingBytes(RingResize(r, s)) = RingBytes(r) /\ RingResize(r, s).len = r.len
<1> DEFINE segs == r.segments
           n == Len(segs)
           last == [size |-> s, bytes |-> <<>>]
           done == RingResize(r, s)
<1>1. segs \in Seq(Segment(Byte)) /\ segs # <<>> /\ n \in Nat \ {0}
      /\ r = [segments |-> segs, len |-> r.len]
  BY DEF RingOK, Ring
<1>2. last \in Segment(Byte) /\ last.bytes = <<>>
  BY DEF Segment
<1>3. Carries(Segment(Byte), Byte)
  BY Carriers
<1>4. CASE ~RingResizes(r, s)
  BY <1>4 DEF RingResize
<1>5. CASE RingResizes(r, s) /\ Newest(r).bytes = <<>>
  <2>1. done.segments = [segs EXCEPT ![n] = last] /\ done.len = r.len
    BY <1>1, <1>5 DEF RingResize
  <2> HIDE DEF last
  <2> DEFINE front == SubSeq(BytesIn(segs), 1, Len(BytesIn(segs)) - 1)
  <2>2. /\ FlattenSeq(BytesIn(segs)) = FlattenSeq(front) \o segs[n].bytes
        /\ FlattenSeq(BytesIn([segs EXCEPT ![n] = last])) = FlattenSeq(front) \o last.bytes
    BY <1>1, <1>2, NewestReplaced
  <2>3. segs[n].bytes = <<>>
    BY <1>5 DEF Newest
  <2> QED
    BY <1>2, <2>1, <2>2, <2>3 DEF RingBytes
<1>6. CASE RingResizes(r, s) /\ Newest(r).bytes # <<>>
  <2> DEFINE merged == MergeOldest(segs)
  <2>1. done.segments = Append(merged, last) /\ done.len = r.len
    BY <1>1, <1>6 DEF RingResize
  <2>2. merged \in Seq(Segment(Byte))
        /\ FlattenSeq(BytesIn(merged)) = FlattenSeq(BytesIn(segs))
    BY <1>1, MergeOldestBytes
  <2> HIDE DEF last, merged
  <2>3. BytesIn(Append(merged, last)) = Append(BytesIn(merged), <<>>)
    BY <1>2, <1>3, <2>2, BytesInAppend
  <2> DEFINE m == BytesIn(merged)
  <2>4. m \in Seq(Seq(Byte))
    BY <1>3, <2>2, BytesInType
  <2> HIDE DEF m
  <2>5. FlattenSeq(m) \in Seq(Byte) /\ <<>> \in Seq(Byte)
    BY <2>4, FlattenType
  <2>6. FlattenSeq(Append(m, <<>>)) = FlattenSeq(m) \o <<>>
    BY <2>4, <2>5, FlattenAppend
  <2>7. FlattenSeq(m) \o <<>> = FlattenSeq(m)
    BY <2>5, ConcatEmptySeq
  <2> QED
    BY <2>1, <2>2, <2>3, <2>6, <2>7 DEF RingBytes, m
<1> QED
  BY <1>4, <1>5, <1>6

=============================================================================
