----------------------------- MODULE ReplayRing -----------------------------
(***************************************************************************)
(* ReplayRing of sessiond/src/pane.rs for chunks of every length, down to  *)
(* the two slices of the VecDeque that holds a segment's bytes.  One pane  *)
(* appends what its terminal prints (and, for an agent pane, what is typed *)
(* into it) and resizes; attach replays the ring, and the pane list reads  *)
(* its last bytes to find the window title.                                *)
(*                                                                         *)
(* Bytes are numbered as they are appended, so the stream so far is        *)
(* 1 .. total.  PaneRing.tla is the same ring one byte at a time; the      *)
(* properties below show that it is this ring's one-byte case.             *)
(***************************************************************************)
EXTENDS PaneRing, SequencesExt

CONSTANTS
    DequeCap,       \* allocated length of a segment's VecDeque
    InitialSize,    \* the geometry of the SPAWN request
    MaxChunk,       \* bound: bytes of one append
    MaxBytes,       \* bound: bytes of the stream
    ScanWindow      \* TITLE_SCAN_WINDOW

ASSUME ReplayRingAssumption ==
    /\ DequeCap \in Nat /\ DequeCap >= 2 * RingCap
    /\ InitialSize \in Size
    /\ MaxChunk \in Nat /\ MaxBytes \in Nat /\ ScanWindow \in Nat

VARIABLES
    ring,       \* segments, each with its deque, and the bytes held
    total,      \* bytes appended so far
    geo         \* the geometry each byte was appended under

ringVars == <<ring, total, geo>>

-----------------------------------------------------------------------------
(* VecDeque<u8>: a circular buffer that starts at `front`.  One that is    *)
(* drained empty starts over; the buffer is taken to be allocated already  *)
(* (it grows by moving to a larger one).                                   *)
EmptyDeque == [front |-> 0, bytes |-> <<>>]

Extend(d, bs) == [front |-> d.front, bytes |-> d.bytes \o bs]

Drain(d, n) ==
    IF n >= Len(d.bytes) THEN EmptyDeque
    ELSE [front |-> (d.front + n) % DequeCap,
          bytes |-> SubSeq(d.bytes, n + 1, Len(d.bytes))]

(* as_slices: up to the end of the buffer, and from its start.             *)
AsSlices(d) ==
    LET a == IF Len(d.bytes) <= DequeCap - d.front
             THEN Len(d.bytes) ELSE DequeCap - d.front
    IN  <<SubSeq(d.bytes, 1, a), SubSeq(d.bytes, a + 1, Len(d.bytes))>>

-----------------------------------------------------------------------------
RingSegmentEmpty(s) == [size |-> s, deque |-> EmptyDeque]

SegmentBytes(seg) == AsSlices(seg.deque)[1] \o AsSlices(seg.deque)[2]

ReplayRingNew(s) == [segments |-> <<RingSegmentEmpty(s)>>, len |-> 0]

(* Mutant: merged bytes take the geometry of the oldest segment. *)
MergedUnderOldest(segs) ==
    IF Len(segs) >= MaxSegments
    THEN Tail([segs EXCEPT ![2] =
                   [size |-> segs[1].size,
                    deque |-> Extend(segs[1].deque, segs[2].deque.bytes)]])
    ELSE segs

(* `resize`: the result and whether the stream geometry changed.           *)
MergedHead(segs) ==
    IF Len(segs) >= MaxSegments
    THEN Tail([segs EXCEPT ![2].deque =
                   Extend(segs[1].deque, segs[2].deque.bytes)])
    ELSE segs

ReplayRingResize(r, s) ==
    LET n == Len(r.segments)
    IN  IF r.segments[n].size = s
        THEN [ring |-> r, changed |-> FALSE]
        ELSE IF r.segments[n].deque.bytes = <<>>
        THEN [ring |-> [r EXCEPT !.segments[n].size = s], changed |-> TRUE]
        ELSE [ring |-> [r EXCEPT !.segments =
                           Append(MergedHead(r.segments), RingSegmentEmpty(s))],
              changed |-> TRUE]

(* Mutant: an overflow is taken from the head segment alone. *)
DrainHeadOnly(segs, overflow) ==
    LET rest == [segs EXCEPT ![1].deque = Drain(segs[1].deque, overflow)]
    IN  IF rest[1].deque.bytes = <<>> /\ Len(rest) > 1 THEN Tail(rest) ELSE rest

(* One pass of the drain loop of `append`: what it leaves of the segments  *)
(* and of the overflow.                                                    *)
DrainHead(segs, overflow) ==
    LET held == Len(segs[1].deque.bytes)
        count == IF overflow < held THEN overflow ELSE held
        rest == [segs EXCEPT ![1].deque = Drain(segs[1].deque, count)]
    IN  [segments |-> IF rest[1].deque.bytes = <<>> /\ Len(rest) > 1
                      THEN Tail(rest) ELSE rest,
         overflow |-> overflow - count]

(* The loop, which meets each segment once at most. *)
DrainHeads(segs, overflow) ==
    LET pass[n \in Nat] ==
            IF n = 0 THEN [segments |-> segs, overflow |-> overflow]
            ELSE IF pass[n - 1].overflow = 0 THEN pass[n - 1]
            ELSE DrainHead(pass[n - 1].segments, pass[n - 1].overflow)
    IN  pass[Len(segs)].segments

(* Mutant: the drained bytes stay counted. *)
AppendCountsDrained(r, bs) ==
    LET n == Len(r.segments)
        grown == [r.segments EXCEPT ![n].deque.bytes = @ \o bs]
        len == r.len + Len(bs)
        overflow == IF len > RingCap THEN len - RingCap ELSE 0
    IN  [segments |-> DrainHeads(grown, overflow), len |-> len]

ReplayRingAppend(r, bs) ==
    LET n == Len(r.segments)
        grown == [r.segments EXCEPT ![n].deque.bytes = @ \o bs]
        len == r.len + Len(bs)
        overflow == IF len > RingCap THEN len - RingCap ELSE 0
    IN  IF bs = <<>> THEN r
        ELSE IF Len(bs) >= RingCap
        THEN [segments |-> <<[size |-> r.segments[n].size,
                              deque |-> Extend(EmptyDeque,
                                  SubSeq(bs, Len(bs) - RingCap + 1, Len(bs)))]>>,
              len |-> RingCap]
        ELSE [segments |-> DrainHeads(grown, overflow), len |-> len - overflow]

(* `replay`: SIZE, then SNAPSHOT unless the segment is empty.              *)
SegmentFrames(seg) ==
    <<SizeFrame(seg.size)>> \o
    (IF seg.deque.bytes = <<>> THEN <<>>
     ELSE <<BytesFrame("SNAPSHOT", SegmentBytes(seg))>>)

ReplayRingReplay(r) == FlattenSeq([i \in 1 .. Len(r.segments) |->
                                      SegmentFrames(r.segments[i])])

(* `tail_bytes`: newest segments first, each segment's tail from its two   *)
(* slices.                                                                 *)
TailChunk(seg, want) ==
    LET a == AsSlices(seg.deque)[1]
        b == AsSlices(seg.deque)[2]
        avail == Len(a) + Len(b)
        take == IF want < avail THEN want ELSE avail
        skip == avail - take
        skipA == IF skip < Len(a) THEN skip ELSE Len(a)
    IN  SubSeq(a, skipA + 1, Len(a)) \o SubSeq(b, 1, take - (Len(a) - skipA))

TailBytes(r, max) ==
    FoldLeft(LAMBDA out, seg :
                 IF Len(out) >= max THEN out
                 ELSE TailChunk(seg, max - Len(out)) \o out,
             <<>>, Reverse(r.segments))

-----------------------------------------------------------------------------
RingInit ==
    /\ ring = ReplayRingNew(InitialSize)
    /\ total = 0
    /\ geo = <<>>

NextBytes(n) == [i \in 1 .. n |-> total + i]

StreamSize == ring.segments[Len(ring.segments)].size

Appends ==
    \E n \in 1 .. MaxChunk :
        /\ total + n <= MaxBytes
        /\ ring' = ReplayRingAppend(ring, NextBytes(n))
        /\ total' = total + n
        /\ geo' = geo \o [i \in 1 .. n |-> StreamSize]

Resizes ==
    \E s \in Size :
        /\ ring' = ReplayRingResize(ring, s).ring
        /\ UNCHANGED <<total, geo>>

RingNext == Appends \/ Resizes

RingSpec == RingInit /\ [][RingNext]_ringVars

-----------------------------------------------------------------------------
Deque == [front : 0 .. DequeCap - 1, bytes : Seq(1 .. MaxBytes)]

RingTypeOK ==
    /\ ring \in [segments : Seq([size : Size, deque : Deque]), len : 0 .. RingCap]
    /\ total \in 0 .. MaxBytes
    /\ geo \in Seq(Size)

(* The bytes of the ring, oldest first. *)
Held == FlattenSeq([i \in 1 .. Len(ring.segments) |-> SegmentBytes(ring.segments[i])])

LastOf(n) == [i \in 1 .. n |-> total - n + i]

(***************************************************************************)
(* Whatever the chunks and resizes, the ring holds exactly the newest      *)
(* RingCap bytes of the stream, in order, and knows how many they are; it  *)
(* never has more than MAX_RING_SEGMENTS segments, and only the newest     *)
(* can be empty (append, resize, the drain and the merge together).        *)
(***************************************************************************)
RingHoldsTail ==
    /\ Held = LastOf(IF total < RingCap THEN total ELSE RingCap)
    /\ ring.len = Len(Held)
    /\ Len(ring.segments) <= MaxSegments
    /\ \A i \in 1 .. Len(ring.segments) - 1 :
           ring.segments[i].deque.bytes # <<>>

(***************************************************************************)
(* Every byte is replayed under the geometry it was printed for, except in *)
(* the oldest segment once it has absorbed older ones; there the newest    *)
(* byte still has its own (resize with MAX_RING_SEGMENTS).                 *)
(***************************************************************************)
GeometryKept ==
    \A i \in 1 .. Len(ring.segments) :
        LET seg == ring.segments[i]
            bs == seg.deque.bytes
        IN  \A j \in 1 .. Len(bs) :
                i > 1 \/ j = Len(bs) => geo[bs[j]] = seg.size

(* A ring without the fronts of its deques, which nobody can tell apart:   *)
(* PaneRing's form.  (The concatenation has TLC evaluate the sequence at   *)
(* once.)                                                                  *)
Bare(seg) == [size |-> seg.size, bytes |-> seg.deque.bytes]

Bares(segs) == <<>> \o [i \in 1 .. Len(segs) |-> Bare(segs[i])]

Shape(r) == [segments |-> Bares(r.segments), len |-> r.len]

(***************************************************************************)
(* How a stream is cut into reads leaves no trace: appending two chunks is *)
(* appending their concatenation, whatever overflows in between.           *)
(***************************************************************************)
ChunkingIsInvisible ==
    \A n \in 2 .. MaxChunk :
        LET bs == NextBytes(n)
            whole == Shape(ReplayRingAppend(ring, bs))
        IN  \A k \in 1 .. n - 1 :
                LET first == SubSeq(bs, 1, k)
                    rest == SubSeq(bs, k + 1, n)
                IN  whole = Shape(ReplayRingAppend(ReplayRingAppend(ring, first), rest))

(***************************************************************************)
(* PaneRing is this ring, byte by byte: its push, resize and replay give   *)
(* what append, resize and replay give here.                               *)
(***************************************************************************)
PaneRingAgrees ==
    /\ RingPush(Shape(ring), total + 1) =
           Shape(ReplayRingAppend(ring, NextBytes(1)))
    /\ \A s \in Size :
           /\ RingResize(Shape(ring), s) = Shape(ReplayRingResize(ring, s).ring)
           /\ RingResizes(Shape(ring), s) = ReplayRingResize(ring, s).changed
    /\ RingReplay(Shape(ring)) = ReplayRingReplay(ring)

(***************************************************************************)
(* "The last `max` bytes of the stream, oldest first" (tail_bytes): what   *)
(* the title scan of the pane list is handed.                              *)
(***************************************************************************)
TailBytesAreNewest ==
    TailBytes(ring, ScanWindow) =
        LastOf(IF ScanWindow < ring.len THEN ScanWindow ELSE ring.len)
=============================================================================
