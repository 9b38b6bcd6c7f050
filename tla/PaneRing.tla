------------------------------ MODULE PaneRing ------------------------------
(***************************************************************************)
(* The replay ring of a daemon pane (sessiond/src/pane.rs, ReplayRing), at *)
(* the granularity the pane itself needs: the reader appends one chunk at  *)
(* a time and a chunk is one byte.  A byte is a record that remembers      *)
(* which read or input produced it, so a property can tell bytes apart.    *)
(* ReplayRing.tla models the same ring for chunks of every length and      *)
(* checks that RingPush is its one-byte case.                              *)
(***************************************************************************)
EXTENDS Naturals, Sequences

CONSTANTS
    Size,           \* the window geometries a client may ask for
    NoSize,         \* the geometry field of a frame that carries none
    RingCap,        \* ring_bytes: the capacity of the ring, in bytes
    MaxSegments     \* MAX_RING_SEGMENTS

ASSUME RingAssumption ==
    /\ RingCap \in Nat \ {0}
    /\ MaxSegments \in Nat \ {0, 1}
    /\ NoSize \notin Size

(***************************************************************************)
(* Frames the daemon sends for a pane.  A frame is a record whatever its   *)
(* kind; SIZE carries a geometry, SNAPSHOT and OUTPUT carry bytes.         *)
(***************************************************************************)
Frame(Byte) ==
    [kind : {"SIZE", "SNAPSHOT", "OUTPUT", "ATTACHED", "EXITED"},
     size : Size \cup {NoSize}, bytes : Seq(Byte)]

SizeFrame(s) == [kind |-> "SIZE", size |-> s, bytes |-> <<>>]
BytesFrame(k, bs) == [kind |-> k, size |-> NoSize, bytes |-> bs]
Marker(k) == [kind |-> k, size |-> NoSize, bytes |-> <<>>]

(***************************************************************************)
(* The ring: segments from oldest to newest, each with the geometry its    *)
(* bytes were appended under, and the number of bytes held.                *)
(***************************************************************************)
Segment(Byte) == [size : Size, bytes : Seq(Byte)]
Ring(Byte) == [segments : Seq(Segment(Byte)), len : Nat]

Newest(r) == r.segments[Len(r.segments)]

RingNew(s) == [segments |-> <<[size |-> s, bytes |-> <<>>]>>, len |-> 0]

WithBytes(seg, bs) == [size |-> seg.size, bytes |-> bs]

(* `resize` returns whether the stream geometry changed. *)
RingResizes(r, s) == Newest(r).size # s

(* At MaxSegments the two oldest segments become one, under the younger    *)
(* one's geometry.                                                         *)
MergeOldest(segs) ==
    IF Len(segs) >= MaxSegments
    THEN Tail([segs EXCEPT ![2] =
                   WithBytes(segs[2], segs[1].bytes \o segs[2].bytes)])
    ELSE segs

(* Mutant: the geometry of bytes already held is overwritten. *)
ResizeInPlace(r, s) == [r EXCEPT !.segments[Len(r.segments)].size = s]

RingResize(r, s) ==
    IF ~RingResizes(r, s) THEN r
    ELSE IF Newest(r).bytes = <<>>
         THEN [r EXCEPT !.segments[Len(r.segments)] =
                          [size |-> s, bytes |-> <<>>]]
         ELSE [r EXCEPT !.segments =
                  Append(MergeOldest(r.segments), [size |-> s, bytes |-> <<>>])]

(* One byte drained from the front; a head emptied that way is dropped     *)
(* unless it is the only segment.                                          *)
DrainOne(segs) ==
    LET rest == Tail(segs[1].bytes)
    IN  IF rest = <<>> /\ Len(segs) > 1
        THEN Tail(segs)
        ELSE [segs EXCEPT ![1] = WithBytes(@, rest)]

(* Mutant: the ring is never drained. *)
PushUndrained(r, b) ==
    [segments |-> [r.segments EXCEPT ![Len(r.segments)] =
                                WithBytes(@, Append(@.bytes, b))],
     len |-> r.len + 1]

RingPush(r, b) ==
    LET grown == [r.segments EXCEPT ![Len(r.segments)] =
                                WithBytes(@, Append(@.bytes, b))]
    IN  IF RingCap = 1
        THEN [segments |-> <<[size |-> Newest(r).size, bytes |-> <<b>>]>>,
              len |-> 1]
        ELSE IF r.len < RingCap
             THEN [segments |-> grown, len |-> r.len + 1]
             ELSE [segments |-> DrainOne(grown), len |-> r.len]

(* Only the newest segment of a ring can be empty: a resize reuses an      *)
(* empty newest segment and a drained head is dropped.                     *)
OnlyNewestEmpty(r) ==
    \A i \in 1 .. Len(r.segments) - 1 : r.segments[i].bytes # <<>>

(* Mutant: the newest segment is taken to be empty always. *)
ReplayWithoutNewest(r) ==
    [i \in 1 .. 2 * Len(r.segments) - 1 |->
        IF i % 2 = 1 THEN SizeFrame(r.segments[(i + 1) \div 2].size)
                     ELSE BytesFrame("SNAPSHOT", r.segments[i \div 2].bytes)]

(* `replay`: SIZE, then SNAPSHOT unless the segment is empty, for each     *)
(* segment from the oldest.  Only the last SNAPSHOT can be missing.        *)
RingReplay(r) ==
    LET segs == r.segments
        frames == IF Newest(r).bytes = <<>> THEN 2 * Len(segs) - 1
                                            ELSE 2 * Len(segs)
    IN  [i \in 1 .. frames |->
            IF i % 2 = 1 THEN SizeFrame(segs[(i + 1) \div 2].size)
                         ELSE BytesFrame("SNAPSHOT", segs[i \div 2].bytes)]
=============================================================================
