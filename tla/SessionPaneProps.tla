-------------------------- MODULE SessionPaneProps --------------------------
(***************************************************************************)
(* What the clients of a pane can count on, stated over the frames that    *)
(* reach them.  These definitions fold over sequences; SessionPane.tla     *)
(* holds the invariants that are proved.                                   *)
(***************************************************************************)
EXTENDS SessionPane, SequencesExt

(* The bytes of a sequence of frames, in order. *)
BytesOf(frames) ==
    FlattenSeq([i \in 1 .. Len(frames) |-> frames[i].bytes])

(* The numbers of the PTY's own bytes among them.  Byte 0 is the           *)
(* bracketed-paste sequence attach adds.                                   *)
FromTerminal(b) == b.src = "out" /\ b.id # 0

OutputNumbers[bytes \in Seq(Byte)] ==
    FlattenSeq([i \in 1 .. Len(bytes) |->
                   IF FromTerminal(bytes[i]) THEN << bytes[i].id >> ELSE <<>>])

OutputIds[frames \in Seq(PaneFrame)] == OutputNumbers[BytesOf(frames)]

Published == IF rd = "have" THEN produced - 1 ELSE produced

(***************************************************************************)
(* A client's view of the terminal's output has no hole, no repetition and *)
(* no reordering, from the oldest replayed byte on, and for the current    *)
(* subscriber it ends at the last byte the reader published.               *)
(***************************************************************************)
OutputContiguous ==
    \A c \in Conn : Attached(c) =>
        LET ids == OutputIds[Flow(c)]
        IN  /\ \A i \in 1 .. Len(ids) - 1 : ids[i + 1] = ids[i] + 1
            /\ sub = c /\ ids # <<>> => ids[Len(ids)] = Published
            /\ sub = c /\ Replay /\ ~RingInput /\ Published > 0 => ids # <<>>

(***************************************************************************)
(* Every byte a client is handed comes under the geometry it was appended  *)
(* with: replayed and live bytes alike follow a SIZE frame that says so.   *)
(* A replay of MAX_RING_SEGMENTS segments is the exception: resize may     *)
(* have merged older bytes into its first SNAPSHOT (frame 2), and there    *)
(* the newest byte still has its own geometry.                             *)
(***************************************************************************)
GeometryBefore(frames, i) ==
    LET sizes == {j \in 1 .. i : frames[j].kind = "SIZE"}
    IN  IF sizes = {} THEN InitialSize
        ELSE frames[CHOOSE j \in sizes : \A k \in sizes : k <= j].size

FullReplay(c) ==
    LET n == 2 * MaxSegments - 1
    IN  n <= Len(base[c]) /\ base[c][n].kind = "SIZE"

BytesKeepGeometry ==
    Replay =>
    \A c \in Conn : Attached(c) =>
        \A i \in 1 .. Len(Flow(c)) :
            LET bytes == Flow(c)[i].bytes
            IN  \A j \in 1 .. Len(bytes) :
                    /\ bytes[j].id # 0
                    /\ FullReplay(c) => i > 2 \/ j = Len(bytes)
                    => bytes[j].geo = GeometryBefore(Flow(c), i)

(***************************************************************************)
(* A fresh surface that has consumed its stream is in the paste mode the   *)
(* daemon tracked, even when the ring rotated past the sequence that set   *)
(* it: the last switch of the stream, if there is one, says so.            *)
(***************************************************************************)
LastSwitchIsOn(bytes) ==
    \E i \in 1 .. Len(bytes) :
        /\ bytes[i].text = "pasteOn"
        /\ \A j \in i + 1 .. Len(bytes) : bytes[j].text = "plain"

PasteModeRestored ==
    \A c \in Conn : sub = c => LastSwitchIsOn(BytesOf(Flow(c))) = paste

(***************************************************************************)
(* Once no resize is on its way, the terminal has the geometry the stream  *)
(* last announced: a duplicate request may only be dropped because the     *)
(* terminal has that size already.                                         *)
(***************************************************************************)
TerminalHasStreamSize ==
    (\A c \in Conn : srv[c] # "ioctl") /\ ~killed => winsize = TailSize

(***************************************************************************)
(* An input reaches the child only after it was rung: in the replay of an  *)
(* agent pane a prompt stands before anything the child answers to it.     *)
(* As long as the ring never overflowed, all of them are still there.      *)
(***************************************************************************)
Rung == {b.id : b \in {b \in ToSet(BytesOf(RingReplay(ring))) : b.src = "in"}}

RungBeforeTyped ==
    Replay /\ RingInput /\ Published + asked <= RingCap
        => ToSet(typed) \subseteq Rung

(***************************************************************************)
(* A server thread whose client is gone ends: it detaches, and its join of *)
(* the writer thread is not a wait for ever.                               *)
(***************************************************************************)
ServerThreadsEnd ==
    \A c \in Conn : cli[c] = "closed" ~> srv[c] = "done"

(***************************************************************************)
(* Both ways to KILL reach a pane: it is marked dead in the end.           *)
(***************************************************************************)
KillTakesEffect == killer = "kill" ~> ~alive

(***************************************************************************)
(* A chunk in the reader's hand is always published: no client, however    *)
(* wedged, holds up the pane (the daemon-wide deadlock of 2026-09-22).     *)
(***************************************************************************)
ReaderNeverStalls == rd = "have" ~> rd = "read"

(***************************************************************************)
(* The pane with its threads, locks, channels and sockets implements       *)
(* PaneStream: one contiguous stream per viewer, whatever the interleaving *)
(* of reader, attach, takeover, detach and failing writers.                *)
(***************************************************************************)
Promised == INSTANCE PaneStream WITH
    Viewer <- Conn,
    NoViewer <- NoConn,
    Retained <- RingCap,
    stream <- OutputIds[live],
    holder <- sub,
    promised <- [c \in Conn |-> OutputIds[Flow(c)]],
    received <- [c \in Conn |-> OutputIds[got[c]]]

ImplementsPaneStream == Promised!Spec
=============================================================================
