------------------------- MODULE SessionPaneProofs -------------------------
(***************************************************************************)
(* Theorems about SessionPane, for every number of connections, every      *)
(* ring capacity, every bound and every interleaving.                      *)
(***************************************************************************)
EXTENDS SessionPane, PaneRingProofs, SequenceFacts

-----------------------------------------------------------------------------
(* Type correctness. *)

(* A server thread about to resize the PTY holds a RESIZE request. *)
ResizeInHand == \A c \in Conn : srv[c] = "ioctl" => arg[c].kind = "RESIZE"

TypeInv ==
    /\ TypeOK
    /\ RingOK(ring, Byte)
    /\ ResizeInHand

(* The variables Publish assigns. *)
PublishTypes ==
    /\ sub \in Conn \cup {NoConn}
    /\ chan \in [Conn -> Seq(PaneFrame)]
    /\ live \in Seq(PaneFrame)
    /\ upto \in [Conn -> Nat]

(* The newest segment has a geometry. *)
LEMMA TailSizeType ==
    ASSUME TypeInv
    PROVE  TailSize \in Size
<1>1. /\ ring.segments \in Seq(Segment(Byte))
      /\ Len(ring.segments) \in 1 .. Len(ring.segments)
  BY DEF TypeInv, RingOK, Ring
<1>2. ring.segments[Len(ring.segments)] \in Segment(Byte)
  BY <1>1
<1> QED
  BY <1>2 DEF TailSize, Newest, Segment

(* Publishing keeps the types of what it assigns. *)
LEMMA PublishType ==
    ASSUME TypeInv, NEW f \in PaneFrame, Publish(f)
    PROVE  PublishTypes'
<1>1. live' \in Seq(PaneFrame)
  BY DEF TypeInv, TypeOK, Publish
<1>2. /\ sub' \in Conn \cup {NoConn}
      /\ chan' \in [Conn -> Seq(PaneFrame)]
      /\ upto' \in [Conn -> Nat]
  <2>1. CASE sub = NoConn
    BY <2>1 DEF TypeInv, TypeOK, Publish
  <2>2. CASE sub # NoConn /\ Receiving(sub)
    <3>1. sub \in Conn /\ Len(live) + 1 \in Nat
      BY <2>2 DEF TypeInv, TypeOK
    <3>2. Append(chan[sub], f) \in Seq(PaneFrame)
      BY <3>1 DEF TypeInv, TypeOK
    <3>3. /\ sub' = sub
          /\ chan' = [chan EXCEPT ![sub] = Append(@, f)]
          /\ upto' = [upto EXCEPT ![sub] = Len(live) + 1]
      BY <2>2 DEF Publish
    <3> QED
      BY <3>1, <3>2, <3>3 DEF TypeInv, TypeOK
  <2>3. CASE sub # NoConn /\ ~Receiving(sub)
    BY <2>3 DEF TypeInv, TypeOK, Publish
  <2> QED
    BY <2>1, <2>2, <2>3
<1> QED
  BY <1>1, <1>2 DEF PublishTypes

(* The initial state is well typed. *)
LEMMA TypeInit ==
    ASSUME Init
    PROVE  TypeInv
<1>1. RingOK(ring, Byte)
  BY RingNewOK, PaneAssumption DEF Init
<1>2. ring \in Ring(Byte)
  BY <1>1 DEF RingOK
<1>3. <<>> \in Seq(PaneFrame) /\ <<>> \in Seq(Request) /\ <<>> \in Seq(Nat)
  OBVIOUS
<1>4. NoRequest \in Request
  BY DEF NoRequest, PlainRequest, Request
<1> QED
  BY <1>1, <1>2, <1>3, <1>4, PaneAssumption
     DEF Init, TypeInv, TypeOK, ResizeInHand, Chunk

(* Every step keeps the types. *)
LEMMA TypeStep ==
    ASSUME TypeInv, [Next]_vars
    PROVE  TypeInv'
<1> USE DEF TypeInv, ResizeInHand
<1>1. CASE ChildHides
  BY <1>1 DEF TypeOK, ChildHides, paneVars, childVars,
         serverVars, writerVars, clientVars, historyVars
<1>2. CASE ChildExits
  BY <1>2 DEF TypeOK, ChildExits, paneVars, childVars,
         serverVars, writerVars, clientVars, historyVars
<1>3. CASE ReaderReads
  <2>1. PICK t \in Text : chunk' = [id |-> produced + 1, text |-> t]
    BY <1>3 DEF ReaderReads
  <2>2. chunk' \in Chunk /\ produced' \in Nat
    BY <1>3, <2>1, PaneAssumption DEF TypeOK, ReaderReads, Chunk
  <2> QED
    BY <1>3, <2>2 DEF TypeOK, ReaderReads, paneVars, serverVars, writerVars,
                      clientVars, historyVars
<1>4. CASE ReaderPublishes
  <2> DEFINE byte == [src |-> "out", id |-> chunk.id, text |-> chunk.text,
                      geo |-> TailSize]
  <2>1. byte \in Byte
    BY TailSizeType DEF TypeOK, Byte, Chunk
  <2>2. BytesFrame("OUTPUT", <<byte>>) \in PaneFrame
    BY <2>1 DEF BytesFrame, PaneFrame, Frame
  <2>3. RingOK(ring', Byte)
    BY <1>4, <2>1, RingPushOK DEF ReaderPublishes
  <2>4. ring' \in Ring(Byte)
    BY <2>3 DEF RingOK
  <2>5. Publish(BytesFrame("OUTPUT", <<byte>>))
    BY <1>4 DEF ReaderPublishes
  <2>6. PublishTypes'
    BY <2>2, <2>5, PublishType
  <2>7. paste' \in BOOLEAN
    BY <1>4 DEF ReaderPublishes, TypeOK
  <2> QED
    BY <1>4, <2>3, <2>4, <2>6, <2>7
       DEF TypeOK, PublishTypes, ReaderPublishes, serverVars, writerVars, clientVars
<1>5. CASE ReaderEof
  BY <1>5 DEF TypeOK, ReaderEof, paneVars, childVars,
         serverVars, writerVars, clientVars, historyVars
<1>6. CASE ReaderReaps
  BY <1>6 DEF TypeOK, ReaderReaps, paneVars, childVars,
         serverVars, writerVars, clientVars, historyVars
<1>7. CASE ReaderExits
  <2>1. Marker("EXITED") \in PaneFrame
    BY EmptySeq DEF Marker, PaneFrame, Frame
  <2>2. live' \in Seq(PaneFrame)
    BY <1>7, <2>1 DEF ReaderExits, TypeOK
  <2>3. /\ chan' \in [Conn -> Seq(PaneFrame)]
        /\ upto' \in [Conn -> Nat]
    <3>1. CASE sub # NoConn /\ Receiving(sub)
      <4>1. sub \in Conn /\ Len(live) + 1 \in Nat
        BY <3>1 DEF TypeOK
      <4>2. Append(chan[sub], Marker("EXITED")) \in Seq(PaneFrame)
        BY <4>1, <2>1 DEF TypeOK
      <4>3. /\ chan' = [chan EXCEPT ![sub] = Append(@, Marker("EXITED"))]
            /\ upto' = [upto EXCEPT ![sub] = Len(live) + 1]
        BY <1>7, <3>1 DEF ReaderExits
      <4> QED
        BY <4>1, <4>2, <4>3 DEF TypeOK
    <3>2. CASE ~(sub # NoConn /\ Receiving(sub))
      BY <1>7, <3>2 DEF ReaderExits, TypeOK
    <3> QED
      BY <3>1, <3>2
  <2> QED
    BY <1>7, <2>2, <2>3 DEF TypeOK, ReaderExits, serverVars, writerVars, clientVars
<1>8. CASE KillArrives
  BY <1>8 DEF TypeOK, KillArrives, paneVars, childVars,
         serverVars, writerVars, clientVars, historyVars
<1>9. CASE KillerKills
  BY <1>9 DEF TypeOK, KillerKills, Kill, paneVars, childVars,
         serverVars, writerVars, clientVars, historyVars
<1>10. ASSUME NEW c \in Conn, ServerAttaches(c) PROVE TypeInv'
  <2> DEFINE replay == IF Replay THEN RingReplay(ring) ELSE <<>>
             mode == IF paste THEN <<BytesFrame("OUTPUT", <<PasteOnByte>>)>>
                              ELSE <<>>
             opening == replay \o mode \o <<Marker("ATTACHED")>>
  <2>1. replay \in Seq(PaneFrame)
    BY RingReplayType, EmptySeq DEF PaneFrame
  <2>2. mode \in Seq(PaneFrame)
    <3>1. PasteOnByte \in Byte
      BY TailSizeType DEF PasteOnByte, Byte
    <3>2. BytesFrame("OUTPUT", <<PasteOnByte>>) \in PaneFrame
      BY <3>1 DEF BytesFrame, PaneFrame, Frame
    <3> QED
      BY <3>2
  <2>3. <<Marker("ATTACHED")>> \in Seq(PaneFrame)
    <3>1. Marker("ATTACHED") \in PaneFrame
      BY EmptySeq DEF Marker, PaneFrame, Frame
    <3> QED
      BY <3>1
  <2>4. opening \in Seq(PaneFrame)
    BY <2>1, <2>2, <2>3
  <2>5. /\ chan' = [chan EXCEPT ![c] = opening]
        /\ base' = [base EXCEPT ![c] = opening]
    BY <1>10 DEF ServerAttaches
  <2> HIDE DEF opening
  <2>6. /\ chan' \in [Conn -> Seq(PaneFrame)]
        /\ base' \in [Conn -> Seq(PaneFrame)]
    BY <2>4, <2>5 DEF TypeOK
  <2>7. from' \in [Conn -> Nat] /\ upto' \in [Conn -> Nat]
    BY <1>10 DEF ServerAttaches, TypeOK
  <2> QED
    BY <1>10, <2>6, <2>7, SMTT(30)
       DEF TypeOK, ServerAttaches, childVars, writerVars, clientVars
<1>11. ASSUME NEW c \in Conn, ServerSpawnsWriter(c) PROVE TypeInv'
  BY <1>11, ZenonT(60) DEF TypeOK, ServerSpawnsWriter, paneVars, childVars,
         serverVars, writerVars, clientVars, historyVars
<1>12. ASSUME NEW c \in Conn, ServerCannotSpawn(c) PROVE TypeInv'
  BY <1>12, ZenonT(60) DEF TypeOK, ServerCannotSpawn, paneVars, childVars,
         serverVars, writerVars, clientVars, historyVars
<1>13. ASSUME NEW c \in Conn, ServerReadsInput(c) PROVE TypeInv'
  <2>1. /\ Head(req[c]) \in Request
        /\ Tail(req[c]) \in Seq(Request)
    BY <1>13, HeadTailProperties DEF TypeOK, ServerReadsInput
  <2> DEFINE byte == [src |-> "in", id |-> Head(req[c]).id, text |-> "plain",
                      geo |-> TailSize]
  <2>2. byte \in Byte
    BY <1>13, <2>1, TailSizeType DEF Byte, Request, ServerReadsInput
  <2>3. RingOK(ring', Byte)
    BY <1>13, <2>2, RingPushOK DEF ServerReadsInput
  <2>4. ring' \in Ring(Byte)
    BY <2>3 DEF RingOK
  <2>5. /\ req' \in [Conn -> Seq(Request)]
        /\ arg' \in [Conn -> Request]
    BY <1>13, <2>1 DEF ServerReadsInput, TypeOK
  <2> QED
    BY <1>13, <2>3, <2>4, <2>5, ZenonT(60)
       DEF TypeOK, ServerReadsInput, childVars, writerVars, historyVars
<1>14. ASSUME NEW c \in Conn, ServerWritesInput(c) PROVE TypeInv'
  <2>1. typed' \in Seq(Nat)
    BY <1>14 DEF ServerWritesInput, TypeOK, Request
  <2> QED
    BY <1>14, <2>1, ZenonT(60) DEF TypeOK, ServerWritesInput, paneVars, writerVars, clientVars,
                     historyVars
<1>15. ASSUME NEW c \in Conn, ServerReadsResize(c) PROVE TypeInv'
  <2>1. /\ Head(req[c]) \in Request
        /\ Tail(req[c]) \in Seq(Request)
    BY <1>15, HeadTailProperties DEF TypeOK, ServerReadsResize
  <2> DEFINE s == Head(req[c]).size
  <2>2. s \in Size
    BY <1>15, <2>1 DEF ServerReadsResize, Request
  <2>3. RingOK(ring', Byte)
    BY <1>15, <2>2, RingResizeOK DEF ServerReadsResize
  <2>4. ring' \in Ring(Byte)
    BY <2>3 DEF RingOK
  <2>5. SizeFrame(s) \in PaneFrame
    BY <2>2, EmptySeq DEF SizeFrame, PaneFrame, Frame
  <2>6. PublishTypes'
    <3>1. CASE RingResizes(ring, s)
      BY <1>15, <3>1, <2>5, PublishType DEF ServerReadsResize
    <3>2. CASE ~RingResizes(ring, s)
      BY <1>15, <3>2 DEF ServerReadsResize, PublishTypes, TypeOK
    <3> QED
      BY <3>1, <3>2
  <2>7. /\ req' \in [Conn -> Seq(Request)]
        /\ arg' \in [Conn -> Request]
        /\ srv' \in [Conn -> {"idle", "attach", "spawn", "serve", "write", "ioctl",
                             "kill", "detach", "shutdown", "join", "done"}]
    BY <1>15, <2>1 DEF ServerReadsResize, TypeOK
  <2>8. UNCHANGED <<paste, epoch, alive, childVars, myEpoch, writerVars,
                    wire, shut, asked, cli, got, killer, base, from>>
    BY <1>15 DEF ServerReadsResize
  <2>9. ResizeInHand'
    BY <1>15, ZenonT(60) DEF ServerReadsResize, TypeOK
  <2> HIDE DEF ResizeInHand
  <2> QED
    BY <2>3, <2>4, <2>6, <2>7, <2>8, <2>9, ZenonT(60) DEF TypeOK, PublishTypes, childVars, writerVars
<1>16. ASSUME NEW c \in Conn, ServerResizesPty(c) PROVE TypeInv'
  <2>1. winsize' \in Size
    BY <1>16 DEF ServerResizesPty, TypeOK, Request
  <2> QED
    BY <1>16, <2>1, ZenonT(60) DEF TypeOK, ServerResizesPty, paneVars, writerVars, clientVars,
                     historyVars
<1>17. ASSUME NEW c \in Conn, ServerReadsDetach(c) PROVE TypeInv'
  <2>1. /\ Head(req[c]) \in Request
        /\ Tail(req[c]) \in Seq(Request)
    BY <1>17, HeadTailProperties DEF TypeOK, ServerReadsDetach
  <2> QED
    BY <1>17, <2>1, ZenonT(60) DEF TypeOK, ServerReadsDetach, paneVars, childVars,
         serverVars, writerVars, clientVars, historyVars
<1>18. ASSUME NEW c \in Conn, ServerReadsKill(c) PROVE TypeInv'
  <2>1. /\ Head(req[c]) \in Request
        /\ Tail(req[c]) \in Seq(Request)
    BY <1>18, HeadTailProperties DEF TypeOK, ServerReadsKill
  <2> QED
    BY <1>18, <2>1, ZenonT(60) DEF TypeOK, ServerReadsKill, paneVars, childVars,
         serverVars, writerVars, clientVars, historyVars
<1>19. ASSUME NEW c \in Conn, ServerKills(c) PROVE TypeInv'
  BY <1>19 DEF TypeOK, ServerKills, Kill, paneVars, childVars,
         serverVars, writerVars, clientVars, historyVars
<1>20. ASSUME NEW c \in Conn, ServerReadsEof(c) PROVE TypeInv'
  BY <1>20, ZenonT(60) DEF TypeOK, ServerReadsEof, paneVars, childVars,
         serverVars, writerVars, clientVars, historyVars
<1>21. ASSUME NEW c \in Conn, ServerDetaches(c) PROVE TypeInv'
  BY <1>21, ZenonT(60) DEF TypeOK, ServerDetaches, paneVars, childVars,
         serverVars, writerVars, clientVars, historyVars
<1>22. ASSUME NEW c \in Conn, ServerShutsDown(c) PROVE TypeInv'
  BY <1>22, ZenonT(60) DEF TypeOK, ServerShutsDown, paneVars, childVars,
         serverVars, writerVars, clientVars, historyVars
<1>23. ASSUME NEW c \in Conn, ServerJoinsWriter(c) PROVE TypeInv'
  BY <1>23, ZenonT(60) DEF TypeOK, ServerJoinsWriter, paneVars, childVars,
         serverVars, writerVars, clientVars, historyVars
<1>24. ASSUME NEW c \in Conn, WriterReceives(c) PROVE TypeInv'
  <2>1. /\ Head(chan[c]) \in PaneFrame
        /\ Tail(chan[c]) \in Seq(PaneFrame)
    BY <1>24, HeadTailProperties DEF TypeOK, WriterReceives
  <2>2. <<Head(chan[c])>> \in Seq(PaneFrame)
    BY <2>1 DEF TypeOK
  <2> QED
    BY <1>24, <2>1, <2>2, ZenonT(60) DEF TypeOK, WriterReceives, paneVars, childVars,
         serverVars, writerVars, clientVars, historyVars
<1>25. ASSUME NEW c \in Conn, WriterBatches(c) PROVE TypeInv'
  <2>1. /\ Head(chan[c]) \in PaneFrame
        /\ Tail(chan[c]) \in Seq(PaneFrame)
    BY <1>25, HeadTailProperties DEF TypeOK, WriterBatches, NextMerges
  <2>2. Append(batch[c], Head(chan[c])) \in Seq(PaneFrame)
    BY <2>1 DEF TypeOK
  <2> QED
    BY <1>25, <2>1, <2>2, ZenonT(60) DEF TypeOK, WriterBatches, paneVars, childVars,
         serverVars, writerVars, clientVars, historyVars
<1>26. ASSUME NEW c \in Conn, WriterStopsBatching(c) PROVE TypeInv'
  BY <1>26, ZenonT(60) DEF TypeOK, WriterStopsBatching, paneVars, childVars,
         serverVars, writerVars, clientVars, historyVars
<1>27. ASSUME NEW c \in Conn, WriterWrites(c) PROVE TypeInv'
  <2>1. wire[c] \o batch[c] \in Seq(PaneFrame) /\ <<>> \in Seq(PaneFrame)
    BY DEF TypeOK
  <2> QED
    BY <1>27, <2>1, ZenonT(60) DEF TypeOK, WriterWrites, paneVars, childVars,
         serverVars, writerVars, clientVars, historyVars
<1>28. ASSUME NEW c \in Conn, WriterFails(c) PROVE TypeInv'
  BY <1>28, ZenonT(60) DEF TypeOK, WriterFails, paneVars, childVars,
         serverVars, writerVars, clientVars, historyVars
<1>29. ASSUME NEW c \in Conn, WriterEnds(c) PROVE TypeInv'
  BY <1>29, ZenonT(60) DEF TypeOK, WriterEnds, paneVars, childVars,
         serverVars, writerVars, clientVars, historyVars
<1>30. ASSUME NEW c \in Conn, ClientConnects(c) PROVE TypeInv'
  BY <1>30, SMTT(30), ZenonT(60) DEF TypeOK, ClientConnects, paneVars, childVars,
         serverVars, writerVars, clientVars, historyVars
<1>31. ASSUME NEW c \in Conn, ClientSends(c) PROVE TypeInv'
  <2>1. PICK r \in Requests : req' = [req EXCEPT ![c] = Append(@, r)]
    BY <1>31 DEF ClientSends
  <2>2. r \in Request
    <3>1. asked + 1 \in Nat
      BY DEF TypeOK
    <3>2. \/ r = InputRequest(asked + 1)
          \/ r = PlainRequest("DETACH")
          \/ r = PlainRequest("KILL")
          \/ \E s \in Size : r = ResizeRequest(s)
      BY DEF Requests
    <3> QED
      BY <3>1, <3>2 DEF Request, InputRequest, ResizeRequest, PlainRequest
  <2>3. req' \in [Conn -> Seq(Request)]
    BY <2>1, <2>2 DEF TypeOK
  <2>4. asked' \in Nat
    BY <1>31 DEF ClientSends, TypeOK
  <2>5. UNCHANGED <<paneVars, childVars, serverVars, chan, writerVars, wire,
                    shut, cli, got, killer, historyVars>>
    BY <1>31 DEF ClientSends
  <2> QED
    BY <2>3, <2>4, <2>5, ZenonT(60) DEF TypeOK, paneVars, childVars, serverVars, writerVars,
                            historyVars
<1>32. ASSUME NEW c \in Conn, ClientReads(c) PROVE TypeInv'
  <2>1. /\ Head(wire[c]) \in PaneFrame
        /\ Tail(wire[c]) \in Seq(PaneFrame)
    BY <1>32, HeadTailProperties DEF TypeOK, ClientReads
  <2>2. Append(got[c], Head(wire[c])) \in Seq(PaneFrame)
    BY <2>1 DEF TypeOK
  <2> QED
    BY <1>32, <2>1, <2>2, ZenonT(60) DEF TypeOK, ClientReads, paneVars, childVars,
         serverVars, writerVars, clientVars, historyVars
<1>33. ASSUME NEW c \in Conn, ClientCloses(c) PROVE TypeInv'
  BY <1>33, ZenonT(60) DEF TypeOK, ClientCloses, paneVars, childVars,
         serverVars, writerVars, clientVars, historyVars
<1>34. CASE UNCHANGED vars
  BY <1>34, SMTT(30) DEF TypeOK, vars
<1> QED
  BY <1>1, <1>2, <1>3, <1>4, <1>5, <1>6, <1>7, <1>8, <1>9, <1>10, <1>11,
     <1>12, <1>13, <1>14, <1>15, <1>16, <1>17, <1>18, <1>19, <1>20,
     <1>21, <1>22, <1>23, <1>24, <1>25, <1>26, <1>27, <1>28, <1>29,
     <1>30, <1>31, <1>32, <1>33, <1>34
     DEF Next, Reader, Server, Writer, Client

(* Every reachable state of a pane is well typed. *)
THEOREM TypeCorrect == Spec => []TypeOK
<1>1. Init => TypeInv
  BY TypeInit
<1>2. TypeInv /\ [Next]_vars => TypeInv'
  BY TypeStep
<1>3. TypeInv => TypeOK
  BY DEF TypeInv
<1> QED
  BY <1>1, <1>2, <1>3, PTL DEF Spec

-----------------------------------------------------------------------------
(* No byte falls between the replay and the live stream.                   *)
(*                                                                         *)
(* StreamIntact is inductive once the threads' control is added to it: a   *)
(* connection has no frames before it attaches, a writer that is not       *)
(* holding a batch has none, and a share never reaches past what was       *)
(* published.                                                              *)

ThreadControl ==
    \A c \in Conn :
        /\ cli[c] = "idle" => srv[c] = "idle"
        /\ srv[c] \in {"idle", "attach", "spawn"} => wpc[c] = "none"
        /\ srv[c] \in {"idle", "attach"} =>
              /\ got[c] = <<>> /\ wire[c] = <<>> /\ chan[c] = <<>>
              /\ sub # c
        /\ wpc[c] \in {"none", "recv"} => batch[c] = <<>>

Shares == \A c \in Conn : from[c] <= upto[c] /\ upto[c] <= Len(live)

StreamInv == TypeInv /\ StreamIntact /\ ThreadControl /\ Shares

(* The types of one connection's queues. *)
LEMMA FlowType ==
    ASSUME TypeInv, NEW c \in Conn
    PROVE  /\ got[c] \in Seq(PaneFrame) /\ wire[c] \in Seq(PaneFrame)
           /\ batch[c] \in Seq(PaneFrame) /\ chan[c] \in Seq(PaneFrame)
           /\ base[c] \in Seq(PaneFrame) /\ live \in Seq(PaneFrame)
           /\ from[c] \in Nat /\ upto[c] \in Nat
BY DEF TypeInv, TypeOK

(* The facts about sequences, for sequences of this stream's frames. *)
LEMMA FramesAssociative ==
    ASSUME NEW s \in Seq(PaneFrame), NEW t \in Seq(PaneFrame), NEW u \in Seq(PaneFrame)
    PROVE  (s \o t) \o u = s \o (t \o u)
BY ConcatAssociative

(* The same for two queues one behind the other, *)
LEMMA FramesConcat ==
    ASSUME NEW s \in Seq(PaneFrame), NEW t \in Seq(PaneFrame)
    PROVE  s \o t \in Seq(PaneFrame)
BY ConcatProperties

(* and for a frame that joins the second of them. *)
LEMMA FramesAppend ==
    ASSUME NEW s \in Seq(PaneFrame), NEW t \in Seq(PaneFrame), NEW e \in PaneFrame
    PROVE  s \o Append(t, e) = Append(s \o t, e)
BY ConcatAppend

(* A step that moves frames along, or leaves them where they are. *)
LEMMA MoveStep ==
    ASSUME StreamInv, UNCHANGED <<base, from, upto, live>>,
           \A d \in Conn : Flow(d)' = Flow(d),
           \A d \in Conn : sub' = d /\ Receiving(d)' => sub = d /\ Receiving(d)
    PROVE  StreamIntact' /\ Shares'
<1>1. \A d \in Conn : Promise(d)' = Promise(d)
  BY DEF Promise
<1>2. Shares'
  BY DEF StreamInv, Shares
<1>3. \A d \in Conn : Flow(d) = Promise(d)
  BY DEF StreamInv, StreamIntact
<1>4. \A d \in Conn : sub' = d /\ Receiving(d)' => upto'[d] = Len(live')
  BY DEF StreamInv, StreamIntact
<1> QED
  BY <1>1, <1>2, <1>3, <1>4 DEF StreamIntact

(* A step that publishes f: whoever is up to date may get it; whoever does *)
(* not get it is no subscriber with a live receiver any more.              *)
LEMMA AppendStep ==
    ASSUME StreamInv, NEW f \in PaneFrame, live' = Append(live, f),
           UNCHANGED <<got, wire, batch, base, from>>,
           \A d \in Conn :
              \/ /\ chan'[d] = Append(chan[d], f)
                 /\ upto[d] = Len(live)
                 /\ upto'[d] = Len(live) + 1
              \/ /\ chan'[d] = chan[d]
                 /\ upto'[d] = upto[d]
                 /\ ~(sub' = d /\ Receiving(d)')
    PROVE  StreamIntact' /\ Shares'
<1>1. live \in Seq(PaneFrame) /\ Len(live) \in Nat /\ Len(live') = Len(live) + 1
  <2>1. live \in Seq(PaneFrame)
    BY DEF StreamInv, TypeInv, TypeOK
  <2> QED
    BY <2>1, AppendProperties
<1>2. ASSUME NEW d \in Conn
      PROVE  /\ Flow(d)' = Promise(d)'
             /\ from'[d] <= upto'[d] /\ upto'[d] <= Len(live')
             /\ sub' = d /\ Receiving(d)' => upto'[d] = Len(live')
  <2> DEFINE before == got[d] \o wire[d] \o batch[d]
             share == SubSeq(live, from[d] + 1, upto[d])
  <2>1. /\ before \in Seq(PaneFrame) /\ chan[d] \in Seq(PaneFrame)
        /\ base[d] \in Seq(PaneFrame)
        /\ from[d] \in Nat /\ upto[d] \in Nat
    BY FlowType, ConcatProperties DEF StreamInv
  <2>2. /\ before \o chan[d] = base[d] \o share
        /\ from[d] <= upto[d] /\ upto[d] <= Len(live)
    BY DEF StreamInv, StreamIntact, Flow, Promise, Shares
  <2>3. share \in Seq(PaneFrame)
    <3>1. \A i \in from[d] + 1 .. upto[d] : live[i] \in PaneFrame
      BY <1>1, <2>1, <2>2
    <3> QED
      BY <3>1, <2>1, SubSeqProperties
  <2>4. CASE /\ chan'[d] = Append(chan[d], f)
             /\ upto[d] = Len(live)
             /\ upto'[d] = Len(live) + 1
    <3>1. Flow(d)' = before \o Append(chan[d], f)
      BY <2>4 DEF Flow
    <3>2. Flow(d)' = Append(before \o chan[d], f)
      BY <3>1, <2>1, FramesAppend
    <3>3. Promise(d)' = base[d] \o SubSeq(Append(live, f), from[d] + 1, Len(live) + 1)
      BY <2>4 DEF Promise
    <3>4. SubSeq(Append(live, f), from[d] + 1, Len(live) + 1) = Append(share, f)
      <4>1. from[d] + 1 \in 1 .. Len(live) + 1
        BY <1>1, <2>1, <2>2
      <4> QED
        BY <4>1, <1>1, <2>4, SubSeqAppend
    <3> HIDE DEF before, share
    <3>5. base[d] \o Append(share, f) = Append(base[d] \o share, f)
      BY <2>1, <2>3, FramesAppend
    <3>6. Flow(d)' = Promise(d)'
      BY <3>2, <3>3, <3>4, <3>5, <2>2
    <3>7. from'[d] <= upto'[d] /\ upto'[d] <= Len(live') /\ upto'[d] = Len(live')
      BY <2>1, <2>2, <2>4, <1>1
    <3> QED
      BY <3>6, <3>7
  <2>5. CASE /\ chan'[d] = chan[d]
             /\ upto'[d] = upto[d]
             /\ ~(sub' = d /\ Receiving(d)')
    <3>1. Flow(d)' = before \o chan[d]
      BY <2>5 DEF Flow
    <3>2. Promise(d)' = base[d] \o SubSeq(Append(live, f), from[d] + 1, upto[d])
      BY <2>5 DEF Promise
    <3>3. SubSeq(Append(live, f), from[d] + 1, upto[d]) = share
      <4>1. from[d] + 1 \in Nat \ {0} /\ upto[d] \in 0 .. Len(live)
        BY <1>1, <2>1, <2>2
      <4> QED
        BY <4>1, <1>1, SubSeqStable
    <3> HIDE DEF before, share
    <3>4. Flow(d)' = Promise(d)'
      BY <3>1, <3>2, <3>3, <2>2
    <3>5. from'[d] <= upto'[d] /\ upto'[d] <= Len(live')
      BY <2>1, <2>2, <2>5, <1>1
    <3> QED
      BY <3>4, <3>5, <2>5
  <2> QED
    BY <2>4, <2>5
<1> QED
  BY <1>2 DEF StreamIntact, Shares

(* What Publish does is such a step. *)
LEMMA PublishStep ==
    ASSUME StreamInv, NEW f \in PaneFrame, Publish(f),
           UNCHANGED <<got, wire, batch, base, from>>,
           \A d \in Conn : Receiving(d)' => Receiving(d)
    PROVE  StreamIntact' /\ Shares'
<1>1. live' = Append(live, f)
  BY DEF Publish
<1>2. ASSUME NEW d \in Conn
      PROVE  \/ /\ chan'[d] = Append(chan[d], f)
                /\ upto[d] = Len(live)
                /\ upto'[d] = Len(live) + 1
             \/ /\ chan'[d] = chan[d]
                /\ upto'[d] = upto[d]
                /\ ~(sub' = d /\ Receiving(d)')
  <2>1. CASE sub = NoConn
    BY <2>1, PaneAssumption DEF Publish
  <2>2. CASE sub # NoConn /\ ~Receiving(sub)
    BY <2>2, PaneAssumption DEF Publish
  <2>3. CASE sub # NoConn /\ Receiving(sub) /\ sub = d
    <3>1. upto[d] = Len(live)
      BY <2>3 DEF StreamInv, StreamIntact
    <3> QED
      BY <2>3, <3>1 DEF Publish, StreamInv, TypeInv, TypeOK
  <2>4. CASE sub # NoConn /\ Receiving(sub) /\ sub # d
    BY <2>4 DEF Publish, StreamInv, TypeInv, TypeOK
  <2> QED
    BY <2>1, <2>2, <2>3, <2>4
<1> QED
  BY <1>1, <1>2, AppendStep

(* Publishing touches no thread's control. *)
LEMMA PublishControl ==
    ASSUME StreamInv, NEW f, Publish(f), UNCHANGED <<got, wire, batch, wpc, cli>>,
           \A d \in Conn :
              \/ srv'[d] = srv[d]
              \/ srv[d] # "idle" /\ srv'[d] \notin {"idle", "attach", "spawn"}
    PROVE  ThreadControl'
<1>0. \A d \in Conn : cli'[d] = "idle" => srv'[d] = "idle"
  BY DEF ThreadControl, StreamInv
<1> SUFFICES ASSUME NEW d \in Conn, srv'[d] \in {"idle", "attach", "spawn"}
             PROVE  /\ wpc[d] = "none"
                    /\ srv'[d] \in {"idle", "attach"} => chan'[d] = <<>> /\ sub' # d
  BY <1>0 DEF ThreadControl, StreamInv
<1>1. srv'[d] = srv[d] /\ wpc[d] = "none"
  BY DEF ThreadControl, StreamInv
<1>2. ASSUME srv[d] \in {"idle", "attach"} PROVE chan'[d] = <<>> /\ sub' # d
  <2>1. chan[d] = <<>> /\ sub # d
    BY <1>2 DEF ThreadControl, StreamInv
  <2> QED
    BY <2>1, PaneAssumption DEF Publish, StreamInv, TypeInv, TypeOK
<1> QED
  BY <1>1, <1>2

(* Nothing has been sent or promised yet. *)
LEMMA StreamInit ==
    ASSUME Init
    PROVE  StreamInv
<1>1. TypeInv
  BY TypeInit
<1>2. ThreadControl
  BY PaneAssumption DEF Init, ThreadControl
<1>3. Shares
  BY DEF Init, Shares
<1>4. StreamIntact
  <2> SUFFICES ASSUME NEW c \in Conn
               PROVE  Flow(c) = Promise(c) /\ sub # c
    BY DEF StreamIntact
  <2>1. <<>> \o <<>> = <<>>
    BY ConcatEmptySeq
  <2>2. Flow(c) = <<>>
    BY <2>1 DEF Init, Flow
  <2>3. SubSeq(live, from[c] + 1, upto[c]) = <<>>
    BY SubSeqEmpty DEF Init
  <2>4. Promise(c) = <<>>
    BY <2>1, <2>3 DEF Init, Promise
  <2> QED
    BY <2>2, <2>4, PaneAssumption DEF Init
<1> QED
  BY <1>1, <1>2, <1>3, <1>4 DEF StreamInv

(* Every step keeps what a connection was promised. *)
LEMMA StreamStep ==
    ASSUME StreamInv, [Next]_vars
    PROVE  StreamIntact' /\ Shares' /\ ThreadControl'
<1>1. CASE ChildHides
  <2>1. \A d \in Conn : Flow(d)' = Flow(d)
    BY <1>1 DEF ChildHides, Flow, paneVars, childVars,
         serverVars, writerVars, clientVars, historyVars
  <2>2. \A d \in Conn : sub' = d /\ Receiving(d)' => sub = d /\ Receiving(d)
    BY <1>1, PaneAssumption DEF ChildHides, Receiving, StreamInv, TypeInv, TypeOK, paneVars, childVars,
         serverVars, writerVars, clientVars, historyVars
  <2>3. ThreadControl'
    BY <1>1, PaneAssumption DEF ChildHides, StreamInv, TypeInv, TypeOK, ThreadControl, paneVars, childVars,
         serverVars, writerVars, clientVars, historyVars
  <2>4. UNCHANGED <<base, from, upto, live>>
    BY <1>1 DEF ChildHides, paneVars, childVars,
         serverVars, writerVars, clientVars, historyVars
  <2> QED
    BY <2>1, <2>2, <2>3, <2>4, MoveStep
<1>2. CASE ChildExits
  <2>1. \A d \in Conn : Flow(d)' = Flow(d)
    BY <1>2 DEF ChildExits, Flow, paneVars, childVars,
         serverVars, writerVars, clientVars, historyVars
  <2>2. \A d \in Conn : sub' = d /\ Receiving(d)' => sub = d /\ Receiving(d)
    BY <1>2, PaneAssumption DEF ChildExits, Receiving, StreamInv, TypeInv, TypeOK, paneVars, childVars,
         serverVars, writerVars, clientVars, historyVars
  <2>3. ThreadControl'
    BY <1>2, PaneAssumption DEF ChildExits, StreamInv, TypeInv, TypeOK, ThreadControl, paneVars, childVars,
         serverVars, writerVars, clientVars, historyVars
  <2>4. UNCHANGED <<base, from, upto, live>>
    BY <1>2 DEF ChildExits, paneVars, childVars,
         serverVars, writerVars, clientVars, historyVars
  <2> QED
    BY <2>1, <2>2, <2>3, <2>4, MoveStep
<1>3. CASE ReaderReads
  <2>1. \A d \in Conn : Flow(d)' = Flow(d)
    BY <1>3 DEF ReaderReads, Flow, paneVars, childVars,
         serverVars, writerVars, clientVars, historyVars
  <2>2. \A d \in Conn : sub' = d /\ Receiving(d)' => sub = d /\ Receiving(d)
    BY <1>3, PaneAssumption DEF ReaderReads, Receiving, StreamInv, TypeInv, TypeOK, paneVars, childVars,
         serverVars, writerVars, clientVars, historyVars
  <2>3. ThreadControl'
    BY <1>3, PaneAssumption DEF ReaderReads, StreamInv, TypeInv, TypeOK, ThreadControl, paneVars, childVars,
         serverVars, writerVars, clientVars, historyVars
  <2>4. UNCHANGED <<base, from, upto, live>>
    BY <1>3 DEF ReaderReads, paneVars, childVars,
         serverVars, writerVars, clientVars, historyVars
  <2> QED
    BY <2>1, <2>2, <2>3, <2>4, MoveStep
<1>4. CASE ReaderEof
  <2>1. \A d \in Conn : Flow(d)' = Flow(d)
    BY <1>4 DEF ReaderEof, Flow, paneVars, childVars,
         serverVars, writerVars, clientVars, historyVars
  <2>2. \A d \in Conn : sub' = d /\ Receiving(d)' => sub = d /\ Receiving(d)
    BY <1>4, PaneAssumption DEF ReaderEof, Receiving, StreamInv, TypeInv, TypeOK, paneVars, childVars,
         serverVars, writerVars, clientVars, historyVars
  <2>3. ThreadControl'
    BY <1>4, PaneAssumption DEF ReaderEof, StreamInv, TypeInv, TypeOK, ThreadControl, paneVars, childVars,
         serverVars, writerVars, clientVars, historyVars
  <2>4. UNCHANGED <<base, from, upto, live>>
    BY <1>4 DEF ReaderEof, paneVars, childVars,
         serverVars, writerVars, clientVars, historyVars
  <2> QED
    BY <2>1, <2>2, <2>3, <2>4, MoveStep
<1>5. CASE ReaderReaps
  <2>1. \A d \in Conn : Flow(d)' = Flow(d)
    BY <1>5 DEF ReaderReaps, Flow, paneVars, childVars,
         serverVars, writerVars, clientVars, historyVars
  <2>2. \A d \in Conn : sub' = d /\ Receiving(d)' => sub = d /\ Receiving(d)
    BY <1>5, PaneAssumption DEF ReaderReaps, Receiving, StreamInv, TypeInv, TypeOK, paneVars, childVars,
         serverVars, writerVars, clientVars, historyVars
  <2>3. ThreadControl'
    BY <1>5, PaneAssumption DEF ReaderReaps, StreamInv, TypeInv, TypeOK, ThreadControl, paneVars, childVars,
         serverVars, writerVars, clientVars, historyVars
  <2>4. UNCHANGED <<base, from, upto, live>>
    BY <1>5 DEF ReaderReaps, paneVars, childVars,
         serverVars, writerVars, clientVars, historyVars
  <2> QED
    BY <2>1, <2>2, <2>3, <2>4, MoveStep
<1>6. CASE KillArrives
  <2>1. \A d \in Conn : Flow(d)' = Flow(d)
    BY <1>6 DEF KillArrives, Flow, paneVars, childVars,
         serverVars, writerVars, clientVars, historyVars
  <2>2. \A d \in Conn : sub' = d /\ Receiving(d)' => sub = d /\ Receiving(d)
    BY <1>6, PaneAssumption DEF KillArrives, Receiving, StreamInv, TypeInv, TypeOK, paneVars, childVars,
         serverVars, writerVars, clientVars, historyVars
  <2>3. ThreadControl'
    BY <1>6, PaneAssumption DEF KillArrives, StreamInv, TypeInv, TypeOK, ThreadControl, paneVars, childVars,
         serverVars, writerVars, clientVars, historyVars
  <2>4. UNCHANGED <<base, from, upto, live>>
    BY <1>6 DEF KillArrives, paneVars, childVars,
         serverVars, writerVars, clientVars, historyVars
  <2> QED
    BY <2>1, <2>2, <2>3, <2>4, MoveStep
<1>7. CASE KillerKills
  <2>1. \A d \in Conn : Flow(d)' = Flow(d)
    BY <1>7 DEF KillerKills, Kill, Flow, paneVars, childVars,
         serverVars, writerVars, clientVars, historyVars
  <2>2. \A d \in Conn : sub' = d /\ Receiving(d)' => sub = d /\ Receiving(d)
    BY <1>7, PaneAssumption DEF KillerKills, Kill, Receiving, StreamInv, TypeInv, TypeOK, paneVars, childVars,
         serverVars, writerVars, clientVars, historyVars
  <2>3. ThreadControl'
    BY <1>7, PaneAssumption DEF KillerKills, Kill, StreamInv, TypeInv, TypeOK, ThreadControl, paneVars, childVars,
         serverVars, writerVars, clientVars, historyVars
  <2>4. UNCHANGED <<base, from, upto, live>>
    BY <1>7 DEF KillerKills, Kill, paneVars, childVars,
         serverVars, writerVars, clientVars, historyVars
  <2> QED
    BY <2>1, <2>2, <2>3, <2>4, MoveStep
<1>8. CASE ReaderPublishes
  <2> DEFINE byte == [src |-> "out", id |-> chunk.id, text |-> chunk.text,
                      geo |-> TailSize]
             f == BytesFrame("OUTPUT", <<byte>>)
  <2>1. f \in PaneFrame
    <3>1. byte \in Byte
      BY TailSizeType DEF StreamInv, TypeInv, TypeOK, Byte, Chunk
    <3> QED
      BY <3>1 DEF BytesFrame, PaneFrame, Frame
  <2>2. \A d \in Conn : Receiving(d)' => Receiving(d)
    BY <1>8 DEF ReaderPublishes, Receiving, serverVars, writerVars
  <2>3. Publish(f)
    BY <1>8 DEF ReaderPublishes
  <2>4. UNCHANGED <<got, wire, batch, base, from>>
    BY <1>8 DEF ReaderPublishes, writerVars, clientVars
  <2> HIDE DEF f
  <2>5. StreamIntact' /\ Shares'
    BY <2>1, <2>2, <2>3, <2>4, PublishStep
  <2>6. ThreadControl'
    <3>1. UNCHANGED <<srv, wpc, got, wire, batch, cli>>
      BY <1>8 DEF ReaderPublishes, serverVars, writerVars, clientVars
    <3> QED
      BY <3>1, <2>3, PublishControl
  <2> QED
    BY <2>5, <2>6
<1>9. CASE ReaderExits
  <2> DEFINE f == Marker("EXITED")
  <2>1. f \in PaneFrame
    BY EmptySeq DEF Marker, PaneFrame, Frame
  <2>2. live' = Append(live, f) /\ UNCHANGED <<got, wire, batch, base, from, sub>>
    BY <1>9 DEF ReaderExits, writerVars, clientVars
  <2>3. UNCHANGED <<srv, wpc, cli>>
    BY <1>9 DEF ReaderExits, serverVars, writerVars, clientVars
  <2>4. ASSUME NEW d \in Conn
        PROVE  \/ /\ chan'[d] = Append(chan[d], f)
                  /\ upto[d] = Len(live)
                  /\ upto'[d] = Len(live) + 1
               \/ /\ chan'[d] = chan[d]
                  /\ upto'[d] = upto[d]
                  /\ ~(sub' = d /\ Receiving(d)')
    <3>1. CASE sub = d /\ Receiving(d)
      <4>1. upto[d] = Len(live)
        BY <3>1 DEF StreamInv, StreamIntact
      <4> QED
        BY <1>9, <3>1, <4>1, PaneAssumption
           DEF ReaderExits, StreamInv, TypeInv, TypeOK
    <3>2. CASE ~(sub = d /\ Receiving(d))
      <4>1. ~(sub' = d /\ Receiving(d)')
        BY <3>2, <2>2, <2>3 DEF Receiving
      <4>2. chan'[d] = chan[d] /\ upto'[d] = upto[d]
        BY <1>9, <3>2 DEF ReaderExits, StreamInv, TypeInv, TypeOK
      <4> QED
        BY <4>1, <4>2
    <3> QED
      BY <3>1, <3>2
  <2> HIDE DEF f
  <2>5. StreamIntact' /\ Shares'
    BY <2>1, <2>2, <2>4, AppendStep
  <2>6. ThreadControl'
    BY <1>9, <2>2, <2>3
       DEF ReaderExits, ThreadControl, StreamInv, TypeInv, TypeOK, Receiving
  <2> QED
    BY <2>5, <2>6
<1>10. ASSUME NEW c \in Conn, ServerReadsResize(c) PROVE StreamIntact' /\ Shares' /\ ThreadControl'
  <2> DEFINE s == Head(req[c]).size
             f == SizeFrame(s)
  <2>1. f \in PaneFrame
    <3>1. Head(req[c]) \in Request
      BY <1>10, HeadTailProperties DEF ServerReadsResize, StreamInv, TypeInv, TypeOK
    <3>2. s \in Size
      BY <1>10, <3>1 DEF ServerReadsResize, Request
    <3> QED
      BY <3>2, EmptySeq DEF SizeFrame, PaneFrame, Frame
  <2>2. UNCHANGED <<got, wire, batch, base, from, wpc, cli>>
    BY <1>10 DEF ServerReadsResize, writerVars
  <2>3. /\ srv[c] = "serve" /\ srv'[c] \in {"serve", "ioctl"}
        /\ \A d \in Conn : d # c => srv'[d] = srv[d]
    BY <1>10 DEF ServerReadsResize, StreamInv, TypeInv, TypeOK
  <2>4. \A d \in Conn : Receiving(d)' => Receiving(d)
    BY <2>2, <2>3 DEF Receiving
  <2>5. CASE RingResizes(ring, s)
    <3>1. Publish(f)
      BY <1>10, <2>5 DEF ServerReadsResize
    <3> HIDE DEF f
    <3>2. StreamIntact' /\ Shares'
      BY <2>1, <2>2, <2>4, <3>1, PublishStep
    <3>3. ThreadControl'
      BY <2>2, <2>3, <3>1, PublishControl
    <3> QED
      BY <3>2, <3>3
  <2>6. CASE ~RingResizes(ring, s)
    <3>1. UNCHANGED <<sub, chan, live, upto, srv>>
      BY <1>10, <2>6, <2>3 DEF ServerReadsResize
    <3>2. \A d \in Conn : Flow(d)' = Flow(d)
      BY <2>2, <3>1 DEF Flow
    <3>3. ThreadControl'
      BY <2>2, <3>1 DEF ThreadControl, StreamInv
    <3> QED
      BY <2>2, <2>4, <3>1, <3>2, <3>3, MoveStep
  <2> QED
    BY <2>5, <2>6
<1>11. ASSUME NEW c \in Conn, ServerAttaches(c) PROVE StreamIntact' /\ Shares' /\ ThreadControl'
  <2>1. /\ srv[c] = "attach" /\ srv' = [srv EXCEPT ![c] = "spawn"]
        /\ sub' = c
        /\ base'[c] = chan'[c]
        /\ from'[c] = Len(live) /\ upto'[c] = Len(live)
        /\ \A d \in Conn : d # c => /\ chan'[d] = chan[d] /\ base'[d] = base[d]
                                    /\ from'[d] = from[d] /\ upto'[d] = upto[d]
        /\ UNCHANGED <<got, wire, batch, wpc, live, cli>>
    BY <1>11 DEF ServerAttaches, StreamInv, TypeInv, TypeOK, writerVars, clientVars
  <2>2. /\ got[c] = <<>> /\ wire[c] = <<>> /\ batch[c] = <<>>
        /\ wpc[c] = "none"
    BY <2>1 DEF StreamInv, ThreadControl
  <2>3. chan'[c] \in Seq(PaneFrame) /\ base'[c] \in Seq(PaneFrame)
    <3>1. TypeInv'
      BY TypeStep DEF StreamInv
    <3> QED
      BY <3>1 DEF TypeInv, TypeOK
  <2>4. Flow(c)' = Promise(c)'
    <3>1. <<>> \o <<>> = <<>> /\ <<>> \o chan'[c] = chan'[c]
      BY <2>3, ConcatEmptySeq
    <3>2. Flow(c)' = chan'[c]
      BY <2>1, <2>2, <3>1 DEF Flow
    <3>3. Len(live) \in Nat
      BY DEF StreamInv, TypeInv, TypeOK
    <3>4. SubSeq(live, Len(live) + 1, Len(live)) = <<>>
      BY <3>3, SubSeqEmpty
    <3>5. base'[c] \o <<>> = base'[c]
      BY <2>3, ConcatEmptySeq
    <3>6. Promise(c)' = base'[c]
      BY <2>1, <3>4, <3>5 DEF Promise
    <3> QED
      BY <2>1, <3>2, <3>6
  <2>5. ASSUME NEW d \in Conn, d # c PROVE Flow(d)' = Promise(d)'
    <3>1. Flow(d) = Promise(d)
      BY DEF StreamInv, StreamIntact
    <3> QED
      BY <3>1, <2>1, <2>5 DEF Flow, Promise
  <2>6. StreamIntact'
    BY <2>1, <2>4, <2>5 DEF StreamIntact
  <2>7. Shares'
    <3>1. Len(live) \in Nat
      BY DEF StreamInv, TypeInv, TypeOK
    <3> QED
      BY <3>1, <2>1 DEF Shares, StreamInv
  <2>8. ThreadControl'
    BY <2>1, <2>2 DEF ThreadControl, StreamInv, TypeInv, TypeOK
  <2> QED
    BY <2>6, <2>7, <2>8
<1>12. ASSUME NEW c \in Conn, ServerSpawnsWriter(c) PROVE StreamIntact' /\ Shares' /\ ThreadControl'
  <2>1. \A d \in Conn : Flow(d)' = Flow(d)
    BY <1>12 DEF ServerSpawnsWriter, Flow, paneVars, childVars,
         serverVars, writerVars, clientVars, historyVars
  <2>2. \A d \in Conn : sub' = d /\ Receiving(d)' => sub = d /\ Receiving(d)
    <3>1. srv[c] = "spawn" /\ wpc[c] # "done" /\ UNCHANGED sub
      BY <1>12 DEF ServerSpawnsWriter, StreamInv, ThreadControl, paneVars
    <3>2. \A d \in Conn : d # c => srv'[d] = srv[d] /\ wpc'[d] = wpc[d]
      BY <1>12 DEF ServerSpawnsWriter, StreamInv, TypeInv, TypeOK
    <3> QED
      BY <3>1, <3>2 DEF Receiving
  <2>3. ThreadControl'
    BY <1>12, PaneAssumption DEF ServerSpawnsWriter, StreamInv, TypeInv, TypeOK, ThreadControl, paneVars, childVars,
         serverVars, writerVars, clientVars, historyVars
  <2>4. UNCHANGED <<base, from, upto, live>>
    BY <1>12 DEF ServerSpawnsWriter, paneVars, childVars,
         serverVars, writerVars, clientVars, historyVars
  <2> QED
    BY <2>1, <2>2, <2>3, <2>4, MoveStep
<1>13. ASSUME NEW c \in Conn, ServerCannotSpawn(c) PROVE StreamIntact' /\ Shares' /\ ThreadControl'
  <2>1. \A d \in Conn : Flow(d)' = Flow(d)
    BY <1>13 DEF ServerCannotSpawn, Flow, paneVars, childVars,
         serverVars, writerVars, clientVars, historyVars
  <2>2. \A d \in Conn : sub' = d /\ Receiving(d)' => sub = d /\ Receiving(d)
    BY <1>13, PaneAssumption DEF ServerCannotSpawn, Receiving, StreamInv, TypeInv, TypeOK, paneVars, childVars,
         serverVars, writerVars, clientVars, historyVars
  <2>3. ThreadControl'
    BY <1>13, PaneAssumption DEF ServerCannotSpawn, StreamInv, TypeInv, TypeOK, ThreadControl, paneVars, childVars,
         serverVars, writerVars, clientVars, historyVars
  <2>4. UNCHANGED <<base, from, upto, live>>
    BY <1>13 DEF ServerCannotSpawn, paneVars, childVars,
         serverVars, writerVars, clientVars, historyVars
  <2> QED
    BY <2>1, <2>2, <2>3, <2>4, MoveStep
<1>14. ASSUME NEW c \in Conn, ServerReadsInput(c) PROVE StreamIntact' /\ Shares' /\ ThreadControl'
  <2>1. \A d \in Conn : Flow(d)' = Flow(d)
    BY <1>14 DEF ServerReadsInput, Flow, paneVars, childVars,
         serverVars, writerVars, clientVars, historyVars
  <2>2. \A d \in Conn : sub' = d /\ Receiving(d)' => sub = d /\ Receiving(d)
    BY <1>14, PaneAssumption DEF ServerReadsInput, Receiving, StreamInv, TypeInv, TypeOK, paneVars, childVars,
         serverVars, writerVars, clientVars, historyVars
  <2>3. ThreadControl'
    BY <1>14, PaneAssumption, ZenonT(60) DEF ServerReadsInput, StreamInv, TypeInv, TypeOK, ThreadControl, paneVars, childVars,
         serverVars, writerVars, clientVars, historyVars
  <2>4. UNCHANGED <<base, from, upto, live>>
    BY <1>14 DEF ServerReadsInput, paneVars, childVars,
         serverVars, writerVars, clientVars, historyVars
  <2> QED
    BY <2>1, <2>2, <2>3, <2>4, MoveStep
<1>15. ASSUME NEW c \in Conn, ServerWritesInput(c) PROVE StreamIntact' /\ Shares' /\ ThreadControl'
  <2>1. \A d \in Conn : Flow(d)' = Flow(d)
    BY <1>15 DEF ServerWritesInput, Flow, paneVars, childVars,
         serverVars, writerVars, clientVars, historyVars
  <2>2. \A d \in Conn : sub' = d /\ Receiving(d)' => sub = d /\ Receiving(d)
    BY <1>15, PaneAssumption DEF ServerWritesInput, Receiving, StreamInv, TypeInv, TypeOK, paneVars, childVars,
         serverVars, writerVars, clientVars, historyVars
  <2>3. ThreadControl'
    BY <1>15, PaneAssumption DEF ServerWritesInput, StreamInv, TypeInv, TypeOK, ThreadControl, paneVars, childVars,
         serverVars, writerVars, clientVars, historyVars
  <2>4. UNCHANGED <<base, from, upto, live>>
    BY <1>15 DEF ServerWritesInput, paneVars, childVars,
         serverVars, writerVars, clientVars, historyVars
  <2> QED
    BY <2>1, <2>2, <2>3, <2>4, MoveStep
<1>16. ASSUME NEW c \in Conn, ServerResizesPty(c) PROVE StreamIntact' /\ Shares' /\ ThreadControl'
  <2>1. \A d \in Conn : Flow(d)' = Flow(d)
    BY <1>16 DEF ServerResizesPty, Flow, paneVars, childVars,
         serverVars, writerVars, clientVars, historyVars
  <2>2. \A d \in Conn : sub' = d /\ Receiving(d)' => sub = d /\ Receiving(d)
    BY <1>16, PaneAssumption DEF ServerResizesPty, Receiving, StreamInv, TypeInv, TypeOK, paneVars, childVars,
         serverVars, writerVars, clientVars, historyVars
  <2>3. ThreadControl'
    BY <1>16, PaneAssumption DEF ServerResizesPty, StreamInv, TypeInv, TypeOK, ThreadControl, paneVars, childVars,
         serverVars, writerVars, clientVars, historyVars
  <2>4. UNCHANGED <<base, from, upto, live>>
    BY <1>16 DEF ServerResizesPty, paneVars, childVars,
         serverVars, writerVars, clientVars, historyVars
  <2> QED
    BY <2>1, <2>2, <2>3, <2>4, MoveStep
<1>17. ASSUME NEW c \in Conn, ServerReadsDetach(c) PROVE StreamIntact' /\ Shares' /\ ThreadControl'
  <2>1. \A d \in Conn : Flow(d)' = Flow(d)
    BY <1>17 DEF ServerReadsDetach, Flow, paneVars, childVars,
         serverVars, writerVars, clientVars, historyVars
  <2>2. \A d \in Conn : sub' = d /\ Receiving(d)' => sub = d /\ Receiving(d)
    BY <1>17, PaneAssumption DEF ServerReadsDetach, Receiving, StreamInv, TypeInv, TypeOK, paneVars, childVars,
         serverVars, writerVars, clientVars, historyVars
  <2>3. ThreadControl'
    BY <1>17, PaneAssumption, ZenonT(60) DEF ServerReadsDetach, StreamInv, TypeInv, TypeOK, ThreadControl, paneVars, childVars,
         serverVars, writerVars, clientVars, historyVars
  <2>4. UNCHANGED <<base, from, upto, live>>
    BY <1>17 DEF ServerReadsDetach, paneVars, childVars,
         serverVars, writerVars, clientVars, historyVars
  <2> QED
    BY <2>1, <2>2, <2>3, <2>4, MoveStep
<1>18. ASSUME NEW c \in Conn, ServerReadsKill(c) PROVE StreamIntact' /\ Shares' /\ ThreadControl'
  <2>1. \A d \in Conn : Flow(d)' = Flow(d)
    BY <1>18 DEF ServerReadsKill, Flow, paneVars, childVars,
         serverVars, writerVars, clientVars, historyVars
  <2>2. \A d \in Conn : sub' = d /\ Receiving(d)' => sub = d /\ Receiving(d)
    BY <1>18, PaneAssumption DEF ServerReadsKill, Receiving, StreamInv, TypeInv, TypeOK, paneVars, childVars,
         serverVars, writerVars, clientVars, historyVars
  <2>3. ThreadControl'
    BY <1>18, PaneAssumption, ZenonT(60) DEF ServerReadsKill, StreamInv, TypeInv, TypeOK, ThreadControl, paneVars, childVars,
         serverVars, writerVars, clientVars, historyVars
  <2>4. UNCHANGED <<base, from, upto, live>>
    BY <1>18 DEF ServerReadsKill, paneVars, childVars,
         serverVars, writerVars, clientVars, historyVars
  <2> QED
    BY <2>1, <2>2, <2>3, <2>4, MoveStep
<1>19. ASSUME NEW c \in Conn, ServerKills(c) PROVE StreamIntact' /\ Shares' /\ ThreadControl'
  <2>1. \A d \in Conn : Flow(d)' = Flow(d)
    BY <1>19 DEF ServerKills, Kill, Flow, paneVars, childVars,
         serverVars, writerVars, clientVars, historyVars
  <2>2. \A d \in Conn : sub' = d /\ Receiving(d)' => sub = d /\ Receiving(d)
    BY <1>19, PaneAssumption DEF ServerKills, Kill, Receiving, StreamInv, TypeInv, TypeOK, paneVars, childVars,
         serverVars, writerVars, clientVars, historyVars
  <2>3. ThreadControl'
    BY <1>19, PaneAssumption DEF ServerKills, Kill, StreamInv, TypeInv, TypeOK, ThreadControl, paneVars, childVars,
         serverVars, writerVars, clientVars, historyVars
  <2>4. UNCHANGED <<base, from, upto, live>>
    BY <1>19 DEF ServerKills, Kill, paneVars, childVars,
         serverVars, writerVars, clientVars, historyVars
  <2> QED
    BY <2>1, <2>2, <2>3, <2>4, MoveStep
<1>20. ASSUME NEW c \in Conn, ServerReadsEof(c) PROVE StreamIntact' /\ Shares' /\ ThreadControl'
  <2>1. \A d \in Conn : Flow(d)' = Flow(d)
    BY <1>20 DEF ServerReadsEof, Flow, paneVars, childVars,
         serverVars, writerVars, clientVars, historyVars
  <2>2. \A d \in Conn : sub' = d /\ Receiving(d)' => sub = d /\ Receiving(d)
    BY <1>20, PaneAssumption DEF ServerReadsEof, Receiving, StreamInv, TypeInv, TypeOK, paneVars, childVars,
         serverVars, writerVars, clientVars, historyVars
  <2>3. ThreadControl'
    BY <1>20, PaneAssumption DEF ServerReadsEof, StreamInv, TypeInv, TypeOK, ThreadControl, paneVars, childVars,
         serverVars, writerVars, clientVars, historyVars
  <2>4. UNCHANGED <<base, from, upto, live>>
    BY <1>20 DEF ServerReadsEof, paneVars, childVars,
         serverVars, writerVars, clientVars, historyVars
  <2> QED
    BY <2>1, <2>2, <2>3, <2>4, MoveStep
<1>21. ASSUME NEW c \in Conn, ServerDetaches(c) PROVE StreamIntact' /\ Shares' /\ ThreadControl'
  <2>1. \A d \in Conn : Flow(d)' = Flow(d)
    BY <1>21 DEF ServerDetaches, Flow, paneVars, childVars,
         serverVars, writerVars, clientVars, historyVars
  <2>2. \A d \in Conn : sub' = d /\ Receiving(d)' => sub = d /\ Receiving(d)
    BY <1>21, PaneAssumption DEF ServerDetaches, Receiving, StreamInv, TypeInv, TypeOK, paneVars, childVars,
         serverVars, writerVars, clientVars, historyVars
  <2>3. ThreadControl'
    BY <1>21, PaneAssumption, ZenonT(60) DEF ServerDetaches, StreamInv, TypeInv, TypeOK, ThreadControl, paneVars, childVars,
         serverVars, writerVars, clientVars, historyVars
  <2>4. UNCHANGED <<base, from, upto, live>>
    BY <1>21 DEF ServerDetaches, paneVars, childVars,
         serverVars, writerVars, clientVars, historyVars
  <2> QED
    BY <2>1, <2>2, <2>3, <2>4, MoveStep
<1>22. ASSUME NEW c \in Conn, ServerShutsDown(c) PROVE StreamIntact' /\ Shares' /\ ThreadControl'
  <2>1. \A d \in Conn : Flow(d)' = Flow(d)
    BY <1>22 DEF ServerShutsDown, Flow, paneVars, childVars,
         serverVars, writerVars, clientVars, historyVars
  <2>2. \A d \in Conn : sub' = d /\ Receiving(d)' => sub = d /\ Receiving(d)
    BY <1>22, PaneAssumption DEF ServerShutsDown, Receiving, StreamInv, TypeInv, TypeOK, paneVars, childVars,
         serverVars, writerVars, clientVars, historyVars
  <2>3. ThreadControl'
    BY <1>22, PaneAssumption DEF ServerShutsDown, StreamInv, TypeInv, TypeOK, ThreadControl, paneVars, childVars,
         serverVars, writerVars, clientVars, historyVars
  <2>4. UNCHANGED <<base, from, upto, live>>
    BY <1>22 DEF ServerShutsDown, paneVars, childVars,
         serverVars, writerVars, clientVars, historyVars
  <2> QED
    BY <2>1, <2>2, <2>3, <2>4, MoveStep
<1>23. ASSUME NEW c \in Conn, ServerJoinsWriter(c) PROVE StreamIntact' /\ Shares' /\ ThreadControl'
  <2>1. \A d \in Conn : Flow(d)' = Flow(d)
    BY <1>23 DEF ServerJoinsWriter, Flow, paneVars, childVars,
         serverVars, writerVars, clientVars, historyVars
  <2>2. \A d \in Conn : sub' = d /\ Receiving(d)' => sub = d /\ Receiving(d)
    BY <1>23, PaneAssumption DEF ServerJoinsWriter, Receiving, StreamInv, TypeInv, TypeOK, paneVars, childVars,
         serverVars, writerVars, clientVars, historyVars
  <2>3. ThreadControl'
    BY <1>23, PaneAssumption DEF ServerJoinsWriter, StreamInv, TypeInv, TypeOK, ThreadControl, paneVars, childVars,
         serverVars, writerVars, clientVars, historyVars
  <2>4. UNCHANGED <<base, from, upto, live>>
    BY <1>23 DEF ServerJoinsWriter, paneVars, childVars,
         serverVars, writerVars, clientVars, historyVars
  <2> QED
    BY <2>1, <2>2, <2>3, <2>4, MoveStep
<1>24. ASSUME NEW c \in Conn, WriterStopsBatching(c) PROVE StreamIntact' /\ Shares' /\ ThreadControl'
  <2>1. \A d \in Conn : Flow(d)' = Flow(d)
    BY <1>24 DEF WriterStopsBatching, Flow, paneVars, childVars,
         serverVars, writerVars, clientVars, historyVars
  <2>2. \A d \in Conn : sub' = d /\ Receiving(d)' => sub = d /\ Receiving(d)
    BY <1>24, PaneAssumption DEF WriterStopsBatching, Receiving, StreamInv, TypeInv, TypeOK, paneVars, childVars,
         serverVars, writerVars, clientVars, historyVars
  <2>3. ThreadControl'
    BY <1>24, PaneAssumption DEF WriterStopsBatching, StreamInv, TypeInv, TypeOK, ThreadControl, paneVars, childVars,
         serverVars, writerVars, clientVars, historyVars
  <2>4. UNCHANGED <<base, from, upto, live>>
    BY <1>24 DEF WriterStopsBatching, paneVars, childVars,
         serverVars, writerVars, clientVars, historyVars
  <2> QED
    BY <2>1, <2>2, <2>3, <2>4, MoveStep
<1>25. ASSUME NEW c \in Conn, WriterFails(c) PROVE StreamIntact' /\ Shares' /\ ThreadControl'
  <2>1. \A d \in Conn : Flow(d)' = Flow(d)
    BY <1>25 DEF WriterFails, Flow, paneVars, childVars,
         serverVars, writerVars, clientVars, historyVars
  <2>2. \A d \in Conn : sub' = d /\ Receiving(d)' => sub = d /\ Receiving(d)
    BY <1>25, PaneAssumption DEF WriterFails, Receiving, StreamInv, TypeInv, TypeOK, paneVars, childVars,
         serverVars, writerVars, clientVars, historyVars
  <2>3. ThreadControl'
    BY <1>25, PaneAssumption DEF WriterFails, StreamInv, TypeInv, TypeOK, ThreadControl, paneVars, childVars,
         serverVars, writerVars, clientVars, historyVars
  <2>4. UNCHANGED <<base, from, upto, live>>
    BY <1>25 DEF WriterFails, paneVars, childVars,
         serverVars, writerVars, clientVars, historyVars
  <2> QED
    BY <2>1, <2>2, <2>3, <2>4, MoveStep
<1>26. ASSUME NEW c \in Conn, WriterEnds(c) PROVE StreamIntact' /\ Shares' /\ ThreadControl'
  <2>1. \A d \in Conn : Flow(d)' = Flow(d)
    BY <1>26 DEF WriterEnds, Flow, paneVars, childVars,
         serverVars, writerVars, clientVars, historyVars
  <2>2. \A d \in Conn : sub' = d /\ Receiving(d)' => sub = d /\ Receiving(d)
    BY <1>26, PaneAssumption DEF WriterEnds, Receiving, StreamInv, TypeInv, TypeOK, paneVars, childVars,
         serverVars, writerVars, clientVars, historyVars
  <2>3. ThreadControl'
    BY <1>26, PaneAssumption DEF WriterEnds, StreamInv, TypeInv, TypeOK, ThreadControl, paneVars, childVars,
         serverVars, writerVars, clientVars, historyVars
  <2>4. UNCHANGED <<base, from, upto, live>>
    BY <1>26 DEF WriterEnds, paneVars, childVars,
         serverVars, writerVars, clientVars, historyVars
  <2> QED
    BY <2>1, <2>2, <2>3, <2>4, MoveStep
<1>27. ASSUME NEW c \in Conn, ClientConnects(c) PROVE StreamIntact' /\ Shares' /\ ThreadControl'
  <2>1. \A d \in Conn : Flow(d)' = Flow(d)
    BY <1>27 DEF ClientConnects, Flow, paneVars, childVars,
         serverVars, writerVars, clientVars, historyVars
  <2>2. \A d \in Conn : sub' = d /\ Receiving(d)' => sub = d /\ Receiving(d)
    BY <1>27, PaneAssumption DEF ClientConnects, Receiving, StreamInv, TypeInv, TypeOK, paneVars, childVars,
         serverVars, writerVars, clientVars, historyVars
  <2>3. ThreadControl'
    BY <1>27, PaneAssumption, ZenonT(60) DEF ClientConnects, StreamInv, TypeInv, TypeOK, ThreadControl, paneVars, childVars,
         serverVars, writerVars, clientVars, historyVars
  <2>4. UNCHANGED <<base, from, upto, live>>
    BY <1>27 DEF ClientConnects, paneVars, childVars,
         serverVars, writerVars, clientVars, historyVars
  <2> QED
    BY <2>1, <2>2, <2>3, <2>4, MoveStep
<1>28. ASSUME NEW c \in Conn, ClientSends(c) PROVE StreamIntact' /\ Shares' /\ ThreadControl'
  <2>1. \A d \in Conn : Flow(d)' = Flow(d)
    BY <1>28 DEF ClientSends, Flow, paneVars, childVars,
         serverVars, writerVars, clientVars, historyVars
  <2>2. \A d \in Conn : sub' = d /\ Receiving(d)' => sub = d /\ Receiving(d)
    BY <1>28, PaneAssumption DEF ClientSends, Receiving, StreamInv, TypeInv, TypeOK, paneVars, childVars,
         serverVars, writerVars, clientVars, historyVars
  <2>3. ThreadControl'
    BY <1>28, PaneAssumption DEF ClientSends, StreamInv, TypeInv, TypeOK, ThreadControl, paneVars, childVars,
         serverVars, writerVars, clientVars, historyVars
  <2>4. UNCHANGED <<base, from, upto, live>>
    BY <1>28 DEF ClientSends, paneVars, childVars,
         serverVars, writerVars, clientVars, historyVars
  <2> QED
    BY <2>1, <2>2, <2>3, <2>4, MoveStep
<1>29. ASSUME NEW c \in Conn, ClientCloses(c) PROVE StreamIntact' /\ Shares' /\ ThreadControl'
  <2>1. \A d \in Conn : Flow(d)' = Flow(d)
    BY <1>29 DEF ClientCloses, Flow, paneVars, childVars,
         serverVars, writerVars, clientVars, historyVars
  <2>2. \A d \in Conn : sub' = d /\ Receiving(d)' => sub = d /\ Receiving(d)
    BY <1>29, PaneAssumption DEF ClientCloses, Receiving, StreamInv, TypeInv, TypeOK, paneVars, childVars,
         serverVars, writerVars, clientVars, historyVars
  <2>3. ThreadControl'
    BY <1>29, PaneAssumption DEF ClientCloses, StreamInv, TypeInv, TypeOK, ThreadControl, paneVars, childVars,
         serverVars, writerVars, clientVars, historyVars
  <2>4. UNCHANGED <<base, from, upto, live>>
    BY <1>29 DEF ClientCloses, paneVars, childVars,
         serverVars, writerVars, clientVars, historyVars
  <2> QED
    BY <2>1, <2>2, <2>3, <2>4, MoveStep
<1>30. ASSUME NEW c \in Conn, WriterReceives(c) PROVE StreamIntact' /\ Shares' /\ ThreadControl'
  <2>1. Flow(c)' = Flow(c)
    <3>0. /\ got[c] \in Seq(PaneFrame) /\ wire[c] \in Seq(PaneFrame)
          /\ batch[c] \in Seq(PaneFrame) /\ chan[c] \in Seq(PaneFrame)
      BY FlowType DEF StreamInv
    <3> DEFINE sent == got[c] \o wire[c]
    <3>1. /\ batch[c] = <<>> /\ chan[c] # <<>>
          /\ batch'[c] = <<Head(chan[c])>> /\ chan'[c] = Tail(chan[c])
          /\ UNCHANGED <<got, wire>>
      BY <1>30 DEF WriterReceives, StreamInv, ThreadControl, TypeInv, TypeOK, clientVars
    <3>2. sent \in Seq(PaneFrame)
      BY <3>0, ConcatProperties
    <3>3. /\ <<Head(chan[c])>> \in Seq(PaneFrame)
          /\ Tail(chan[c]) \in Seq(PaneFrame)
      BY <3>0, <3>1, HeadTailProperties
    <3>4. Flow(c) = sent \o chan[c]
      BY <3>1, <3>2, ConcatEmptySeq DEF Flow
    <3>5. Flow(c)' = (sent \o <<Head(chan[c])>>) \o Tail(chan[c])
      BY <3>1 DEF Flow
    <3> HIDE DEF sent
    <3>6. Flow(c)' = sent \o (<<Head(chan[c])>> \o Tail(chan[c]))
      BY <3>2, <3>3, <3>5, FramesAssociative
    <3> QED
      BY <3>0, <3>1, <3>4, <3>6, HeadThenTail
  <2>2. \A d \in Conn : d # c => Flow(d)' = Flow(d)
    BY <1>30 DEF WriterReceives, Flow, StreamInv, TypeInv, TypeOK, writerVars, clientVars
  <2>3. UNCHANGED <<base, from, upto, live, sub, srv>>
    BY <1>30 DEF WriterReceives, paneVars, serverVars, historyVars
  <2>4. \A d \in Conn : sub' = d /\ Receiving(d)' => sub = d /\ Receiving(d)
    BY <1>30, <2>3 DEF WriterReceives, Receiving, StreamInv, TypeInv, TypeOK, writerVars
  <2>5. ThreadControl'
    BY <1>30, <2>3 DEF WriterReceives, StreamInv, TypeInv, TypeOK, ThreadControl, writerVars, clientVars
  <2> QED
    BY <2>1, <2>2, <2>3, <2>4, <2>5, MoveStep
<1>31. ASSUME NEW c \in Conn, WriterBatches(c) PROVE StreamIntact' /\ Shares' /\ ThreadControl'
  <2>1. Flow(c)' = Flow(c)
    <3>0. /\ got[c] \in Seq(PaneFrame) /\ wire[c] \in Seq(PaneFrame)
          /\ batch[c] \in Seq(PaneFrame) /\ chan[c] \in Seq(PaneFrame)
      BY FlowType DEF StreamInv
    <3> DEFINE sent == got[c] \o wire[c]
    <3>1. /\ chan[c] # <<>>
          /\ batch'[c] = Append(batch[c], Head(chan[c])) /\ chan'[c] = Tail(chan[c])
          /\ UNCHANGED <<got, wire>>
      BY <1>31 DEF WriterBatches, NextMerges, StreamInv, TypeInv, TypeOK, clientVars
    <3>2. sent \in Seq(PaneFrame) /\ Head(chan[c]) \in PaneFrame
      BY <3>0, <3>1, FramesConcat, HeadTailProperties
    <3>3. Flow(c) = (sent \o batch[c]) \o chan[c]
      BY DEF Flow
    <3>4. Flow(c)' = (sent \o Append(batch[c], Head(chan[c]))) \o Tail(chan[c])
      BY <3>1 DEF Flow
    <3> HIDE DEF sent
    <3>5. sent \o Append(batch[c], Head(chan[c])) = Append(sent \o batch[c], Head(chan[c]))
      BY <3>0, <3>2, FramesAppend
    <3>6. sent \o batch[c] \in Seq(PaneFrame)
      BY <3>0, <3>2, FramesConcat
    <3>7. Append(sent \o batch[c], Head(chan[c])) \o Tail(chan[c])
             = (sent \o batch[c]) \o chan[c]
      BY <3>0, <3>1, <3>6, HeadMoves
    <3> QED
      BY <3>3, <3>4, <3>5, <3>7
  <2>2. \A d \in Conn : d # c => Flow(d)' = Flow(d)
    BY <1>31 DEF WriterBatches, Flow, StreamInv, TypeInv, TypeOK, writerVars, clientVars
  <2>3. UNCHANGED <<base, from, upto, live, sub, srv>>
    BY <1>31 DEF WriterBatches, paneVars, serverVars, historyVars
  <2>4. \A d \in Conn : sub' = d /\ Receiving(d)' => sub = d /\ Receiving(d)
    BY <1>31, <2>3 DEF WriterBatches, Receiving, StreamInv, TypeInv, TypeOK, writerVars
  <2>5. ThreadControl'
    BY <1>31, <2>3 DEF WriterBatches, StreamInv, TypeInv, TypeOK, ThreadControl, writerVars, clientVars
  <2> QED
    BY <2>1, <2>2, <2>3, <2>4, <2>5, MoveStep
<1>32. ASSUME NEW c \in Conn, WriterWrites(c) PROVE StreamIntact' /\ Shares' /\ ThreadControl'
  <2>1. Flow(c)' = Flow(c)
    <3>0. /\ got[c] \in Seq(PaneFrame) /\ wire[c] \in Seq(PaneFrame)
          /\ batch[c] \in Seq(PaneFrame) /\ chan[c] \in Seq(PaneFrame)
      BY FlowType DEF StreamInv
    <3>1. /\ wire'[c] = wire[c] \o batch[c] /\ batch'[c] = <<>>
          /\ UNCHANGED <<got, chan>>
      BY <1>32 DEF WriterWrites, StreamInv, TypeInv, TypeOK, clientVars
    <3>2. Flow(c)' = (got[c] \o (wire[c] \o batch[c])) \o <<>> \o chan[c]
      BY <3>1 DEF Flow
    <3>3. (got[c] \o wire[c]) \o batch[c] = got[c] \o (wire[c] \o batch[c])
      BY <3>0, FramesAssociative, Zenon
    <3>4. (got[c] \o wire[c]) \o batch[c] \in Seq(PaneFrame)
      BY <3>0, ConcatProperties
    <3>5. ((got[c] \o wire[c]) \o batch[c]) \o <<>> = (got[c] \o wire[c]) \o batch[c]
      BY <3>4, ConcatEmptySeq
    <3> QED
      BY <3>2, <3>3, <3>5 DEF Flow
  <2>2. \A d \in Conn : d # c => Flow(d)' = Flow(d)
    BY <1>32 DEF WriterWrites, Flow, StreamInv, TypeInv, TypeOK, writerVars, clientVars
  <2>3. UNCHANGED <<base, from, upto, live, sub, srv>>
    BY <1>32 DEF WriterWrites, paneVars, serverVars, historyVars
  <2>4. \A d \in Conn : sub' = d /\ Receiving(d)' => sub = d /\ Receiving(d)
    BY <1>32, <2>3 DEF WriterWrites, Receiving, StreamInv, TypeInv, TypeOK, writerVars
  <2>5. ThreadControl'
    BY <1>32, <2>3 DEF WriterWrites, StreamInv, TypeInv, TypeOK, ThreadControl, writerVars, clientVars
  <2> QED
    BY <2>1, <2>2, <2>3, <2>4, <2>5, MoveStep
<1>33. ASSUME NEW c \in Conn, ClientReads(c) PROVE StreamIntact' /\ Shares' /\ ThreadControl'
  <2>1. Flow(c)' = Flow(c)
    <3>0. /\ got[c] \in Seq(PaneFrame) /\ wire[c] \in Seq(PaneFrame)
          /\ batch[c] \in Seq(PaneFrame) /\ chan[c] \in Seq(PaneFrame)
      BY FlowType DEF StreamInv
    <3>1. /\ wire[c] # <<>>
          /\ got'[c] = Append(got[c], Head(wire[c])) /\ wire'[c] = Tail(wire[c])
          /\ UNCHANGED <<batch, chan>>
      BY <1>33 DEF ClientReads, StreamInv, TypeInv, TypeOK, writerVars
    <3>2. Append(got[c], Head(wire[c])) \o Tail(wire[c]) = got[c] \o wire[c]
      BY <3>0, <3>1, HeadMoves
    <3> QED
      BY <3>1, <3>2 DEF Flow
  <2>2. \A d \in Conn : d # c => Flow(d)' = Flow(d)
    BY <1>33 DEF ClientReads, Flow, StreamInv, TypeInv, TypeOK, writerVars, clientVars
  <2>3. UNCHANGED <<base, from, upto, live, sub, srv>>
    BY <1>33 DEF ClientReads, paneVars, serverVars, historyVars
  <2>4. \A d \in Conn : sub' = d /\ Receiving(d)' => sub = d /\ Receiving(d)
    BY <1>33, <2>3 DEF ClientReads, Receiving, StreamInv, TypeInv, TypeOK, writerVars
  <2>5. ThreadControl'
    BY <1>33, <2>3 DEF ClientReads, StreamInv, TypeInv, TypeOK, ThreadControl, writerVars, clientVars
  <2> QED
    BY <2>1, <2>2, <2>3, <2>4, <2>5, MoveStep
<1>34. CASE UNCHANGED vars
  <2>1. UNCHANGED <<got, wire, batch, chan, base, from, upto, live, sub, srv, wpc, cli>>
    BY <1>34 DEF vars
  <2>2. \A d \in Conn : Flow(d)' = Flow(d)
    BY <2>1 DEF Flow
  <2>3. \A d \in Conn : sub' = d /\ Receiving(d)' => sub = d /\ Receiving(d)
    BY <2>1 DEF Receiving
  <2>4. ThreadControl'
    BY <2>1 DEF ThreadControl, StreamInv
  <2> QED
    BY <2>1, <2>2, <2>3, <2>4, MoveStep
<1> QED
  BY <1>1, <1>2, <1>3, <1>4, <1>5, <1>6, <1>7, <1>8, <1>9, <1>10, <1>11,
     <1>12, <1>13, <1>14, <1>15, <1>16, <1>17, <1>18, <1>19, <1>20,
     <1>21, <1>22, <1>23, <1>24, <1>25, <1>26, <1>27, <1>28, <1>29,
     <1>30, <1>31, <1>32, <1>33, <1>34
     DEF Next, Reader, Server, Writer, Client

(* So the invariant always holds. *)
LEMMA StreamInvariant == Spec => []StreamInv
<1>1. Init => StreamInv
  BY StreamInit
<1>2. StreamInv /\ [Next]_vars => StreamInv'
  <2> SUFFICES ASSUME StreamInv, [Next]_vars PROVE StreamInv'
    OBVIOUS
  <2>1. TypeInv'
    BY TypeStep DEF StreamInv
  <2>2. StreamIntact' /\ Shares' /\ ThreadControl'
    BY StreamStep
  <2> QED
    BY <2>1, <2>2 DEF StreamInv
<1> QED
  BY <1>1, <1>2, PTL DEF Spec

(* In every reachable state, for every connection: what is on its way to   *)
(* the client, or with it, is the opening of its attach followed by all    *)
(* that was published until it stopped being the subscriber.               *)
THEOREM StreamStaysIntact == Spec => []StreamIntact
<1>1. StreamInv => StreamIntact
  BY DEF StreamInv
<1> QED
  BY <1>1, StreamInvariant, PTL

-----------------------------------------------------------------------------
(* The refinement of FrameStream.                                          *)
(*                                                                         *)
(* The viewer that is served is the subscriber, as long as its receiver    *)
(* lives; what a connection is promised is all that is on its way to it.   *)

Served == IF sub # NoConn /\ Receiving(sub) THEN sub ELSE NoConn

FramesPromised == INSTANCE FrameStream WITH
    Viewer <- Conn,
    NoViewer <- NoConn,
    published <- live,
    holder <- Served,
    promised <- [c \in Conn |-> Flow(c)],
    received <- got

(* A step that publishes nothing and gives nobody an opening promises      *)
(* nothing: by StreamIntact, a promise is what history says it is.         *)
LEMMA NothingPromised ==
    ASSUME StreamInv, StreamInv', UNCHANGED historyVars
    PROVE  /\ UNCHANGED live
           /\ \A d \in Conn : Flow(d)' = Flow(d)
<1>1. \A d \in Conn : Promise(d)' = Promise(d)
  BY DEF historyVars, Promise
<1>2. \A d \in Conn : Flow(d)' = Promise(d)' /\ Flow(d) = Promise(d)
  BY DEF StreamInv, StreamIntact
<1> QED
  BY <1>1, <1>2 DEF historyVars

(* If the client reads nothing either, the step goes unseen or releases    *)
(* the viewer.                                                             *)
LEMMA UnseenOrReleased ==
    ASSUME StreamInv, StreamInv', UNCHANGED <<historyVars, got>>,
           \A d \in Conn : sub' = d /\ Receiving(d)' => sub = d /\ Receiving(d)
    PROVE  [FramesPromised!Next]_FramesPromised!frameVars
<1>1. UNCHANGED <<live, got>> /\ \A d \in Conn : Flow(d)' = Flow(d)
  BY NothingPromised
<1>2. [c \in Conn |-> Flow(c)]' = [c \in Conn |-> Flow(c)]
  BY <1>1
<1>3. Served' \in {Served, NoConn}
  <2>1. sub \in Conn \cup {NoConn} /\ sub' \in Conn \cup {NoConn}
    BY DEF StreamInv, TypeInv, TypeOK
  <2>2. CASE (sub # NoConn /\ Receiving(sub))'
    <3>1. sub' \in Conn /\ sub = sub' /\ Receiving(sub)
      BY <2>1, <2>2 DEF Receiving
    <3> QED
      BY <2>2, <3>1 DEF Served
  <2>3. CASE ~(sub # NoConn /\ Receiving(sub))'
    BY <2>3 DEF Served
  <2> QED
    BY <2>2, <2>3
<1>4. CASE Served' = Served
  BY <1>1, <1>2, <1>4 DEF FramesPromised!frameVars
<1>5. CASE Served' = NoConn
  BY <1>1, <1>2, <1>5 DEF FramesPromised!Release, FramesPromised!Next
<1> QED
  BY <1>3, <1>4, <1>5

(* The subscriber whose receiver lives is promised what is published. *)
LEMMA PublishedIsPromised ==
    ASSUME StreamInv, NEW f \in PaneFrame, live' = Append(live, f),
           UNCHANGED <<got, wire, batch>>, Served' = Served,
           \A d \in Conn : chan'[d] = IF d = Served THEN Append(chan[d], f)
                                                    ELSE chan[d]
    PROVE  FramesPromised!Next
<1>1. ASSUME NEW d \in Conn
      PROVE  Flow(d)' = IF d = Served THEN Append(Flow(d), f) ELSE Flow(d)
  <2> DEFINE before == got[d] \o wire[d] \o batch[d]
  <2>1. before \in Seq(PaneFrame) /\ chan[d] \in Seq(PaneFrame)
    BY FlowType, ConcatProperties DEF StreamInv
  <2>2. Flow(d) = before \o chan[d] /\ Flow(d)' = before \o chan'[d]
    BY DEF Flow
  <2> HIDE DEF before
  <2>3. before \o Append(chan[d], f) = Append(before \o chan[d], f)
    BY <2>1, FramesAppend
  <2> QED
    BY <2>2, <2>3
<1>2. [c \in Conn |-> Flow(c)]'
         = [v \in Conn |-> IF v = Served THEN Append([c \in Conn |-> Flow(c)][v], f)
                                         ELSE [c \in Conn |-> Flow(c)][v]]
  BY <1>1
<1>3. FramesPromised!Emit(f)
  BY <1>2 DEF FramesPromised!Emit
<1>4. f \in Range(live')
  <2>1. live \in Seq(PaneFrame)
    BY DEF StreamInv, TypeInv, TypeOK
  <2>2. Len(live) + 1 \in DOMAIN live' /\ live'[Len(live) + 1] = f
    BY <2>1, AppendProperties
  <2> QED
    BY <2>2 DEF Range
<1> QED
  BY <1>3, <1>4 DEF FramesPromised!Next, FramesPromised!Range

(* Publish clears a subscriber whose receiver is gone: it was not served.  *)
LEMMA PublishEmits ==
    ASSUME StreamInv, NEW f \in PaneFrame, Publish(f),
           UNCHANGED <<got, wire, batch>>,
           \A d \in Conn : Receiving(d)' = Receiving(d)
    PROVE  FramesPromised!Next
<1>1. sub \in Conn \cup {NoConn} /\ chan \in [Conn -> Seq(PaneFrame)]
  BY DEF StreamInv, TypeInv, TypeOK
<1>2. CASE sub # NoConn /\ Receiving(sub)
  <2>1. sub' = sub /\ sub \in Conn /\ chan' = [chan EXCEPT ![sub] = Append(@, f)]
        /\ live' = Append(live, f)
    BY <1>1, <1>2 DEF Publish
  <2>2. Served = sub /\ Served' = sub
    <3>1. Receiving(sub)' = Receiving(sub)
      BY <2>1 DEF Receiving
    <3> QED
      BY <1>2, <2>1, <3>1 DEF Served
  <2>3. \A d \in Conn : chan'[d] = IF d = Served THEN Append(chan[d], f) ELSE chan[d]
    BY <1>1, <2>1, <2>2
  <2> QED
    BY <2>1, <2>2, <2>3, PublishedIsPromised
<1>3. CASE ~(sub # NoConn /\ Receiving(sub))
  <2>1. sub' = NoConn /\ chan' = chan /\ live' = Append(live, f)
    BY <1>3 DEF Publish
  <2>2. Served = NoConn /\ Served' = NoConn
    BY <1>3, <2>1 DEF Served
  <2>3. \A d \in Conn : d # Served
    BY <2>2, PaneAssumption
  <2> QED
    BY <2>1, <2>2, <2>3, PublishedIsPromised
<1> QED
  BY <1>2, <1>3

(* A connection's own steps that leave the channels of the others alone:   *)
(* nobody begins to receive by them.                                       *)
LEMMA OwnStepUnseen ==
    ASSUME StreamInv, StreamInv', NEW c \in Conn, UNCHANGED <<historyVars, got>>,
           sub' \in {sub, NoConn},
           \A d \in Conn : d # c => srv'[d] = srv[d] /\ wpc'[d] = wpc[d],
           Receiving(c)' => Receiving(c)
    PROVE  [FramesPromised!Next]_FramesPromised!frameVars
<1>1. \A d \in Conn : Receiving(d)' => Receiving(d)
  BY DEF Receiving
<1>2. \A d \in Conn : sub' = d => sub = d
  BY PaneAssumption
<1> QED
  BY <1>1, <1>2, UnseenOrReleased

(* Every step of the threads is a step of FrameStream, or is not seen.     *)
LEMMA FrameStep ==
    ASSUME StreamInv, StreamInv', [Next]_vars
    PROVE  [FramesPromised!Next]_FramesPromised!frameVars
<1> DEFINE Goal == [FramesPromised!Next]_FramesPromised!frameVars
<1>0. /\ srv \in [Conn -> {"idle", "attach", "spawn", "serve", "write", "ioctl",
                           "kill", "detach", "shutdown", "join", "done"}]
      /\ wpc \in [Conn -> {"none", "recv", "fill", "write", "done"}]
      /\ got \in [Conn -> Seq(PaneFrame)] /\ chan \in [Conn -> Seq(PaneFrame)]
      /\ sub \in Conn \cup {NoConn}
  BY DEF StreamInv, TypeInv, TypeOK
<1>1. CASE \/ ChildHides \/ ChildExits \/ KillArrives \/ KillerKills
           \/ ReaderReads \/ ReaderEof \/ ReaderReaps \/ UNCHANGED vars
  <2>1. UNCHANGED <<sub, srv, wpc, got, historyVars>>
    BY <1>1, Zenon DEF ChildHides, ChildExits, KillArrives, KillerKills, ReaderReads,
                ReaderEof, ReaderReaps, vars, paneVars, serverVars, writerVars,
                clientVars, historyVars
  <2>2. \A d \in Conn : Receiving(d)' = Receiving(d)
    BY <2>1 DEF Receiving
  <2> QED
    BY <2>1, <2>2, UnseenOrReleased
<1>2. CASE ReaderPublishes
  <2> DEFINE byte == [src |-> "out", id |-> chunk.id, text |-> chunk.text,
                      geo |-> TailSize]
             f == BytesFrame("OUTPUT", <<byte>>)
  <2>1. byte \in Byte
    BY TailSizeType DEF StreamInv, TypeInv, TypeOK, Byte, Chunk
  <2>2. f \in PaneFrame
    BY <2>1 DEF BytesFrame, PaneFrame, Frame
  <2>3. Publish(f) /\ UNCHANGED <<got, wire, batch, srv, wpc>>
    BY <1>2 DEF ReaderPublishes, serverVars, writerVars, clientVars
  <2> HIDE DEF f
  <2>4. \A d \in Conn : Receiving(d)' = Receiving(d)
    BY <2>3 DEF Receiving
  <2> QED
    BY <2>2, <2>3, <2>4, PublishEmits
<1>3. CASE ReaderExits
  <2> DEFINE f == Marker("EXITED")
  <2>1. f \in PaneFrame
    BY EmptySeq DEF Marker, PaneFrame, Frame
  <2>2. UNCHANGED <<sub, got, wire, batch, srv, wpc>> /\ live' = Append(live, f)
    BY <1>3 DEF ReaderExits, serverVars, writerVars, clientVars
  <2>3. Receiving(sub)' = Receiving(sub)
    BY <2>2 DEF Receiving
  <2>4. Served' = Served
    BY <2>2, <2>3 DEF Served
  <2>5. \A d \in Conn : chan'[d] = IF d = Served THEN Append(chan[d], f) ELSE chan[d]
    <3>1. CASE sub # NoConn /\ Receiving(sub)
      <4>1. chan' = [chan EXCEPT ![sub] = Append(@, f)] /\ Served = sub
        BY <1>3, <3>1 DEF ReaderExits, Served
      <4> QED
        BY <4>1, <1>0
    <3>2. CASE ~(sub # NoConn /\ Receiving(sub))
      <4>1. chan' = chan /\ Served = NoConn
        BY <1>3, <3>2 DEF ReaderExits, Served
      <4> QED
        BY <4>1, PaneAssumption
    <3> QED
      BY <3>1, <3>2
  <2> HIDE DEF f
  <2> QED
    BY <2>1, <2>2, <2>4, <2>5, PublishedIsPromised
<1>4. ASSUME NEW c \in Conn, ServerAttaches(c) PROVE Goal
  <2>1. /\ srv[c] = "attach" /\ srv' = [srv EXCEPT ![c] = "spawn"]
        /\ sub' = c /\ UNCHANGED <<got, wire, batch, wpc, live>>
        /\ \A d \in Conn : d # c => chan'[d] = chan[d]
    BY <1>0, <1>4 DEF ServerAttaches, writerVars, clientVars
  <2>2. wpc[c] = "none" /\ Flow(c) = <<>> /\ got[c] = <<>>
    <3>1. /\ got[c] = <<>> /\ wire[c] = <<>> /\ chan[c] = <<>>
          /\ wpc[c] = "none" /\ batch[c] = <<>>
      BY <2>1 DEF StreamInv, ThreadControl
    <3> QED
      BY <3>1, ConcatEmptySeq DEF Flow
  <2>3. Served' = c
    <3>1. Receiving(sub)'
      BY <1>0, <2>1, <2>2 DEF Receiving
    <3> QED
      BY <2>1, <3>1, PaneAssumption DEF Served
  <2>4. \A d \in Conn : d # c => Flow(d)' = Flow(d)
    BY <2>1 DEF Flow
  <2>5. [d \in Conn |-> Flow(d)]'
           = [[d \in Conn |-> Flow(d)] EXCEPT ![c] = [d \in Conn |-> Flow(d)]'[c]]
    BY <2>4
  <2>6. FramesPromised!Attach(c)
    BY <2>1, <2>2, <2>3, <2>5 DEF FramesPromised!Attach
  <2> QED
    BY <2>6 DEF FramesPromised!Next
<1>5. ASSUME NEW c \in Conn, ServerReadsResize(c) PROVE Goal
  <2> DEFINE s == Head(req[c]).size
             f == SizeFrame(s)
  <2>1. UNCHANGED <<got, wire, batch, wpc>> /\ srv[c] = "serve"
    BY <1>5 DEF ServerReadsResize, writerVars
  <2>2. CASE RingResizes(ring, s)
    <3>1. Publish(f) /\ srv' = [srv EXCEPT ![c] = "ioctl"]
      BY <1>5, <2>2 DEF ServerReadsResize
    <3>2. s \in Size
      <4>1. Head(req[c]) \in Request /\ Head(req[c]).kind = "RESIZE"
        BY <1>5, HeadTailProperties DEF ServerReadsResize, StreamInv, TypeInv, TypeOK
      <4> QED
        BY <4>1 DEF Request
    <3>3. f \in PaneFrame
      BY <3>2, EmptySeq DEF SizeFrame, PaneFrame, Frame
    <3> HIDE DEF f, s
    <3>4. \A d \in Conn : Receiving(d)' = Receiving(d)
      BY <1>0, <2>1, <3>1 DEF Receiving
    <3> QED
      BY <2>1, <3>1, <3>3, <3>4, PublishEmits
  <2>3. CASE ~RingResizes(ring, s)
    <3>1. UNCHANGED <<sub, srv, historyVars>>
      BY <1>5, <2>3 DEF ServerReadsResize, historyVars
    <3>2. \A d \in Conn : Receiving(d)' = Receiving(d)
      BY <2>1, <3>1 DEF Receiving
    <3> QED
      BY <2>1, <3>1, <3>2, UnseenOrReleased
  <2> QED
    BY <2>2, <2>3
<1>6. ASSUME NEW c \in Conn, ServerSpawnsWriter(c) PROVE Goal
  <2>1. /\ UNCHANGED <<sub, got, historyVars>> /\ srv[c] = "spawn"
        /\ srv' = [srv EXCEPT ![c] = "serve"] /\ wpc' = [wpc EXCEPT ![c] = "recv"]
    BY <1>6 DEF ServerSpawnsWriter, paneVars, clientVars
  <2>2. wpc[c] = "none"
    BY <2>1 DEF StreamInv, ThreadControl
  <2> QED
    BY <1>0, <2>1, <2>2, OwnStepUnseen DEF Receiving
<1>7. ASSUME NEW c \in Conn,
             \/ ServerReadsInput(c) \/ ServerWritesInput(c) \/ ServerResizesPty(c)
             \/ ServerReadsDetach(c) \/ ServerReadsKill(c) \/ ServerKills(c)
             \/ ServerReadsEof(c) \/ ServerDetaches(c) \/ ServerShutsDown(c)
             \/ ServerJoinsWriter(c)
      PROVE  Goal
  <2>1. /\ UNCHANGED <<got, historyVars, wpc>> /\ srv[c] \notin {"idle", "attach"}
        /\ \E next : srv' = [srv EXCEPT ![c] = next]
    BY <1>7, Zenon DEF ServerReadsInput, ServerWritesInput, ServerResizesPty,
                ServerReadsDetach, ServerReadsKill, ServerKills, ServerReadsEof,
                ServerDetaches, ServerShutsDown, ServerJoinsWriter, writerVars,
                clientVars, historyVars
  <2>2. sub' \in {sub, NoConn}
    BY <1>7, Zenon DEF ServerReadsInput, ServerWritesInput, ServerResizesPty,
                ServerReadsDetach, ServerReadsKill, ServerKills, ServerReadsEof,
                ServerDetaches, ServerShutsDown, ServerJoinsWriter, paneVars
  <2>3. \A d \in Conn : d # c => srv'[d] = srv[d]
    BY <1>0, <2>1
  <2> QED
    BY <2>1, <2>2, <2>3, OwnStepUnseen DEF Receiving
<1>8. ASSUME NEW c \in Conn,
             \/ WriterReceives(c) \/ WriterBatches(c) \/ WriterStopsBatching(c)
             \/ WriterWrites(c) \/ WriterFails(c) \/ WriterEnds(c)
             \/ ServerCannotSpawn(c)
      PROVE  Goal
  <2>1. /\ UNCHANGED <<sub, got, historyVars>>
        /\ \E next \in {"recv", "fill", "write", "done"} :
               wpc' = wpc \/ wpc' = [wpc EXCEPT ![c] = next]
        /\ wpc[c] # "done" \/ wpc'[c] = "done"
    BY <1>0, <1>8 DEF WriterReceives, WriterBatches, WriterStopsBatching, WriterWrites,
                WriterFails, WriterEnds, ServerCannotSpawn, paneVars, clientVars,
                historyVars
  <2>2. UNCHANGED srv \/ (srv[c] = "spawn" /\ srv' = [srv EXCEPT ![c] = "done"])
    BY <1>8 DEF WriterReceives, WriterBatches, WriterStopsBatching, WriterWrites,
                WriterFails, WriterEnds, ServerCannotSpawn, serverVars
  <2>3. \A d \in Conn : d # c => srv'[d] = srv[d] /\ wpc'[d] = wpc[d]
    BY <1>0, <2>1, <2>2
  <2>4. Receiving(c)' => Receiving(c)
    BY <1>0, <2>1, <2>2 DEF Receiving
  <2> QED
    BY <2>1, <2>3, <2>4, OwnStepUnseen
<1>9. ASSUME NEW c \in Conn, ClientConnects(c) \/ ClientSends(c) \/ ClientCloses(c)
      PROVE  Goal
  <2>1. /\ UNCHANGED <<sub, got, historyVars, wpc>>
        /\ UNCHANGED srv \/ srv' = [srv EXCEPT ![c] = "attach"]
    BY <1>9, Zenon DEF ClientConnects, ClientSends, ClientCloses, paneVars, serverVars,
                writerVars, historyVars
  <2>2. \A d \in Conn : d # c => srv'[d] = srv[d]
    BY <1>0, <2>1
  <2>3. Receiving(c)' => Receiving(c)
    BY <1>0, <2>1 DEF Receiving
  <2> QED
    BY <2>1, <2>2, <2>3, OwnStepUnseen
<1>10. ASSUME NEW c \in Conn, ClientReads(c) PROVE Goal
  <2>1. /\ wire[c] # <<>> /\ got' = [got EXCEPT ![c] = Append(@, Head(wire[c]))]
        /\ UNCHANGED <<sub, srv, wpc, historyVars>>
    BY <1>10 DEF ClientReads, paneVars, serverVars, writerVars, historyVars
  <2>2. UNCHANGED live /\ \A d \in Conn : Flow(d)' = Flow(d)
    BY <2>1, NothingPromised
  <2>3. Served' = Served
    BY <2>1 DEF Served, Receiving
  <2>4. /\ Len(got[c]) < Len(Flow(c))
        /\ Append(got[c], Head(wire[c])) = SubSeq(Flow(c), 1, Len(got[c]) + 1)
    <3>1. /\ got[c] \in Seq(PaneFrame) /\ wire[c] \in Seq(PaneFrame)
          /\ batch[c] \in Seq(PaneFrame) /\ chan[c] \in Seq(PaneFrame)
      BY FlowType DEF StreamInv
    <3> QED
      BY <2>1, <3>1, NextOfConcat DEF Flow
  <2>5. [d \in Conn |-> Flow(d)]' = [d \in Conn |-> Flow(d)]
    BY <2>2
  <2>6. FramesPromised!Receive(c)
    BY <1>0, <2>1, <2>2, <2>3, <2>4, <2>5 DEF FramesPromised!Receive
  <2> QED
    BY <2>6 DEF FramesPromised!Next
<1> QED
  BY <1>1, <1>2, <1>3, <1>4, <1>5, <1>6, <1>7, <1>8, <1>9, <1>10
     DEF Next, Reader, Server, Writer, Client

(* The threads of a pane with their locks, channels and sockets implement  *)
(* FrameStream: to a viewer, attach is one point in the sequence of what   *)
(* is published, and what it receives is a prefix of its opening and of    *)
(* everything from that point on, until it is released.                    *)
THEOREM ImplementsFrameStream == Spec => FramesPromised!Spec
<1>1. Init => FramesPromised!Init
  <2> SUFFICES ASSUME Init PROVE FramesPromised!Init
    OBVIOUS
  <2>1. Served = NoConn /\ live = <<>> /\ got = [c \in Conn |-> <<>>]
    BY DEF Init, Served
  <2>2. \A c \in Conn : Flow(c) = <<>>
    BY ConcatEmptySeq DEF Init, Flow
  <2> QED
    BY <2>1, <2>2 DEF FramesPromised!Init
<1>2. StreamInv /\ StreamInv' /\ [Next]_vars => [FramesPromised!Next]_FramesPromised!frameVars
  BY FrameStep
<1> QED
  BY <1>1, <1>2, StreamInvariant, PTL DEF Spec, FramesPromised!Spec

-----------------------------------------------------------------------------
(* The epoch fence.                                                        *)
(*                                                                         *)
(* No two connections ever hold the same epoch, and none holds one that    *)
(* was not given out: so only the newest one passes detach's comparison.   *)

Leaving(c) == srv[c] \in {"shutdown", "join", "done"}

EpochsApart ==
    /\ \A c \in Conn : Attached(c) => myEpoch[c] <= epoch
    /\ \A c, d \in Conn :
           Attached(c) /\ Attached(d) /\ myEpoch[c] = myEpoch[d] => c = d

FenceInv == StreamInv /\ EpochsApart /\ NewestStaysSubscribed

(* A step that gives out no epoch and unsubscribes nobody who still        *)
(* receives.                                                               *)
LEMMA FenceKept ==
    ASSUME EpochsApart, NewestStaysSubscribed, UNCHANGED <<epoch, myEpoch>>,
           \A d \in Conn :
              \/ srv'[d] = srv[d]
              \/ srv'[d] = "attach"
              \/ Attached(d) /\ ~Leaving(d) /\ srv'[d] # "idle"
              \/ Attached(d) /\ Leaving(d)',
           \A d \in Conn : wpc'[d] = wpc[d] \/ wpc'[d] = "done" \/ wpc[d] # "done",
           \A d \in Conn : sub = d /\ Receiving(d) /\ Receiving(d)' => sub' = d
    PROVE  EpochsApart' /\ NewestStaysSubscribed'
<1>1. \A d \in Conn : Attached(d)' => Attached(d)
  BY DEF Attached, Leaving
<1>2. EpochsApart'
  BY <1>1 DEF EpochsApart
<1>3. ASSUME NEW c \in Conn, Receiving(c)', ~Leaving(c)', myEpoch'[c] = epoch'
      PROVE  sub' = c
  <2>1. Receiving(c) /\ ~Leaving(c)
    BY <1>3, <1>1 DEF Receiving, Leaving, Attached
  <2>2. sub = c
    BY <1>3, <2>1 DEF NewestStaysSubscribed, Leaving
  <2> QED
    BY <1>3, <2>1, <2>2
<1> QED
  BY <1>2, <1>3 DEF NewestStaysSubscribed, Leaving

(* Publish only unsubscribes a connection that receives no more.           *)
LEMMA PublishFence ==
    ASSUME EpochsApart, NewestStaysSubscribed, NEW f, Publish(f),
           UNCHANGED <<epoch, myEpoch, wpc>>,
           \A d \in Conn :
              \/ srv'[d] = srv[d]
              \/ Attached(d) /\ ~Leaving(d) /\ srv'[d] # "idle"
    PROVE  EpochsApart' /\ NewestStaysSubscribed'
<1>1. \A d \in Conn : sub = d /\ Receiving(d) /\ Receiving(d)' => sub' = d
  BY PaneAssumption DEF Publish
<1> QED
  BY <1>1, FenceKept

(* No connection has attached yet. *)
LEMMA FenceInit ==
    ASSUME Init
    PROVE  EpochsApart /\ NewestStaysSubscribed
BY DEF Init, EpochsApart, NewestStaysSubscribed, Attached, Receiving

(* Every step keeps the fence. *)
LEMMA FenceStep ==
    ASSUME FenceInv, [Next]_vars
    PROVE  EpochsApart' /\ NewestStaysSubscribed'
<1>0. EpochsApart /\ NewestStaysSubscribed
  BY DEF FenceInv
<1>1. CASE ChildHides \/ ChildExits \/ KillArrives \/ KillerKills
  <2>1. UNCHANGED <<sub, epoch, myEpoch, srv, wpc>>
    BY <1>1 DEF ChildHides, ChildExits, KillArrives, KillerKills, paneVars,
                serverVars, writerVars
  <2> QED
    BY <1>0, <2>1, FenceKept
<1>2. CASE ReaderReads \/ ReaderEof \/ ReaderReaps \/ ReaderExits
  <2>1. UNCHANGED <<sub, epoch, myEpoch, srv, wpc>>
    BY <1>2 DEF ReaderReads, ReaderEof, ReaderReaps, ReaderExits, paneVars,
                serverVars, writerVars
  <2> QED
    BY <1>0, <2>1, FenceKept
<1>3. CASE ReaderPublishes
  <2>1. UNCHANGED <<epoch, myEpoch, srv, wpc>>
    BY <1>3 DEF ReaderPublishes, serverVars, writerVars
  <2>2. PICK f : Publish(f)
    BY <1>3 DEF ReaderPublishes
  <2> QED
    BY <1>0, <2>1, <2>2, PublishFence
<1>4. ASSUME NEW c \in Conn, ServerAttaches(c)
      PROVE  EpochsApart' /\ NewestStaysSubscribed'
  <2>1. /\ epoch' = epoch + 1 /\ sub' = c /\ srv[c] = "attach"
        /\ myEpoch' = [myEpoch EXCEPT ![c] = epoch + 1]
        /\ srv' = [srv EXCEPT ![c] = "spawn"] /\ wpc' = wpc
    BY <1>4 DEF ServerAttaches, writerVars
  <2>2. /\ epoch \in Nat
        /\ \A d \in Conn : myEpoch[d] \in Nat
        /\ \A d \in Conn : myEpoch'[d] = IF d = c THEN epoch + 1 ELSE myEpoch[d]
        /\ \A d \in Conn : srv'[d] = IF d = c THEN "spawn" ELSE srv[d]
    BY <2>1 DEF FenceInv, StreamInv, TypeInv, TypeOK
  <2>3. \A d \in Conn : Attached(d) => myEpoch[d] <= epoch /\ myEpoch[d] # epoch + 1
    BY <1>0, <2>2 DEF EpochsApart
  <2>4. EpochsApart'
    BY <1>0, <2>1, <2>2, <2>3 DEF EpochsApart, Attached
  <2>5. NewestStaysSubscribed'
    BY <2>1, <2>2, <2>3 DEF NewestStaysSubscribed, Attached, Receiving
  <2> QED
    BY <2>4, <2>5
<1>5. ASSUME NEW c \in Conn, ServerDetaches(c)
      PROVE  EpochsApart' /\ NewestStaysSubscribed'
  <2>1. /\ srv[c] = "detach" /\ srv' = [srv EXCEPT ![c] = "shutdown"]
        /\ sub' = IF epoch = myEpoch[c] THEN NoConn ELSE sub
        /\ UNCHANGED <<epoch, myEpoch, wpc>>
    BY <1>5 DEF ServerDetaches, writerVars
  <2>2. \A d \in Conn : srv'[d] = IF d = c THEN "shutdown" ELSE srv[d]
    BY <2>1 DEF FenceInv, StreamInv, TypeInv, TypeOK
  <2>3. EpochsApart'
    BY <1>0, <2>1, <2>2 DEF EpochsApart, Attached
  <2>4. NewestStaysSubscribed'
    BY <1>0, <2>1, <2>2 DEF EpochsApart, NewestStaysSubscribed, Attached, Receiving
  <2> QED
    BY <2>3, <2>4
<1>6. ASSUME NEW c \in Conn, ServerReadsResize(c)
      PROVE  EpochsApart' /\ NewestStaysSubscribed'
  <2>1. /\ srv[c] = "serve" /\ UNCHANGED <<epoch, myEpoch, wpc>>
        /\ srv' \in {srv, [srv EXCEPT ![c] = "ioctl"]}
        /\ sub' = sub \/ \E f : Publish(f)
    BY <1>6 DEF ServerReadsResize, writerVars
  <2>2. \A d \in Conn : srv'[d] = srv[d] \/ (Attached(d) /\ ~Leaving(d) /\ srv'[d] # "idle")
    BY <2>1 DEF FenceInv, StreamInv, TypeInv, TypeOK, Attached, Leaving
  <2> QED
    BY <1>0, <2>1, <2>2, FenceKept, PublishFence
<1>7. ASSUME NEW c \in Conn,
             \/ ServerSpawnsWriter(c) \/ ServerCannotSpawn(c)
             \/ ServerReadsInput(c) \/ ServerWritesInput(c)
             \/ ServerResizesPty(c) \/ ServerReadsDetach(c)
             \/ ServerReadsKill(c) \/ ServerKills(c) \/ ServerReadsEof(c)
             \/ ServerShutsDown(c) \/ ServerJoinsWriter(c)
      PROVE  EpochsApart' /\ NewestStaysSubscribed'
  <2>1. UNCHANGED <<epoch, myEpoch, sub>>
    BY <1>7, Zenon
       DEF ServerSpawnsWriter, ServerCannotSpawn, ServerReadsInput,
           ServerWritesInput, ServerResizesPty, ServerReadsDetach,
           ServerReadsKill, ServerKills, ServerReadsEof, ServerShutsDown,
           ServerJoinsWriter, paneVars
  <2>2. \/ /\ srv[c] \in {"spawn", "serve", "write", "ioctl", "kill"}
           /\ \E s \in {"serve", "write", "detach", "kill", "done"} :
                  srv' = [srv EXCEPT ![c] = s]
        \/ /\ srv[c] \in {"shutdown", "join"}
           /\ \E s \in {"join", "done"} : srv' = [srv EXCEPT ![c] = s]
    BY <1>7, Zenon
       DEF ServerSpawnsWriter, ServerCannotSpawn, ServerReadsInput,
           ServerWritesInput, ServerResizesPty, ServerReadsDetach,
           ServerReadsKill, ServerKills, ServerReadsEof, ServerShutsDown,
           ServerJoinsWriter
  <2>3. /\ wpc' \in {wpc, [wpc EXCEPT ![c] = "done"], [wpc EXCEPT ![c] = "recv"]}
        /\ wpc' = wpc \/ srv[c] = "spawn"
    BY <1>7, Zenon
       DEF ServerSpawnsWriter, ServerCannotSpawn, ServerReadsInput,
           ServerWritesInput, ServerResizesPty, ServerReadsDetach,
           ServerReadsKill, ServerKills, ServerReadsEof, ServerShutsDown,
           ServerJoinsWriter, writerVars
  <2>4. \A d \in Conn : wpc'[d] = wpc[d] \/ wpc'[d] = "done" \/ wpc[d] # "done"
    BY <2>3 DEF FenceInv, StreamInv, ThreadControl, TypeInv, TypeOK
  <2>5. \A d \in Conn :
              \/ srv'[d] = srv[d]
              \/ Attached(d) /\ ~Leaving(d) /\ srv'[d] # "idle"
              \/ Attached(d) /\ Leaving(d)'
    BY <2>2 DEF FenceInv, StreamInv, TypeInv, TypeOK, Attached, Leaving
  <2> QED
    BY <1>0, <2>1, <2>4, <2>5, FenceKept
<1>8. ASSUME NEW c \in Conn, Writer(c)
      PROVE  EpochsApart' /\ NewestStaysSubscribed'
  <2>1. UNCHANGED <<epoch, myEpoch, sub, srv>>
    BY <1>8, Zenon
       DEF Writer, WriterReceives, WriterBatches, WriterStopsBatching,
           WriterWrites, WriterFails, WriterEnds, paneVars, serverVars
  <2>2. wpc[c] # "done" /\ \A d \in Conn : d # c => wpc'[d] = wpc[d]
    BY <1>8 DEF Writer, WriterReceives, WriterBatches, WriterStopsBatching,
                WriterWrites, WriterFails, WriterEnds,
                FenceInv, StreamInv, TypeInv, TypeOK
  <2> QED
    BY <1>0, <2>1, <2>2, FenceKept
<1>9. ASSUME NEW c \in Conn, ClientConnects(c)
      PROVE  EpochsApart' /\ NewestStaysSubscribed'
  <2>1. UNCHANGED <<epoch, myEpoch, sub, wpc>> /\ srv' = [srv EXCEPT ![c] = "attach"]
    BY <1>9 DEF ClientConnects, paneVars, writerVars
  <2>2. \A d \in Conn : srv'[d] = srv[d] \/ srv'[d] = "attach"
    BY <2>1 DEF FenceInv, StreamInv, TypeInv, TypeOK
  <2> QED
    BY <1>0, <2>1, <2>2, FenceKept
<1>10. ASSUME NEW c \in Conn, ClientSends(c) \/ ClientReads(c) \/ ClientCloses(c)
       PROVE  EpochsApart' /\ NewestStaysSubscribed'
  <2>1. UNCHANGED <<sub, epoch, myEpoch, srv, wpc>>
    BY <1>10, Zenon DEF ClientSends, ClientReads, ClientCloses, paneVars,
                 serverVars, writerVars
  <2> QED
    BY <1>0, <2>1, FenceKept
<1>11. CASE UNCHANGED vars
  BY <1>0, <1>11, FenceKept DEF vars
<1> QED
  BY <1>1, <1>2, <1>3, <1>4, <1>5, <1>6, <1>7, <1>8, <1>9, <1>10, <1>11
     DEF Next, Reader, Server, Client

(* detach(epoch): the connection that attached last stays subscribed until *)
(* it detaches itself or receives no more, whatever superseded ones do.    *)
THEOREM FenceHolds == Spec => []NewestStaysSubscribed
<1>1. Init => FenceInv
  BY StreamInit, FenceInit DEF FenceInv
<1>2. FenceInv /\ [Next]_vars => FenceInv'
  <2> SUFFICES ASSUME FenceInv, [Next]_vars PROVE FenceInv'
    OBVIOUS
  <2>1. TypeInv /\ StreamInv
    BY DEF FenceInv, StreamInv
  <2>2. TypeInv'
    BY <2>1, TypeStep
  <2>3. StreamIntact' /\ Shares' /\ ThreadControl'
    BY <2>1, StreamStep
  <2> QED
    BY <2>2, <2>3, FenceStep DEF FenceInv, StreamInv
<1>3. FenceInv => NewestStaysSubscribed
  BY DEF FenceInv
<1> QED
  BY <1>1, <1>2, <1>3, PTL DEF Spec

-----------------------------------------------------------------------------
(* What a writer thread may hold.                                          *)
(*                                                                         *)
(* Every frame on its way is at most as long as the ring is large: the     *)
(* ring's byte count bounds a SNAPSHOT, and everything else carries at     *)
(* most one byte.  A writer that fills or writes a batch has one.          *)

WithinRing(s) == \A i \in 1 .. Len(s) : Len(s[i].bytes) <= RingCap

BatchInHand == \A c \in Conn : wpc[c] \in {"fill", "write"} => batch[c] # <<>>

FramesWithinRing == \A c \in Conn : WithinRing(chan[c]) /\ WithinRing(batch[c])

BatchInv ==
    /\ RingWithinCap(ring)
    /\ OnlyOutputMerges
    /\ BatchInHand
    /\ FramesWithinRing

(* A queue stays within the bound when a short frame is appended, ...      *)
LEMMA AppendWithinRing ==
    ASSUME NEW s \in Seq(PaneFrame), WithinRing(s),
           NEW f \in PaneFrame, Len(f.bytes) <= RingCap
    PROVE  WithinRing(Append(s, f))
<1>1. /\ Len(Append(s, f)) = Len(s) + 1 /\ Len(s) \in Nat
      /\ \A i \in 1 .. Len(s) : Append(s, f)[i] = s[i]
      /\ Append(s, f)[Len(s) + 1] = f
  BY AppendProperties
<1> SUFFICES ASSUME NEW i \in 1 .. Len(s) + 1
             PROVE  Len(Append(s, f)[i].bytes) <= RingCap
  BY <1>1 DEF WithinRing
<1>2. CASE i = Len(s) + 1
  BY <1>1, <1>2
<1>3. CASE i # Len(s) + 1
  <2>1. i \in 1 .. Len(s)
    BY <1>1, <1>3
  <2> QED
    BY <1>1, <2>1 DEF WithinRing
<1> QED
  BY <1>2, <1>3

(* ... when its head is taken, which is within the bound itself, ...       *)
LEMMA TailWithinRing ==
    ASSUME NEW s \in Seq(PaneFrame), s # <<>>, WithinRing(s)
    PROVE  /\ WithinRing(Tail(s)) /\ WithinRing(<<Head(s)>>)
           /\ Head(s) \in PaneFrame /\ Len(Head(s).bytes) <= RingCap
<1>1. /\ Len(s) \in Nat /\ 1 \in 1 .. Len(s) /\ Head(s) = s[1]
      /\ Tail(s) \in Seq(PaneFrame) /\ Len(Tail(s)) = Len(s) - 1
      /\ \A i \in 1 .. Len(s) - 1 : Tail(s)[i] = s[i + 1]
      /\ Head(s) \in PaneFrame
  BY HeadTailProperties
<1>2. Len(Head(s).bytes) <= RingCap
  BY <1>1 DEF WithinRing
<1>3. ASSUME NEW i \in 1 .. Len(Tail(s))
      PROVE  Len(Tail(s)[i].bytes) <= RingCap
  <2>1. i + 1 \in 1 .. Len(s) /\ i \in 1 .. Len(s) - 1
    BY <1>1
  <2> QED
    BY <1>1, <2>1 DEF WithinRing
<1>4. WithinRing(Tail(s))
  BY <1>3 DEF WithinRing
<1>5. /\ Len(<<Head(s)>>) = 1
      /\ \A i \in 1 .. 1 : <<Head(s)>>[i] = Head(s)
  OBVIOUS
<1>6. WithinRing(<<Head(s)>>)
  BY <1>2, <1>5 DEF WithinRing
<1> QED
  BY <1>1, <1>2, <1>4, <1>6

(* ... and when two queues are joined.                                     *)
LEMMA ConcatWithinRing ==
    ASSUME NEW s \in Seq(PaneFrame), WithinRing(s),
           NEW t \in Seq(PaneFrame), WithinRing(t)
    PROVE  WithinRing(s \o t)
<1>1. /\ Len(s) \in Nat /\ Len(t) \in Nat /\ Len(s \o t) = Len(s) + Len(t)
      /\ \A i \in 1 .. Len(s) + Len(t) :
             (s \o t)[i] = IF i <= Len(s) THEN s[i] ELSE t[i - Len(s)]
  BY ConcatProperties
<1> SUFFICES ASSUME NEW i \in 1 .. Len(s) + Len(t)
             PROVE  Len((s \o t)[i].bytes) <= RingCap
  BY <1>1 DEF WithinRing
<1>2. CASE i <= Len(s)
  <2>1. i \in 1 .. Len(s) /\ (s \o t)[i] = s[i]
    BY <1>1, <1>2
  <2> QED
    BY <2>1 DEF WithinRing
<1>3. CASE ~(i <= Len(s))
  <2>1. i - Len(s) \in 1 .. Len(t) /\ (s \o t)[i] = t[i - Len(s)]
    BY <1>1, <1>3
  <2> QED
    BY <2>1 DEF WithinRing
<1> QED
  BY <1>2, <1>3

(* A step that moves no frame and no byte, and starts no batch.            *)
LEMMA BatchKept ==
    ASSUME BatchInv, UNCHANGED <<ring, chan, batch>>,
           \A d \in Conn :
              \/ wpc'[d] = wpc[d]
              \/ wpc'[d] \notin {"fill", "write"}
              \/ wpc[d] = "fill"
    PROVE  BatchInv'
BY DEF BatchInv, OnlyOutputMerges, BatchInHand, FramesWithinRing, WithinRing,
       RingWithinCap

(* A step of the reader or a server thread that publishes a short frame.   *)
LEMMA PublishWithinRing ==
    ASSUME TypeInv, BatchInv, NEW f \in PaneFrame, Len(f.bytes) <= RingCap,
           \A d \in Conn : chan'[d] = chan[d] \/ chan'[d] = Append(chan[d], f),
           UNCHANGED <<batch, wpc>>, RingWithinCap(ring')
    PROVE  BatchInv'
<1>1. ASSUME NEW d \in Conn PROVE WithinRing(chan'[d])
  <2>1. chan[d] \in Seq(PaneFrame) /\ WithinRing(chan[d])
    BY DEF TypeInv, TypeOK, BatchInv, FramesWithinRing
  <2> QED
    BY <2>1, AppendWithinRing
<1>2. \A d \in Conn : WithinRing(batch'[d])
  BY DEF BatchInv, FramesWithinRing
<1>3. FramesWithinRing'
  BY <1>1, <1>2 DEF FramesWithinRing, WithinRing
<1>4. OnlyOutputMerges' /\ BatchInHand'
  BY DEF BatchInv, OnlyOutputMerges, BatchInHand
<1> QED
  BY <1>3, <1>4 DEF BatchInv, RingWithinCap

(* Nothing has been sent yet. *)
LEMMA BatchInit ==
    ASSUME Init
    PROVE  BatchInv
<1>1. RingWithinCap(ring)
  BY RingNewWithinCap, PaneAssumption DEF Init
<1>2. Len(<<>>) = 0 /\ 1 .. 0 = {}
  OBVIOUS
<1> QED
  BY <1>1, <1>2 DEF Init, BatchInv, OnlyOutputMerges, BatchInHand,
                    FramesWithinRing, WithinRing

(* What attach puts into the channel: replay, paste mode and ATTACHED.     *)
LEMMA OpeningWithinRing ==
    ASSUME TypeInv, BatchInv
    PROVE  LET replay == IF Replay THEN RingReplay(ring) ELSE <<>>
               mode == IF paste THEN <<BytesFrame("OUTPUT", <<PasteOnByte>>)>>
                                ELSE <<>>
           IN  WithinRing(replay \o mode \o <<Marker("ATTACHED")>>)
<1> DEFINE replay == IF Replay THEN RingReplay(ring) ELSE <<>>
           mode == IF paste THEN <<BytesFrame("OUTPUT", <<PasteOnByte>>)>>
                            ELSE <<>>
           last == <<Marker("ATTACHED")>>
<1>0. Len(<<>>) = 0 /\ 1 .. 0 = {} /\ 1 .. 1 = {1}
  OBVIOUS
<1>1. replay \in Seq(PaneFrame) /\ WithinRing(replay)
  <2>1. CASE Replay
    <3>1. RingReplay(ring) \in Seq(PaneFrame)
      BY RingReplayType DEF PaneFrame, TypeInv
    <3>2. \A k \in 1 .. Len(RingReplay(ring)) : Len(RingReplay(ring)[k].bytes) <= RingCap
      BY RingReplayWithinCap DEF TypeInv, BatchInv
    <3> QED
      BY <2>1, <3>1, <3>2 DEF WithinRing
  <2>2. CASE ~Replay
    BY <1>0, <2>2, EmptySeq DEF WithinRing
  <2> QED
    BY <2>1, <2>2
<1>2. mode \in Seq(PaneFrame) /\ WithinRing(mode)
  <2>1. CASE paste
    <3> DEFINE f == BytesFrame("OUTPUT", <<PasteOnByte>>)
    <3>1. PasteOnByte \in Byte
      BY TailSizeType DEF PasteOnByte, Byte
    <3>2. f \in PaneFrame
      BY <3>1 DEF BytesFrame, PaneFrame, Frame
    <3>3. f.bytes = <<PasteOnByte>> /\ Len(<<PasteOnByte>>) = 1
      BY DEF BytesFrame
    <3> HIDE DEF f
    <3>4. <<f>> \in Seq(PaneFrame) /\ Len(<<f>>) = 1 /\ <<f>>[1] = f
      BY <3>2
    <3>5. 1 <= RingCap
      BY RingAssumption
    <3>6. WithinRing(<<f>>)
      BY <1>0, <3>3, <3>4, <3>5 DEF WithinRing
    <3> QED
      BY <2>1, <3>4, <3>6 DEF f
  <2>2. CASE ~paste
    BY <1>0, <2>2, EmptySeq DEF WithinRing
  <2> QED
    BY <2>1, <2>2
<1>3. last \in Seq(PaneFrame) /\ WithinRing(last)
  <2> DEFINE f == Marker("ATTACHED")
  <2>1. f \in PaneFrame
    BY EmptySeq DEF Marker, PaneFrame, Frame
  <2>2. f.bytes = <<>>
    BY DEF Marker
  <2> HIDE DEF f
  <2>3. <<f>> \in Seq(PaneFrame) /\ Len(<<f>>) = 1 /\ <<f>>[1] = f
    BY <2>1
  <2>4. 0 <= RingCap
    BY RingAssumption
  <2>5. WithinRing(<<f>>)
    BY <1>0, <2>2, <2>3, <2>4 DEF WithinRing
  <2> QED
    BY <2>3, <2>5 DEF f
<1> HIDE DEF replay, mode, last
<1>4. replay \o mode \in Seq(PaneFrame) /\ WithinRing(replay \o mode)
  BY <1>1, <1>2, ConcatWithinRing, FramesConcat
<1>5. WithinRing((replay \o mode) \o last)
  BY <1>3, <1>4, ConcatWithinRing
<1> QED
  BY <1>5 DEF replay, mode, last

(* Every step keeps batches and frames in bounds. *)
LEMMA BatchStep ==
    ASSUME TypeInv, BatchInv, [Next]_vars
    PROVE  BatchInv'
<1>0. RingOK(ring, Byte) /\ RingWithinCap(ring)
  BY DEF TypeInv, BatchInv
<1>1. CASE ChildHides \/ ChildExits \/ KillArrives \/ KillerKills
  <2>1. UNCHANGED <<ring, chan, batch, wpc>>
    BY <1>1 DEF ChildHides, ChildExits, KillArrives, KillerKills, paneVars,
                writerVars
  <2> QED
    BY <2>1, BatchKept
<1>2. CASE ReaderReads \/ ReaderEof \/ ReaderReaps
  <2>1. UNCHANGED <<ring, chan, batch, wpc>>
    BY <1>2 DEF ReaderReads, ReaderEof, ReaderReaps, paneVars, writerVars
  <2> QED
    BY <2>1, BatchKept
<1>3. CASE ReaderPublishes
  <2> DEFINE byte == [src |-> "out", id |-> chunk.id, text |-> chunk.text,
                      geo |-> TailSize]
             f == BytesFrame("OUTPUT", <<byte>>)
  <2>1. byte \in Byte
    BY TailSizeType DEF TypeInv, TypeOK, Byte, Chunk
  <2>2. f \in PaneFrame
    BY <2>1 DEF BytesFrame, PaneFrame, Frame
  <2>3. Len(f.bytes) <= RingCap
    BY RingAssumption DEF BytesFrame
  <2>4. Publish(f) /\ UNCHANGED <<batch, wpc>>
    BY <1>3 DEF ReaderPublishes, writerVars
  <2>5. RingWithinCap(ring')
    <3>1. ring' = RingPush(ring, byte) \/ ring' = ring
      BY <1>3 DEF ReaderPublishes
    <3> HIDE DEF byte
    <3> QED
      BY <1>0, <2>1, <3>1, RingPushWithinCap
  <2> HIDE DEF f
  <2>6. \A d \in Conn : chan'[d] = chan[d] \/ chan'[d] = Append(chan[d], f)
    BY <2>4, SMTT(30) DEF Publish, TypeInv, TypeOK
  <2> QED
    BY <2>2, <2>3, <2>4, <2>5, <2>6, PublishWithinRing
<1>4. CASE ReaderExits
  <2> DEFINE f == Marker("EXITED")
  <2>1. f \in PaneFrame
    BY EmptySeq DEF Marker, PaneFrame, Frame
  <2>2. Len(f.bytes) <= RingCap
    BY RingAssumption DEF Marker
  <2>3. UNCHANGED <<ring, batch, wpc>> /\ chan' \in {chan, [chan EXCEPT ![sub] = Append(@, f)]}
    BY <1>4 DEF ReaderExits, writerVars
  <2> HIDE DEF f
  <2>4. \A d \in Conn : chan'[d] = chan[d] \/ chan'[d] = Append(chan[d], f)
    BY <2>3 DEF TypeInv, TypeOK
  <2> QED
    BY <1>0, <2>1, <2>2, <2>3, <2>4, PublishWithinRing
<1>5. ASSUME NEW c \in Conn, ServerAttaches(c) PROVE BatchInv'
  <2> DEFINE opening == (IF Replay THEN RingReplay(ring) ELSE <<>>)
                        \o (IF paste THEN <<BytesFrame("OUTPUT", <<PasteOnByte>>)>>
                                     ELSE <<>>)
                        \o <<Marker("ATTACHED")>>
  <2>1. /\ chan' = [chan EXCEPT ![c] = opening]
        /\ UNCHANGED <<ring, batch, wpc>>
    BY <1>5 DEF ServerAttaches, writerVars
  <2>2. WithinRing(opening)
    BY OpeningWithinRing
  <2> HIDE DEF opening
  <2>3. \A d \in Conn : chan'[d] = IF d = c THEN opening ELSE chan[d]
    BY <2>1 DEF TypeInv, TypeOK
  <2>4. FramesWithinRing'
    <3>1. ASSUME NEW d \in Conn PROVE WithinRing(chan'[d]) /\ WithinRing(batch'[d])
      BY <2>1, <2>2, <2>3 DEF BatchInv, FramesWithinRing
    <3> QED
      BY <3>1 DEF FramesWithinRing, WithinRing
  <2>5. RingWithinCap(ring') /\ OnlyOutputMerges' /\ BatchInHand'
    BY <2>1 DEF BatchInv, OnlyOutputMerges, BatchInHand
  <2> QED
    BY <2>4, <2>5 DEF BatchInv, RingWithinCap
<1>6. ASSUME NEW c \in Conn, ServerReadsInput(c) PROVE BatchInv'
  <2>1. Head(req[c]) \in Request
    BY <1>6, HeadTailProperties DEF TypeInv, TypeOK, ServerReadsInput
  <2> DEFINE byte == [src |-> "in", id |-> Head(req[c]).id, text |-> "plain",
                      geo |-> TailSize]
  <2>2. byte \in Byte
    BY <1>6, <2>1, TailSizeType DEF Byte, Request, ServerReadsInput
  <2>3. (ring' = RingPush(ring, byte) \/ ring' = ring) /\ UNCHANGED <<chan, batch, wpc>>
    BY <1>6 DEF ServerReadsInput, writerVars
  <2> HIDE DEF byte
  <2>4. RingWithinCap(ring')
    BY <1>0, <2>2, <2>3, RingPushWithinCap
  <2>5. OnlyOutputMerges' /\ BatchInHand' /\ FramesWithinRing'
    BY <2>3 DEF BatchInv, OnlyOutputMerges, BatchInHand, FramesWithinRing, WithinRing
  <2> QED
    BY <2>4, <2>5 DEF BatchInv, RingWithinCap
<1>7. ASSUME NEW c \in Conn, ServerReadsResize(c) PROVE BatchInv'
  <2>1. Head(req[c]) \in Request
    BY <1>7, HeadTailProperties DEF TypeInv, TypeOK, ServerReadsResize
  <2> DEFINE s == Head(req[c]).size
             f == SizeFrame(s)
  <2>2. s \in Size
    BY <1>7, <2>1 DEF ServerReadsResize, Request
  <2>3. f \in PaneFrame
    BY <2>2, EmptySeq DEF SizeFrame, PaneFrame, Frame
  <2>4. Len(f.bytes) <= RingCap
    BY RingAssumption DEF SizeFrame
  <2>5. /\ ring' = RingResize(ring, s) /\ UNCHANGED <<batch, wpc>>
        /\ chan' = chan \/ Publish(f)
    BY <1>7 DEF ServerReadsResize, writerVars
  <2> HIDE DEF s, f
  <2>6. RingWithinCap(ring')
    BY <1>0, <2>2, <2>5, RingResizeWithinCap
  <2>7. chan' = chan \/ chan' = [chan EXCEPT ![sub] = Append(@, f)]
    BY <2>5 DEF Publish
  <2>8. \A d \in Conn : chan'[d] = chan[d] \/ chan'[d] = Append(chan[d], f)
    <3>1. chan \in [Conn -> Seq(PaneFrame)]
      BY DEF TypeInv, TypeOK
    <3> QED
      BY <2>7, <3>1
  <2> QED
    BY <2>3, <2>4, <2>5, <2>6, <2>8, PublishWithinRing
<1>8. ASSUME NEW c \in Conn,
             \/ ServerSpawnsWriter(c) \/ ServerCannotSpawn(c)
             \/ ServerWritesInput(c) \/ ServerResizesPty(c)
             \/ ServerReadsDetach(c) \/ ServerReadsKill(c) \/ ServerKills(c)
             \/ ServerReadsEof(c) \/ ServerDetaches(c)
             \/ ServerShutsDown(c) \/ ServerJoinsWriter(c)
      PROVE  BatchInv'
  <2>1. UNCHANGED <<ring, chan, batch>>
    BY <1>8, Zenon
       DEF ServerSpawnsWriter, ServerCannotSpawn, ServerWritesInput,
           ServerResizesPty, ServerReadsDetach, ServerReadsKill, ServerKills,
           ServerReadsEof, ServerDetaches, ServerShutsDown, ServerJoinsWriter,
           paneVars, writerVars
  <2>2. wpc' \in {wpc, [wpc EXCEPT ![c] = "done"], [wpc EXCEPT ![c] = "recv"]}
    BY <1>8, Zenon
       DEF ServerSpawnsWriter, ServerCannotSpawn, ServerWritesInput,
           ServerResizesPty, ServerReadsDetach, ServerReadsKill, ServerKills,
           ServerReadsEof, ServerDetaches, ServerShutsDown, ServerJoinsWriter,
           writerVars
  <2>3. \A d \in Conn : wpc'[d] = wpc[d] \/ wpc'[d] \notin {"fill", "write"}
    BY <2>2 DEF TypeInv, TypeOK
  <2> QED
    BY <2>1, <2>3, BatchKept
<1>9. ASSUME NEW c \in Conn, WriterReceives(c) PROVE BatchInv'
  <2>1. /\ chan[c] # <<>> /\ UNCHANGED ring
        /\ batch' = [batch EXCEPT ![c] = <<Head(chan[c])>>]
        /\ chan' = [chan EXCEPT ![c] = Tail(@)]
        /\ wpc' = [wpc EXCEPT ![c] = "fill"]
    BY <1>9 DEF WriterReceives, paneVars
  <2>2. /\ \A d \in Conn : batch'[d] = IF d = c THEN <<Head(chan[c])>> ELSE batch[d]
        /\ \A d \in Conn : chan'[d] = IF d = c THEN Tail(chan[c]) ELSE chan[d]
        /\ \A d \in Conn : wpc'[d] = IF d = c THEN "fill" ELSE wpc[d]
    BY <2>1 DEF TypeInv, TypeOK
  <2>3. WithinRing(Tail(chan[c])) /\ WithinRing(<<Head(chan[c])>>)
    BY <2>1, TailWithinRing DEF TypeInv, TypeOK, BatchInv, FramesWithinRing
  <2>4. Len(<<Head(chan[c])>>) = 1 /\ <<Head(chan[c])>> # <<>>
    OBVIOUS
  <2>5. FramesWithinRing'
    BY <2>2, <2>3 DEF BatchInv, FramesWithinRing, WithinRing
  <2>6. OnlyOutputMerges'
    <3>1. \A d \in Conn : batch'[d] = batch[d] \/ Len(batch'[d]) = 1
      BY <2>2, <2>4
    <3> SUFFICES ASSUME NEW d \in Conn, Len(batch'[d]) > 1
                 PROVE  \A i \in 1 .. Len(batch'[d]) : batch'[d][i].kind = "OUTPUT"
      BY Zenon DEF OnlyOutputMerges
    <3>2. ~(1 > 1)
      OBVIOUS
    <3>3. batch'[d] = batch[d]
      BY <3>1, <3>2, Zenon
    <3> QED
      BY <3>3, Zenon DEF BatchInv, OnlyOutputMerges
  <2>7. BatchInHand'
    BY <2>2, <2>4 DEF BatchInv, BatchInHand
  <2> QED
    BY <2>1, <2>5, <2>6, <2>7 DEF BatchInv, RingWithinCap
<1>10. ASSUME NEW c \in Conn, WriterBatches(c) PROVE BatchInv'
  <2> DEFINE f == Head(chan[c])
             more == Append(batch[c], f)
  <2>1. /\ wpc[c] = "fill" /\ chan[c] # <<>> /\ UNCHANGED <<ring, wpc>>
        /\ Head(batch[c]).kind = "OUTPUT" /\ f.kind = "OUTPUT"
        /\ batch' = [batch EXCEPT ![c] = Append(@, f)]
        /\ chan' = [chan EXCEPT ![c] = Tail(@)]
    BY <1>10 DEF WriterBatches, NextMerges, paneVars
  <2>2. /\ \A d \in Conn : batch'[d] = IF d = c THEN more ELSE batch[d]
        /\ \A d \in Conn : chan'[d] = IF d = c THEN Tail(chan[c]) ELSE chan[d]
        /\ chan[c] \in Seq(PaneFrame) /\ batch[c] \in Seq(PaneFrame)
    BY <2>1 DEF TypeInv, TypeOK
  <2>3. /\ WithinRing(Tail(chan[c]))
        /\ f \in PaneFrame /\ Len(f.bytes) <= RingCap
    BY <2>1, <2>2, TailWithinRing DEF BatchInv, FramesWithinRing
  <2> HIDE DEF f
  <2>4. WithinRing(more)
    BY <2>2, <2>3, AppendWithinRing DEF BatchInv, FramesWithinRing
  <2>5. /\ Len(more) = Len(batch[c]) + 1 /\ Len(batch[c]) \in Nat \ {0}
        /\ \A i \in 1 .. Len(batch[c]) : more[i] = batch[c][i]
        /\ more[Len(batch[c]) + 1] = f /\ more # <<>>
        /\ batch[c][1] = Head(batch[c])
    <3>1. batch[c] # <<>>
      BY <2>1 DEF BatchInv, BatchInHand
    <3> QED
      BY <2>2, <2>3, <3>1, AppendProperties, HeadTailProperties
  <2> HIDE DEF more
  <2>6. \A i \in 1 .. Len(more) : more[i].kind = "OUTPUT"
    <3> SUFFICES ASSUME NEW i \in 1 .. Len(batch[c]) + 1
                 PROVE  more[i].kind = "OUTPUT"
      BY <2>5
    <3>1. CASE i = Len(batch[c]) + 1
      BY <2>1, <2>5, <3>1
    <3>2. CASE i # Len(batch[c]) + 1 /\ Len(batch[c]) = 1
      BY <2>1, <2>5, <3>2
    <3>3. CASE i # Len(batch[c]) + 1 /\ Len(batch[c]) # 1
      <4>0. \A m \in Nat \ {0} : \A j \in 1 .. m + 1 :
                j # m + 1 /\ m # 1 => m > 1 /\ j \in 1 .. m
        OBVIOUS
      <4>1. Len(batch[c]) > 1 /\ i \in 1 .. Len(batch[c])
        BY <2>5, <3>3, <4>0
      <4> QED
        BY <2>5, <4>1 DEF BatchInv, OnlyOutputMerges
    <3> QED
      BY <3>1, <3>2, <3>3
  <2>7. FramesWithinRing'
    BY <2>2, <2>3, <2>4 DEF BatchInv, FramesWithinRing, WithinRing
  <2>8. OnlyOutputMerges'
    BY <2>2, <2>6 DEF BatchInv, OnlyOutputMerges
  <2>9. BatchInHand'
    BY <2>1, <2>2, <2>5 DEF BatchInv, BatchInHand
  <2> QED
    BY <2>1, <2>7, <2>8, <2>9 DEF BatchInv, RingWithinCap
<1>11. ASSUME NEW c \in Conn, WriterStopsBatching(c) PROVE BatchInv'
  <2>1. /\ UNCHANGED <<ring, chan, batch>> /\ wpc[c] = "fill"
        /\ wpc' = [wpc EXCEPT ![c] = "write"]
    BY <1>11 DEF WriterStopsBatching, paneVars
  <2>2. \A d \in Conn : wpc'[d] = wpc[d] \/ wpc[d] = "fill"
    BY <2>1 DEF TypeInv, TypeOK
  <2> QED
    BY <2>1, <2>2, BatchKept
<1>12. ASSUME NEW c \in Conn, WriterWrites(c) PROVE BatchInv'
  <2>1. /\ UNCHANGED <<ring, chan>>
        /\ batch' = [batch EXCEPT ![c] = <<>>]
        /\ wpc' = [wpc EXCEPT ![c] = "recv"]
    BY <1>12 DEF WriterWrites, paneVars
  <2>2. /\ \A d \in Conn : batch'[d] = IF d = c THEN <<>> ELSE batch[d]
        /\ \A d \in Conn : wpc'[d] = IF d = c THEN "recv" ELSE wpc[d]
    BY <2>1 DEF TypeInv, TypeOK
  <2>3. Len(<<>>) = 0 /\ 1 .. 0 = {}
    OBVIOUS
  <2>4. FramesWithinRing'
    BY <2>1, <2>2, <2>3 DEF BatchInv, FramesWithinRing, WithinRing
  <2>5. OnlyOutputMerges' /\ BatchInHand'
    BY <2>2, <2>3 DEF BatchInv, OnlyOutputMerges, BatchInHand
  <2> QED
    BY <2>1, <2>4, <2>5 DEF BatchInv, RingWithinCap
<1>13. ASSUME NEW c \in Conn, WriterFails(c) \/ WriterEnds(c) PROVE BatchInv'
  <2>1. /\ UNCHANGED <<ring, chan, batch>>
        /\ wpc' = [wpc EXCEPT ![c] = "done"]
    BY <1>13 DEF WriterFails, WriterEnds, paneVars
  <2>2. \A d \in Conn : wpc'[d] = wpc[d] \/ wpc'[d] \notin {"fill", "write"}
    BY <2>1 DEF TypeInv, TypeOK
  <2> QED
    BY <2>1, <2>2, BatchKept
<1>14. ASSUME NEW c \in Conn, Client(c) PROVE BatchInv'
  <2>1. UNCHANGED <<ring, chan, batch, wpc>>
    BY <1>14, Zenon DEF Client, ClientConnects, ClientSends, ClientReads,
                 ClientCloses, paneVars, writerVars
  <2> QED
    BY <2>1, BatchKept
<1>15. CASE UNCHANGED vars
  BY <1>15, BatchKept DEF vars
<1> QED
  BY <1>1, <1>2, <1>3, <1>4, <1>5, <1>6, <1>7, <1>8, <1>9, <1>10, <1>11,
     <1>12, <1>13, <1>14, <1>15
     DEF Next, Reader, Server, Writer

(* So every reachable state does. *)
LEMMA BatchInvariant == Spec => [](TypeInv /\ BatchInv)
<1>1. Init => TypeInv /\ BatchInv
  BY TypeInit, BatchInit
<1>2. (TypeInv /\ BatchInv) /\ [Next]_vars => (TypeInv /\ BatchInv)'
  BY TypeStep, BatchStep
<1> QED
  BY <1>1, <1>2, PTL DEF Spec

(* write_output merges OUTPUT frames only: no control frame ever loses its *)
(* boundary inside a batch.                                                *)
THEOREM MergesAreOutput == Spec => []OnlyOutputMerges
<1>1. BatchInv => OnlyOutputMerges
  BY DEF BatchInv
<1> QED
  BY <1>1, BatchInvariant, PTL

(* With a ring no larger than a frame (RING_CAP is 8 MiB, the app asks for *)
(* 2 or 16 MiB, MAX_FRAME is 16 MiB) write_frame refuses none of the       *)
(* daemon's frames.  SessionPane_oversize shows the premise is needed: the *)
(* daemon takes any ring_bytes a client asks for.                          *)
THEOREM FramesFit ==
    ASSUME RingCap <= MaxFrame
    PROVE  Spec => []ReplayFitsFrame
<1>1. TypeInv /\ BatchInv => ReplayFitsFrame
  <2> SUFFICES ASSUME TypeInv, BatchInv, NEW c \in Conn, wpc[c] = "write"
               PROVE  ~(Len(Head(batch[c]).bytes) > MaxFrame)
    BY Zenon DEF ReplayFitsFrame, TooLarge
  <2>1. batch[c] \in Seq(PaneFrame) /\ batch[c] # <<>>
    BY DEF TypeInv, TypeOK, BatchInv, BatchInHand
  <2>2. Head(batch[c]) \in PaneFrame /\ Len(Head(batch[c]).bytes) <= RingCap
    BY <2>1, TailWithinRing DEF BatchInv, FramesWithinRing
  <2>3. Len(Head(batch[c]).bytes) \in Nat
    BY <2>2 DEF PaneFrame, Frame
  <2> QED
    BY <2>2, <2>3, RingAssumption, PaneAssumption
<1> QED
  BY <1>1, BatchInvariant, PTL
=============================================================================
