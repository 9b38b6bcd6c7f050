-------------------------- MODULE PaneStreamProofs --------------------------
(***************************************************************************)
(* What the clients of a pane can count on, byte for byte: the theorems    *)
(* about SessionPaneProps, and the refinement of PaneStream, for every     *)
(* number of connections, every ring, every bound and every interleaving.  *)
(***************************************************************************)
EXTENDS SessionPaneProofs, SessionPaneProps

-----------------------------------------------------------------------------
(* What a step of the pane does to its stream.                             *)
(*                                                                         *)
(* Thirty-three actions, six kinds of steps: a byte is published, a        *)
(* geometry is published, the exit is published, a connection attaches, an *)
(* input is rung, or nothing of that happens (frames may move along, and a *)
(* subscriber may be released).                                            *)

FlowsKept ==
    \A d \in Conn : /\ Flow(d)' = Flow(d)
                    /\ base'[d] = base[d]
                    /\ Attached(d)' <=> Attached(d)

(* The viewer that is served is sent f, and nobody else. *)
FlowsGrow(f) ==
    /\ live' = Append(live, f)
    /\ UNCHANGED got
    /\ \A d \in Conn : /\ Flow(d)' = IF d = Served THEN Append(Flow(d), f) ELSE Flow(d)
                       /\ base'[d] = base[d]
                       /\ Attached(d)' <=> Attached(d)

(* The byte the reader gives its place in the stream. *)
OutByte == [src |-> "out", id |-> chunk.id, text |-> chunk.text, geo |-> TailSize]

BytePublished ==
    /\ rd = "have" /\ Published' = Published + 1
    /\ ring' = IF Replay THEN RingPush(ring, OutByte) ELSE ring
    /\ paste' = CASE chunk.text = "pasteOn" -> TRUE
                  [] chunk.text = "pasteOff" -> FALSE
                  [] OTHER -> paste
    /\ sub' = Served
    /\ FlowsGrow(BytesFrame("OUTPUT", <<OutByte>>))

SizePublished(s) ==
    /\ RingResizes(ring, s) /\ ring' = RingResize(ring, s)
    /\ Published' = Published /\ UNCHANGED paste
    /\ sub' = Served
    /\ FlowsGrow(SizeFrame(s))

ExitPublished ==
    /\ UNCHANGED <<ring, paste, sub>> /\ Published' = Published
    /\ FlowsGrow(Marker("EXITED"))

Opening ==
    (IF Replay THEN RingReplay(ring) ELSE <<>>)
        \o (IF paste THEN <<BytesFrame("OUTPUT", <<PasteOnByte>>)>> ELSE <<>>)
        \o <<Marker("ATTACHED")>>

Attaches(c) ==
    /\ UNCHANGED <<ring, paste, live, got>> /\ Published' = Published
    /\ sub' = c
    /\ ~Attached(c) /\ Attached(c)'
    /\ Flow(c) = <<>> /\ got[c] = <<>>
    /\ Flow(c)' = Opening /\ base'[c] = Opening
    /\ \A d \in Conn \ {c} : /\ Flow(d)' = Flow(d)
                             /\ base'[d] = base[d]
                             /\ Attached(d)' <=> Attached(d)

InByte(n) == [src |-> "in", id |-> n, text |-> "plain", geo |-> TailSize]

InputRung(n) ==
    /\ Replay /\ RingInput
    /\ ring' = RingPush(ring, InByte(n))
    /\ UNCHANGED <<paste, live, sub, got>> /\ Published' = Published
    /\ FlowsKept

(* Nobody is handed anything, or one client reads its next frame. *)
Reads(c) ==
    /\ wire[c] # <<>>
    /\ got' = [got EXCEPT ![c] = Append(@, Head(wire[c]))]

Unnoticed ==
    /\ UNCHANGED <<ring, paste, live>> /\ Published' = Published
    /\ \/ UNCHANGED got /\ sub' \in {sub, NoConn}
       \/ UNCHANGED sub /\ \E c \in Conn : Reads(c)
    /\ FlowsKept

(* By StreamIntact, a step that changes no history changes no flow. *)
LEMMA KeptFlows ==
    ASSUME StreamInv, StreamInv', UNCHANGED historyVars,
           \A d \in Conn : Attached(d)' <=> Attached(d)
    PROVE  FlowsKept /\ UNCHANGED live
<1>1. UNCHANGED live /\ \A d \in Conn : Flow(d)' = Flow(d)
  BY NothingPromised
<1> QED
  BY <1>1 DEF FlowsKept, historyVars

(* What is published grows the flow of the one who is served. *)
LEMMA GrownFlows ==
    ASSUME StreamInv, NEW f \in PaneFrame, live' = Append(live, f),
           UNCHANGED <<got, wire, batch, base>>,
           \A d \in Conn : Attached(d)' <=> Attached(d),
           \A d \in Conn : chan'[d] = IF d = Served THEN Append(chan[d], f)
                                                    ELSE chan[d]
    PROVE  FlowsGrow(f)
<1>1. ASSUME NEW d \in Conn
      PROVE  Flow(d)' = IF d = Served THEN Append(Flow(d), f) ELSE Flow(d)
  <2> DEFINE before == got[d] \o wire[d] \o batch[d]
  <2>1. before \in Seq(PaneFrame) /\ chan[d] \in Seq(PaneFrame)
    BY FlowType, ConcatProperties DEF StreamInv
  <2>2. Flow(d) = before \o chan[d] /\ Flow(d)' = before \o chan'[d]
    BY DEF Flow
  <2> HIDE DEF before
  <2>3. before \o Append(chan[d], f) = Append(before \o chan[d], f)
    BY <2>1, FramesAppend
  <2> QED
    BY <2>2, <2>3
<1> QED
  BY <1>1 DEF FlowsGrow

(* Publish sends to the one who is served, and clears a subscriber whose   *)
(* receiver is gone.                                                       *)
LEMMA PublishGrows ==
    ASSUME StreamInv, NEW f \in PaneFrame, Publish(f),
           UNCHANGED <<got, wire, batch, base>>,
           \A d \in Conn : Attached(d)' <=> Attached(d)
    PROVE  FlowsGrow(f) /\ sub' = Served
<1>1. sub \in Conn \cup {NoConn} /\ chan \in [Conn -> Seq(PaneFrame)]
  BY DEF StreamInv, TypeInv, TypeOK
<1>2. CASE sub # NoConn /\ Receiving(sub)
  <2>1. sub' = sub /\ sub \in Conn /\ chan' = [chan EXCEPT ![sub] = Append(@, f)]
        /\ live' = Append(live, f)
    BY <1>1, <1>2 DEF Publish
  <2>2. Served = sub
    BY <1>2 DEF Served
  <2>3. \A d \in Conn : chan'[d] = IF d = Served THEN Append(chan[d], f) ELSE chan[d]
    BY <1>1, <2>1, <2>2
  <2> QED
    BY <2>1, <2>2, <2>3, GrownFlows
<1>3. CASE ~(sub # NoConn /\ Receiving(sub))
  <2>1. sub' = NoConn /\ chan' = chan /\ live' = Append(live, f)
    BY <1>3 DEF Publish
  <2>2. Served = NoConn
    BY <1>3 DEF Served
  <2>3. \A d \in Conn : chan'[d] = IF d = Served THEN Append(chan[d], f) ELSE chan[d]
    BY <2>1, <2>2, PaneAssumption
  <2> QED
    BY <2>1, <2>2, <2>3, GrownFlows
<1> QED
  BY <1>2, <1>3

(* A connection that attaches had nothing, and gets the opening. *)
LEMMA AttachOpens ==
    ASSUME StreamInv, NEW c \in Conn, ServerAttaches(c)
    PROVE  Attaches(c)
<1>1. /\ srv[c] = "attach" /\ srv' = [srv EXCEPT ![c] = "spawn"]
      /\ sub' = c /\ UNCHANGED <<ring, paste, got, wire, batch, live, rd, produced>>
      /\ chan' = [chan EXCEPT ![c] = Opening] /\ base' = [base EXCEPT ![c] = Opening]
  BY DEF ServerAttaches, writerVars, clientVars, childVars, Opening
<1>2. /\ srv \in [Conn -> {"idle", "attach", "spawn", "serve", "write", "ioctl",
                           "kill", "detach", "shutdown", "join", "done"}]
      /\ chan \in [Conn -> Seq(PaneFrame)] /\ base \in [Conn -> Seq(PaneFrame)]
  BY DEF StreamInv, TypeInv, TypeOK
<1>3. /\ got[c] = <<>> /\ wire[c] = <<>> /\ chan[c] = <<>> /\ batch[c] = <<>>
  BY <1>1 DEF StreamInv, ThreadControl
<1>4. Flow(c) = <<>>
  BY <1>3, ConcatEmptySeq DEF Flow
<1>5. Flow(c)' = Opening
  <2> HIDE DEF Opening
  <2>1. Flow(c)' = <<>> \o <<>> \o <<>> \o chan'[c]
    BY <1>1, <1>3 DEF Flow
  <2>2. chan'[c] = Opening /\ chan'[c] \in Seq(PaneFrame)
    <3>1. chan'[c] = Opening
      BY <1>1, <1>2
    <3>2. StreamInv => Opening \in Seq(PaneFrame)
      <4>1. RingReplay(ring) \in Seq(PaneFrame)
        BY RingReplayType DEF StreamInv, TypeInv, PaneFrame
      <4>2. <<BytesFrame("OUTPUT", <<PasteOnByte>>)>> \in Seq(PaneFrame)
        <5>1. PasteOnByte \in Byte
          BY TailSizeType DEF StreamInv, PasteOnByte, Byte
        <5>2. <<PasteOnByte>> \in Seq(Byte)
          BY <5>1
        <5> QED
          BY <5>2 DEF BytesFrame, PaneFrame, Frame
      <4>3. <<Marker("ATTACHED")>> \in Seq(PaneFrame) /\ <<>> \in Seq(PaneFrame)
        BY EmptySeq DEF Marker, PaneFrame, Frame
      <4> DEFINE first == IF Replay THEN RingReplay(ring) ELSE <<>>
                 second == IF paste THEN <<BytesFrame("OUTPUT", <<PasteOnByte>>)>> ELSE <<>>
                 third == <<Marker("ATTACHED")>>
      <4>4. first \in Seq(PaneFrame) /\ second \in Seq(PaneFrame) /\ third \in Seq(PaneFrame)
        BY <4>1, <4>2, <4>3
      <4>5. Opening = first \o second \o third
        BY DEF Opening
      <4> HIDE DEF first, second, third
      <4> QED
        BY <4>4, <4>5, FramesConcat
    <3> QED
      BY <3>1, <3>2
  <2> QED
    BY <2>1, <2>2, ConcatEmptySeq
<1>6. \A d \in Conn \ {c} : /\ Flow(d)' = Flow(d)
                            /\ base'[d] = base[d]
                            /\ Attached(d)' <=> Attached(d)
  BY <1>1, <1>2 DEF Flow, Attached
<1>7. ~Attached(c) /\ Attached(c)'
  BY <1>1, <1>2 DEF Attached
<1>8. base'[c] = Opening
  BY <1>1, <1>2
<1>9. Published' = Published
  BY <1>1 DEF Published
<1> QED
  BY <1>1, <1>3, <1>4, <1>5, <1>6, <1>7, <1>8, <1>9 DEF Attaches

(* A step that leaves ring, paste mode, reader and history alone is not    *)
(* noticed.                                                                *)
LEMMA KeptSteps ==
    ASSUME StreamInv, StreamInv', NEW c \in Conn,
           UNCHANGED <<ring, paste, rd, produced, historyVars>>,
           \/ UNCHANGED got /\ sub' \in {sub, NoConn}
           \/ UNCHANGED sub /\ Reads(c),
           \A d \in Conn : Attached(d)' <=> Attached(d)
    PROVE  Unnoticed
<1>1. FlowsKept /\ UNCHANGED live
  BY KeptFlows
<1>2. Published' = Published
  BY DEF Published
<1> QED
  BY <1>1, <1>2 DEF Unnoticed

(* Five kinds, and the input. *)
OtherKind ==
    \/ Unnoticed
    \/ BytePublished
    \/ \E s \in Size : SizePublished(s)
    \/ ExitPublished
    \/ \E c \in Conn : Attaches(c)

StepKind == OtherKind \/ \E n \in Nat : InputRung(n)

(* A server that reads an input rings it, if the pane rings inputs. *)
LEMMA InputKind ==
    ASSUME StreamInv, StreamInv', NEW c \in Conn, ServerReadsInput(c)
    PROVE  IF RingInput /\ Replay THEN InputRung(Head(req[c]).id) ELSE Unnoticed
<1>0. srv \in [Conn -> {"idle", "attach", "spawn", "serve", "write", "ioctl",
                       "kill", "detach", "shutdown", "join", "done"}]
  BY DEF StreamInv, TypeInv, TypeOK
<1> DEFINE n == Head(req[c]).id
<1>1. /\ UNCHANGED <<paste, sub, got, rd, produced, historyVars>>
      /\ srv[c] = "serve" /\ srv' = [srv EXCEPT ![c] = "write"]
      /\ ring' = IF RingInput /\ Replay THEN RingPush(ring, InByte(n)) ELSE ring
  BY DEF ServerReadsInput, childVars, InByte
<1>2. \A d \in Conn : Attached(d)' <=> Attached(d)
  BY <1>0, <1>1 DEF Attached
<1>3. CASE RingInput /\ Replay
  <2>1. FlowsKept /\ UNCHANGED live
    BY <1>1, <1>2, KeptFlows
  <2>2. Published' = Published
    BY <1>1 DEF Published
  <2>3. InputRung(n)
    BY <1>1, <1>3, <2>1, <2>2 DEF InputRung
  <2> QED
    BY <1>3, <2>3
<1>4. CASE ~(RingInput /\ Replay)
  <2>1. UNCHANGED <<ring, paste, rd, produced, historyVars>> /\ UNCHANGED got /\ sub' \in {sub, NoConn}
    BY <1>1, <1>4
  <2>2. Unnoticed
    BY <2>1, <1>2, KeptSteps
  <2> QED
    BY <1>4, <2>2
<1> QED
  BY <1>3, <1>4

(* Every other step is of one of the other kinds. *)
LEMMA OtherKinds ==
    ASSUME StreamInv, StreamInv', [Next]_vars, rd = "have" => produced > 0,
           \A c \in Conn : ~ServerReadsInput(c)
    PROVE  OtherKind
<1> USE DEF OtherKind
<1>0. /\ srv \in [Conn -> {"idle", "attach", "spawn", "serve", "write", "ioctl",
                           "kill", "detach", "shutdown", "join", "done"}]
      /\ got \in [Conn -> Seq(PaneFrame)] /\ chan \in [Conn -> Seq(PaneFrame)]
      /\ sub \in Conn \cup {NoConn} /\ produced \in Nat
  BY DEF StreamInv, TypeInv, TypeOK
<1>1. CASE \/ ChildHides \/ ChildExits \/ KillArrives \/ KillerKills
           \/ ReaderReads \/ ReaderEof \/ ReaderReaps \/ UNCHANGED vars
  <2>1. UNCHANGED <<ring, paste, sub, srv, got, historyVars>>
    BY <1>1, Zenon DEF ChildHides, ChildExits, KillArrives, KillerKills, ReaderReads,
                ReaderEof, ReaderReaps, vars, paneVars, serverVars, clientVars, historyVars
  <2>2. Published' = Published
    <3>1. CASE ReaderReads
      BY <1>0, <3>1 DEF ReaderReads, Published
    <3>2. CASE ReaderEof \/ ReaderReaps
      BY <3>2 DEF ReaderEof, ReaderReaps, Published
    <3>3. CASE ChildHides \/ ChildExits \/ KillArrives \/ KillerKills \/ UNCHANGED vars
      <4>1. UNCHANGED <<rd, produced>>
        BY <3>3, Zenon DEF ChildHides, ChildExits, KillArrives, KillerKills, Kill, vars, childVars
      <4> QED
        BY <4>1 DEF Published
    <3> QED
      BY <1>1, <3>1, <3>2, <3>3
  <2>3. \A d \in Conn : Attached(d)' <=> Attached(d)
    BY <2>1 DEF Attached
  <2>4. FlowsKept /\ UNCHANGED live
    BY <2>1, <2>3, KeptFlows
  <2> QED
    BY <2>1, <2>2, <2>4 DEF Unnoticed
<1>2. CASE ReaderPublishes
  <2> DEFINE f == BytesFrame("OUTPUT", <<OutByte>>)
  <2>1. OutByte \in Byte
    BY TailSizeType DEF StreamInv, TypeInv, TypeOK, OutByte, Byte, Chunk
  <2>2. f \in PaneFrame
    BY <2>1 DEF BytesFrame, PaneFrame, Frame
  <2>3. Publish(f) /\ UNCHANGED <<got, wire, batch, srv, base>>
    BY <1>2 DEF ReaderPublishes, serverVars, writerVars, clientVars, OutByte
  <2>4. \A d \in Conn : Attached(d)' <=> Attached(d)
    BY <2>3 DEF Attached
  <2> HIDE DEF f
  <2>5. FlowsGrow(f) /\ sub' = Served
    BY <2>2, <2>3, <2>4, PublishGrows
  <2>6. Published' = Published + 1 /\ rd = "have"
    BY <1>0, <1>2 DEF ReaderPublishes, Published
  <2>7. /\ ring' = IF Replay THEN RingPush(ring, OutByte) ELSE ring
        /\ paste' = CASE chunk.text = "pasteOn" -> TRUE
                      [] chunk.text = "pasteOff" -> FALSE
                      [] OTHER -> paste
    BY <1>2 DEF ReaderPublishes, OutByte
  <2> QED
    BY <2>5, <2>6, <2>7 DEF BytePublished, f
<1>3. CASE ReaderExits
  <2> DEFINE f == Marker("EXITED")
  <2>1. f \in PaneFrame
    BY EmptySeq DEF Marker, PaneFrame, Frame
  <2>2. /\ UNCHANGED <<ring, paste, sub, got, wire, batch, srv, base, produced>>
        /\ live' = Append(live, f) /\ rd = "exit" /\ rd' = "done"
    BY <1>3 DEF ReaderExits, serverVars, writerVars, clientVars
  <2>3. \A d \in Conn : chan'[d] = IF d = Served THEN Append(chan[d], f) ELSE chan[d]
    <3>1. CASE sub # NoConn /\ Receiving(sub)
      <4>1. chan' = [chan EXCEPT ![sub] = Append(@, f)] /\ Served = sub
        BY <1>3, <3>1 DEF ReaderExits, Served
      <4> QED
        BY <4>1, <1>0
    <3>2. CASE ~(sub # NoConn /\ Receiving(sub))
      <4>1. chan' = chan /\ Served = NoConn
        BY <1>3, <3>2 DEF ReaderExits, Served
      <4> QED
        BY <4>1, PaneAssumption
    <3> QED
      BY <3>1, <3>2
  <2>4. \A d \in Conn : Attached(d)' <=> Attached(d)
    BY <2>2 DEF Attached
  <2> HIDE DEF f
  <2>5. FlowsGrow(f)
    BY <2>1, <2>2, <2>3, <2>4, GrownFlows
  <2>6. Published' = Published
    BY <2>2 DEF Published
  <2> QED
    BY <2>2, <2>5, <2>6 DEF ExitPublished, f
<1>4. ASSUME NEW c \in Conn, ServerAttaches(c) PROVE OtherKind
  BY <1>4, AttachOpens
<1>5. ASSUME NEW c \in Conn, ServerReadsResize(c) PROVE OtherKind
  <2> DEFINE s == Head(req[c]).size
             f == SizeFrame(s)
  <2>1. /\ UNCHANGED <<got, wire, batch, base, paste, rd, produced>> /\ srv[c] = "serve"
        /\ ring' = RingResize(ring, s)
    BY <1>5 DEF ServerReadsResize, writerVars, childVars
  <2>0. Published' = Published
    BY <2>1 DEF Published
  <2>2. CASE RingResizes(ring, s)
    <3>1. Publish(f) /\ srv' = [srv EXCEPT ![c] = "ioctl"]
      BY <1>5, <2>2 DEF ServerReadsResize
    <3>2. s \in Size
      <4>1. Head(req[c]) \in Request /\ Head(req[c]).kind = "RESIZE"
        BY <1>5, HeadTailProperties DEF ServerReadsResize, StreamInv, TypeInv, TypeOK
      <4> QED
        BY <4>1 DEF Request
    <3>3. f \in PaneFrame
      BY <3>2, EmptySeq DEF SizeFrame, PaneFrame, Frame
    <3>4. \A d \in Conn : Attached(d)' <=> Attached(d)
      BY <1>0, <2>1, <3>1 DEF Attached
    <3> HIDE DEF f
    <3>5. FlowsGrow(f) /\ sub' = Served
      BY <2>1, <3>1, <3>3, <3>4, PublishGrows
    <3>6. FlowsGrow(SizeFrame(s))
      BY <3>5 DEF f
    <3> HIDE DEF s
    <3>7. SizePublished(s)
      BY <2>0, <2>1, <2>2, <3>5, <3>6 DEF SizePublished
    <3> QED
      BY <3>2, <3>7
  <2>3. CASE ~RingResizes(ring, s)
    <3>1. UNCHANGED <<sub, srv, historyVars, ring>>
      BY <1>5, <2>1, <2>3 DEF ServerReadsResize, historyVars, RingResize
    <3>2. \A d \in Conn : Attached(d)' <=> Attached(d)
      BY <3>1 DEF Attached
    <3> QED
      BY <2>1, <3>1, <3>2, KeptSteps
  <2> QED
    BY <2>2, <2>3
<1>6. ASSUME NEW c \in Conn,
             \/ ServerWritesInput(c) \/ ServerResizesPty(c)
             \/ ServerReadsDetach(c) \/ ServerReadsKill(c) \/ ServerKills(c)
             \/ ServerReadsEof(c) \/ ServerDetaches(c) \/ ServerShutsDown(c)
             \/ ServerJoinsWriter(c) \/ ServerSpawnsWriter(c) \/ ServerCannotSpawn(c)
      PROVE  OtherKind
  <2>1. /\ UNCHANGED <<ring, paste, got, historyVars, rd, produced>>
        /\ srv[c] \notin {"idle", "attach"}
        /\ \E next \in {"spawn", "serve", "write", "ioctl", "kill", "detach",
                        "shutdown", "join", "done"} : srv' = [srv EXCEPT ![c] = next]
    BY <1>6, Zenon DEF ServerWritesInput, ServerResizesPty,
                ServerReadsDetach, ServerReadsKill, ServerKills, ServerReadsEof,
                ServerDetaches, ServerShutsDown, ServerJoinsWriter, ServerSpawnsWriter,
                ServerCannotSpawn, Kill, paneVars, childVars, clientVars, historyVars
  <2>2. sub' \in {sub, NoConn}
    BY <1>6, Zenon DEF ServerWritesInput, ServerResizesPty,
                ServerReadsDetach, ServerReadsKill, ServerKills, ServerReadsEof,
                ServerDetaches, ServerShutsDown, ServerJoinsWriter, ServerSpawnsWriter,
                ServerCannotSpawn, paneVars
  <2>3. \A d \in Conn : Attached(d)' <=> Attached(d)
    BY <1>0, <2>1 DEF Attached
  <2> QED
    BY <2>1, <2>2, <2>3, KeptSteps
<1>7. ASSUME NEW c \in Conn,
             \/ WriterReceives(c) \/ WriterBatches(c) \/ WriterStopsBatching(c)
             \/ WriterWrites(c) \/ WriterFails(c) \/ WriterEnds(c)
             \/ ClientSends(c) \/ ClientCloses(c)
      PROVE  OtherKind
  <2>1. UNCHANGED <<ring, paste, sub, got, historyVars, rd, produced, srv>>
    BY <1>7, Zenon DEF WriterReceives, WriterBatches, WriterStopsBatching, WriterWrites,
                WriterFails, WriterEnds, ClientSends, ClientCloses, paneVars, childVars,
                serverVars, clientVars, historyVars
  <2>2. \A d \in Conn : Attached(d)' <=> Attached(d)
    BY <2>1 DEF Attached
  <2> QED
    BY <2>1, <2>2, KeptSteps
<1>8. ASSUME NEW c \in Conn, ClientConnects(c) PROVE OtherKind
  <2>1. /\ UNCHANGED <<ring, paste, sub, got, historyVars, rd, produced>>
        /\ srv' = [srv EXCEPT ![c] = "attach"] /\ cli[c] = "idle"
    BY <1>8 DEF ClientConnects, paneVars, childVars
  <2>2. srv[c] = "idle"
    BY <2>1 DEF StreamInv, ThreadControl
  <2>3. \A d \in Conn : Attached(d)' <=> Attached(d)
    BY <1>0, <2>1, <2>2 DEF Attached
  <2> QED
    BY <2>1, <2>3, KeptSteps
<1>9. ASSUME NEW c \in Conn, ClientReads(c) PROVE OtherKind
  <2>1. UNCHANGED <<ring, paste, sub, srv, historyVars, rd, produced>> /\ Reads(c)
    BY <1>9 DEF ClientReads, Reads, paneVars, childVars, serverVars, historyVars
  <2>2. \A d \in Conn : Attached(d)' <=> Attached(d)
    BY <2>1 DEF Attached
  <2> QED
    BY <2>1, <2>2, KeptSteps
<1> QED
  BY <1>1, <1>2, <1>3, <1>4, <1>5, <1>6, <1>7, <1>8, <1>9
     DEF Next, Reader, Server, Writer, Client

(* Every step is of one of these kinds. *)
LEMMA StepKinds ==
    ASSUME StreamInv, StreamInv', [Next]_vars, rd = "have" => produced > 0
    PROVE  StepKind
<1>1. ASSUME NEW c \in Conn, ServerReadsInput(c) PROVE StepKind
  <2>1. CASE RingInput /\ Replay
    <3>1. InputRung(Head(req[c]).id)
      BY <1>1, <2>1, InputKind
    <3>2. Head(req[c]) \in Request
      BY <1>1, HeadTailProperties DEF ServerReadsInput, StreamInv, TypeInv, TypeOK
    <3>3. Head(req[c]).id \in Nat
      BY <3>2 DEF Request
    <3> QED
      BY <3>1, <3>3 DEF StepKind
  <2>2. CASE ~(RingInput /\ Replay)
    BY <1>1, <2>2, InputKind DEF StepKind, OtherKind
  <2> QED
    BY <2>1, <2>2
<1>2. CASE \A c \in Conn : ~ServerReadsInput(c)
  BY <1>2, OtherKinds DEF StepKind
<1> QED
  BY <1>1, <1>2

-----------------------------------------------------------------------------
(* Counting the terminal's bytes out of a stream.                          *)

NumbersIn(bytes) ==
    [i \in 1 .. Len(bytes) |-> IF FromTerminal(bytes[i]) THEN << bytes[i].id >> ELSE <<>>]

(* Bytes are numbered. *)
LEMMA ByteNumber == \A b \in Byte : b.id \in Nat
BY DEF Byte

(* One sequence of at most one number for each byte. *)
LEMMA NumbersInType ==
    ASSUME NEW bytes \in Seq(Byte)
    PROVE  /\ NumbersIn(bytes) \in Seq(Seq(Nat)) /\ Len(NumbersIn(bytes)) = Len(bytes)
           /\ OutputNumbers[bytes] = FlattenSeq(NumbersIn(bytes))
           /\ OutputNumbers[bytes] \in Seq(Nat)
<1>0. \A i \in 1 .. Len(bytes) : bytes[i] \in Byte
  OBVIOUS
<1>1. \A i \in 1 .. Len(bytes) : bytes[i].id \in Nat
  BY <1>0, ByteNumber
<1>2. NumbersIn(bytes) \in Seq(Seq(Nat)) /\ Len(NumbersIn(bytes)) = Len(bytes)
  BY <1>1 DEF NumbersIn
<1>3. OutputNumbers[bytes] = FlattenSeq(NumbersIn(bytes))
  BY DEF OutputNumbers, NumbersIn
<1> QED
  BY <1>2, <1>3, FlattenType

(* No bytes, no numbers. *)
LEMMA NumbersEmpty == OutputNumbers[<<>>] = <<>>
<1>1. <<>> \in Seq(Byte) /\ Len(<<>>) = 0
  BY EmptySeq
<1>2. NumbersIn(<<>>) \in Seq(Seq(Nat)) /\ Len(NumbersIn(<<>>)) = 0
  BY <1>1, NumbersInType
<1>3. NumbersIn(<<>>) = <<>>
  BY <1>2, EmptySeq
<1> QED
  BY <1>1, <1>3, NumbersInType, FlattenEmpty

(* Two stretches of bytes, one behind the other. *)
LEMMA BytesConcat ==
    ASSUME NEW p \in Seq(Byte), NEW q \in Seq(Byte)
    PROVE  /\ p \o q \in Seq(Byte) /\ Len(p \o q) = Len(p) + Len(q)
           /\ \A i \in 1 .. Len(p) + Len(q) :
                 (p \o q)[i] = IF i <= Len(p) THEN p[i] ELSE q[i - Len(p)]
<1> HIDE DEF Byte
<1> QED
  BY ConcatProperties

(* The same for their numbers. *)
LEMMA NumberListsConcat ==
    ASSUME NEW a \in Seq(Seq(Nat)), NEW b \in Seq(Seq(Nat))
    PROVE  /\ a \o b \in Seq(Seq(Nat)) /\ Len(a \o b) = Len(a) + Len(b)
           /\ \A i \in 1 .. Len(a) + Len(b) :
                 (a \o b)[i] = IF i <= Len(a) THEN a[i] ELSE b[i - Len(a)]
<1> DEFINE S == Seq(Nat)
<1> HIDE DEF S
<1>1. a \in Seq(S) /\ b \in Seq(S)
  BY DEF S
<1>2. /\ a \o b \in Seq(S) /\ Len(a \o b) = Len(a) + Len(b)
      /\ \A i \in 1 .. Len(a) + Len(b) :
            (a \o b)[i] = IF i <= Len(a) THEN a[i] ELSE b[i - Len(a)]
  BY <1>1, ConcatProperties
<1> QED
  BY <1>2 DEF S

(* The numbers of one stretch behind another. *)
LEMMA NumbersConcat ==
    ASSUME NEW p \in Seq(Byte), NEW q \in Seq(Byte)
    PROVE  OutputNumbers[p \o q] = OutputNumbers[p] \o OutputNumbers[q]
<1>1. /\ p \o q \in Seq(Byte) /\ Len(p \o q) = Len(p) + Len(q)
      /\ \A i \in 1 .. Len(p) + Len(q) :
            (p \o q)[i] = IF i <= Len(p) THEN p[i] ELSE q[i - Len(p)]
  BY BytesConcat
<1> DEFINE a == NumbersIn(p)
           b == NumbersIn(q)
           ab == NumbersIn(p \o q)
<1>2. /\ a \in Seq(Seq(Nat)) /\ b \in Seq(Seq(Nat)) /\ ab \in Seq(Seq(Nat))
      /\ Len(a) = Len(p) /\ Len(b) = Len(q) /\ Len(ab) = Len(p) + Len(q)
  BY <1>1, NumbersInType
<1>3. /\ a \o b \in Seq(Seq(Nat)) /\ Len(a \o b) = Len(p) + Len(q)
      /\ \A i \in 1 .. Len(p) + Len(q) :
            (a \o b)[i] = IF i <= Len(p) THEN a[i] ELSE b[i - Len(p)]
  <2> HIDE DEF a, b
  <2> QED
    BY <1>2, NumberListsConcat
<1>4. \A i \in 1 .. Len(ab) : ab[i] = (a \o b)[i]
  <2> SUFFICES ASSUME NEW i \in 1 .. Len(p) + Len(q)
               PROVE  ab[i] = (a \o b)[i]
    BY <1>2
  <2>1. CASE i <= Len(p)
    <3>1. (p \o q)[i] = p[i] /\ (a \o b)[i] = a[i] /\ i \in 1 .. Len(p)
      BY <1>1, <1>3, <2>1
    <3>2. ab[i] = IF FromTerminal((p \o q)[i]) THEN << (p \o q)[i].id >> ELSE <<>>
      BY <1>1 DEF NumbersIn
    <3>3. a[i] = IF FromTerminal(p[i]) THEN << p[i].id >> ELSE <<>>
      BY <3>1 DEF NumbersIn
    <3> QED
      BY <3>1, <3>2, <3>3
  <2>2. CASE ~(i <= Len(p))
    <3>1. (p \o q)[i] = q[i - Len(p)] /\ (a \o b)[i] = b[i - Len(p)] /\ i - Len(p) \in 1 .. Len(q)
      BY <1>1, <1>3, <2>2
    <3>2. ab[i] = IF FromTerminal((p \o q)[i]) THEN << (p \o q)[i].id >> ELSE <<>>
      BY <1>1 DEF NumbersIn
    <3>3. b[i - Len(p)] = IF FromTerminal(q[i - Len(p)]) THEN << q[i - Len(p)].id >> ELSE <<>>
      BY <3>1 DEF NumbersIn
    <3> QED
      BY <3>1, <3>2, <3>3
  <2> QED
    BY <2>1, <2>2
<1> DEFINE joined == a \o b
<1>5. Len(ab) = Len(joined) /\ joined \in Seq(Seq(Nat)) /\ \A i \in 1 .. Len(ab) : ab[i] = joined[i]
  BY <1>2, <1>3, <1>4
<1>6. FlattenSeq(joined) = FlattenSeq(a) \o FlattenSeq(b)
  BY <1>2, FlattenConcat
<1>7. /\ OutputNumbers[p \o q] = FlattenSeq(ab)
      /\ OutputNumbers[p] = FlattenSeq(a) /\ OutputNumbers[q] = FlattenSeq(b)
  BY <1>1, NumbersInType
<1> HIDE DEF a, b, ab, joined
<1>8. ab = joined
  BY <1>2, <1>5, SeqEqual
<1> QED
  BY <1>6, <1>7, <1>8

(* One byte has its number, or none. *)
LEMMA NumbersOne ==
    ASSUME NEW b \in Byte
    PROVE  OutputNumbers[<< b >>] = IF FromTerminal(b) THEN << b.id >> ELSE <<>>
<1>1. << b >> \in Seq(Byte) /\ Len(<< b >>) = 1 /\ << b >>[1] = b /\ b.id \in Nat
  BY DEF Byte
<1> DEFINE x == IF FromTerminal(b) THEN << b.id >> ELSE <<>>
<1>2. x \in Seq(Nat)
  BY <1>1
<1>3. NumbersIn(<< b >>) = << x >>
  BY <1>1 DEF NumbersIn
<1>4. OutputNumbers[<< b >>] = FlattenSeq(NumbersIn(<< b >>))
  BY <1>1, NumbersInType
<1> HIDE DEF x
<1>5. FlattenSeq(<< x >>) = x
  BY <1>2, FlattenOne
<1> QED
  BY <1>3, <1>4, <1>5 DEF x

(* A further byte. *)
LEMMA NumbersAppend ==
    ASSUME NEW bytes \in Seq(Byte), NEW b \in Byte
    PROVE  OutputNumbers[Append(bytes, b)] =
               IF FromTerminal(b) THEN Append(OutputNumbers[bytes], b.id)
                                  ELSE OutputNumbers[bytes]
<1>1. Append(bytes, b) = bytes \o << b >> /\ << b >> \in Seq(Byte) /\ b.id \in Nat
  BY AppendIsConcat DEF Byte
<1>2. OutputNumbers[Append(bytes, b)] = OutputNumbers[bytes] \o OutputNumbers[<< b >>]
  BY <1>1, NumbersConcat
<1>3. OutputNumbers[bytes] \in Seq(Nat)
  BY NumbersInType
<1>4. OutputNumbers[<< b >>] = IF FromTerminal(b) THEN << b.id >> ELSE <<>>
  BY NumbersOne
<1>5. \A s \in Seq(Nat) : s \o << b.id >> = Append(s, b.id) /\ s \o <<>> = s
  BY <1>1, AppendIsConcat, ConcatEmptySeq
<1> QED
  BY <1>2, <1>3, <1>4, <1>5

(* The oldest byte gone. *)
LEMMA NumbersTail ==
    ASSUME NEW bytes \in Seq(Byte), bytes # <<>>
    PROVE  /\ FromTerminal(Head(bytes)) =>
                 /\ OutputNumbers[bytes] # <<>>
                 /\ OutputNumbers[Tail(bytes)] = Tail(OutputNumbers[bytes])
           /\ ~FromTerminal(Head(bytes)) =>
                 OutputNumbers[Tail(bytes)] = OutputNumbers[bytes]
<1> DEFINE h == Head(bytes)
           t == Tail(bytes)
           n == OutputNumbers[t]
<1>1. h \in Byte /\ t \in Seq(Byte) /\ << h >> \in Seq(Byte)
  BY HeadTailProperties
<1>2. << h >> \o t = bytes
  BY HeadThenTail
<1>3. n \in Seq(Nat) /\ h.id \in Nat
  BY <1>1, NumbersInType DEF Byte
<1> HIDE DEF h, t, n
<1>4. OutputNumbers[bytes] = OutputNumbers[<< h >>] \o OutputNumbers[t]
  BY <1>1, <1>2, NumbersConcat
<1>5. OutputNumbers[<< h >>] = IF FromTerminal(h) THEN << h.id >> ELSE <<>>
  BY <1>1, NumbersOne
<1>6. <<>> \o n = n
  BY <1>3, ConcatEmptySeq
<1>7. << h.id >> \o n # <<>> /\ Tail(<< h.id >> \o n) = n
  BY <1>3
<1>8. ASSUME FromTerminal(h)
      PROVE  OutputNumbers[bytes] # <<>> /\ OutputNumbers[t] = Tail(OutputNumbers[bytes])
  BY <1>4, <1>5, <1>7, <1>8 DEF n
<1>9. ASSUME ~FromTerminal(h) PROVE OutputNumbers[t] = OutputNumbers[bytes]
  BY <1>4, <1>5, <1>6, <1>9 DEF n
<1> QED
  BY <1>8, <1>9 DEF h, t

(* There are no more numbers than bytes, and as many if all are the        *)
(* terminal's.                                                             *)
LEMMA NumbersCount ==
    \A bytes \in Seq(Byte) :
        /\ Len(OutputNumbers[bytes]) <= Len(bytes)
        /\ (\A i \in 1 .. Len(bytes) : FromTerminal(bytes[i]))
              => Len(OutputNumbers[bytes]) = Len(bytes)
<1> DEFINE Good(s) == /\ Len(OutputNumbers[s]) <= Len(s)
                      /\ (\A i \in 1 .. Len(s) : FromTerminal(s[i]))
                            => Len(OutputNumbers[s]) = Len(s)
           U == {s \in Seq(Byte) : Good(s)}
<1>1. <<>> \in U
  BY NumbersEmpty, EmptySeq
<1>2. ASSUME NEW s \in Seq(Byte), NEW e \in Byte, s \in U
      PROVE  Append(s, e) \in U
  <2> DEFINE n == OutputNumbers[s]
             a == Append(s, e)
  <2>1. n \in Seq(Nat) /\ e.id \in Nat /\ Len(n) \in Nat /\ Len(s) \in Nat
    <3>1. n \in Seq(Nat) /\ e.id \in Nat
      BY NumbersInType, ByteNumber
    <3> HIDE DEF n
    <3> QED
      BY <3>1
  <2>2. /\ a \in Seq(Byte) /\ Len(a) = Len(s) + 1
        /\ \A i \in 1 .. Len(s) : a[i] = s[i]
        /\ a[Len(s) + 1] = e
    BY AppendProperties
  <2>3. OutputNumbers[a] = IF FromTerminal(e) THEN Append(n, e.id) ELSE n
    BY NumbersAppend
  <2>4. Len(n) <= Len(s)
        /\ ((\A i \in 1 .. Len(s) : FromTerminal(s[i])) => Len(n) = Len(s))
    BY <1>2
  <2> HIDE DEF n, a
  <2>5. Len(Append(n, e.id)) = Len(n) + 1
    BY <2>1
  <2>6. Len(OutputNumbers[a]) <= Len(a)
    BY <2>1, <2>2, <2>3, <2>4, <2>5
  <2>7. ASSUME \A i \in 1 .. Len(a) : FromTerminal(a[i])
        PROVE  Len(OutputNumbers[a]) = Len(a)
    <3>1. FromTerminal(e)
      BY <2>1, <2>2, <2>7
    <3>2. \A i \in 1 .. Len(s) : FromTerminal(s[i])
      BY <2>1, <2>2, <2>7
    <3> QED
      BY <2>1, <2>2, <2>3, <2>4, <2>5, <3>1, <3>2
  <2> QED
    BY <2>2, <2>6, <2>7 DEF a
<1> HIDE DEF U
<1>3. Seq(Byte) \subseteq U
  BY <1>1, <1>2, SequencesBySet
<1> QED
  BY <1>3 DEF U

(* The bytes of frames are bytes. *)
LEMMA BytesOfType ==
    ASSUME NEW frames \in Seq(PaneFrame)
    PROVE  /\ BytesOf(frames) = FlattenSeq(BytesIn(frames))
           /\ BytesIn(frames) \in Seq(Seq(Byte))
           /\ BytesOf(frames) \in Seq(Byte)
<1>1. Carries(PaneFrame, Byte)
  BY Carriers DEF PaneFrame
<1>2. BytesIn(frames) \in Seq(Seq(Byte))
  BY <1>1, BytesInType
<1>3. BytesOf(frames) = FlattenSeq(BytesIn(frames))
  BY DEF BytesOf, BytesIn
<1> QED
  BY <1>2, <1>3, FlattenType

(* A further frame brings its bytes. *)
LEMMA BytesOfAppend ==
    ASSUME NEW frames \in Seq(PaneFrame), NEW f \in PaneFrame
    PROVE  BytesOf(Append(frames, f)) = BytesOf(frames) \o f.bytes
<1>1. Carries(PaneFrame, Byte) /\ f.bytes \in Seq(Byte)
  BY Carriers DEF PaneFrame, Frame
<1>2. BytesIn(Append(frames, f)) = Append(BytesIn(frames), f.bytes)
  BY <1>1, BytesInAppend
<1>3. /\ BytesOf(frames) = FlattenSeq(BytesIn(frames))
      /\ BytesIn(frames) \in Seq(Seq(Byte)) /\ BytesOf(frames) \in Seq(Byte)
  BY BytesOfType
<1>4. Append(frames, f) \in Seq(PaneFrame)
  BY AppendProperties
<1>5. BytesOf(Append(frames, f)) = FlattenSeq(BytesIn(Append(frames, f)))
  BY <1>4, BytesOfType
<1>6. FlattenSeq(Append(BytesIn(frames), f.bytes)) = FlattenSeq(BytesIn(frames)) \o f.bytes
  BY <1>1, <1>3, FlattenAppend
<1> QED
  BY <1>2, <1>3, <1>5, <1>6

(* No frames, no bytes. *)
LEMMA BytesOfNone == BytesOf(<<>>) = <<>>
<1>1. <<>> \in Seq(PaneFrame) /\ Len(<<>>) = 0
  BY EmptySeq
<1>2. BytesIn(<<>>) = <<>>
  BY <1>1 DEF BytesIn
<1> QED
  BY <1>1, <1>2, BytesOfType, FlattenEmpty

(* The frames of a replay carry the ring's bytes, each once, in order:     *)
(* nothing between them, and nothing missing where the last SNAPSHOT is.   *)
LEMMA ReplayBytes ==
    ASSUME NEW r, RingOK(r, Byte)
    PROVE  BytesOf(RingReplay(r)) = RingBytes(r)
<1> DEFINE segs == r.segments
           n == Len(segs)
           ss == BytesIn(segs)
           replay == RingReplay(r)
           tt == BytesIn(replay)
<1>1. segs \in Seq(Segment(Byte)) /\ n \in Nat \ {0}
  BY EmptySeq DEF RingOK, Ring
<1>2. /\ ss \in Seq(Seq(Byte)) /\ Len(ss) = n
      /\ \A i \in 1 .. n : ss[i] = segs[i].bytes
  BY <1>1, Carriers, BytesInType
<1>3. replay \in Seq(PaneFrame)
  BY RingReplayType DEF PaneFrame
<1>4. /\ BytesOf(replay) = FlattenSeq(tt) /\ tt \in Seq(Seq(Byte))
  BY <1>3, BytesOfType
<1>5. Len(tt) = Len(replay) /\ \A i \in 1 .. Len(replay) : tt[i] = replay[i].bytes
  BY <1>3 DEF BytesIn
<1>6. /\ Len(replay) = IF segs[n].bytes = <<>> THEN 2 * n - 1 ELSE 2 * n
      /\ \A i \in 1 .. Len(replay) :
            replay[i].bytes = IF i % 2 = 1 THEN <<>> ELSE segs[i \div 2].bytes
  <2> DEFINE frames == IF Newest(r).bytes = <<>> THEN 2 * Len(segs) - 1 ELSE 2 * Len(segs)
  <2>1. frames \in Nat /\ frames = IF segs[n].bytes = <<>> THEN 2 * n - 1 ELSE 2 * n
    BY <1>1 DEF Newest
  <2>2. replay = [i \in 1 .. frames |->
                    IF i % 2 = 1 THEN SizeFrame(segs[(i + 1) \div 2].size)
                                 ELSE BytesFrame("SNAPSHOT", segs[i \div 2].bytes)]
    BY DEF RingReplay
  <2> HIDE DEF frames
  <2>3. Len(replay) = frames
    BY <2>1, <2>2
  <2>4. \A i \in 1 .. frames :
            replay[i].bytes = IF i % 2 = 1 THEN <<>> ELSE segs[i \div 2].bytes
    BY <2>2 DEF SizeFrame, BytesFrame
  <2> QED
    BY <2>1, <2>3, <2>4
<1>7. RingBytes(r) = FlattenSeq(ss)
  BY DEF RingBytes
<1> HIDE DEF ss, tt, replay, n
<1>8. \A k \in 1 .. n : /\ 2 * k - 1 <= 2 * n - 1 /\ (2 * k - 1) % 2 = 1
                        /\ (2 * k) % 2 = 0 /\ (2 * k) \div 2 = k
                        /\ 2 * k - 1 \in Nat \ {0} /\ 2 * k \in Nat \ {0}
                        /\ (k # n => 2 * k <= 2 * n - 1) /\ 2 * k <= 2 * n
  BY <1>1
<1>9. ASSUME segs[n].bytes # <<>> PROVE FlattenSeq(tt) = FlattenSeq(ss)
  <2>1. Len(tt) = 2 * n
    BY <1>5, <1>6, <1>9
  <2>2. \A k \in 1 .. n : tt[2 * k - 1] = <<>> /\ tt[2 * k] = ss[k]
    <3> SUFFICES ASSUME NEW k \in 1 .. n PROVE tt[2 * k - 1] = <<>> /\ tt[2 * k] = ss[k]
      OBVIOUS
    <3>1. 2 * k - 1 \in 1 .. Len(replay) /\ 2 * k \in 1 .. Len(replay)
      BY <1>1, <1>5, <1>8, <2>1
    <3>2. tt[2 * k - 1] = replay[2 * k - 1].bytes /\ tt[2 * k] = replay[2 * k].bytes
      BY <1>5, <3>1
    <3>3. replay[2 * k - 1].bytes = <<>> /\ replay[2 * k].bytes = segs[k].bytes
      BY <1>6, <1>8, <3>1
    <3> QED
      BY <1>2, <3>2, <3>3
  <2>3. Spaced(ss, tt)
    BY <1>2, <2>1, <2>2 DEF Spaced
  <2> QED
    BY <1>2, <1>4, <2>3, FlattenSpaced
<1>10. ASSUME segs[n].bytes = <<>> PROVE FlattenSeq(tt) = FlattenSeq(ss)
  <2> DEFINE full == Append(tt, <<>>)
  <2>1. Len(tt) = 2 * n - 1
    BY <1>5, <1>6, <1>10
  <2>2. /\ full \in Seq(Seq(Byte)) /\ Len(full) = Len(tt) + 1
        /\ \A i \in 1 .. Len(tt) : full[i] = tt[i]
        /\ full[Len(tt) + 1] = <<>>
    BY <1>4, EmptySeq, AppendProperties
  <2> HIDE DEF full
  <2>3. \A k \in 1 .. n : full[2 * k - 1] = <<>> /\ full[2 * k] = ss[k]
    <3> SUFFICES ASSUME NEW k \in 1 .. n PROVE full[2 * k - 1] = <<>> /\ full[2 * k] = ss[k]
      OBVIOUS
    <3>1. 2 * k - 1 \in 1 .. Len(replay) /\ 2 * k - 1 \in 1 .. Len(tt)
      BY <1>1, <1>5, <1>8, <2>1
    <3>2. full[2 * k - 1] = <<>>
      BY <1>5, <1>6, <1>8, <2>2, <3>1
    <3>3. CASE k # n
      <4>1. 2 * k \in 1 .. Len(replay) /\ 2 * k \in 1 .. Len(tt)
        BY <1>1, <1>5, <1>8, <2>1, <3>3
      <4>2. full[2 * k] = replay[2 * k].bytes
        BY <1>5, <2>2, <4>1
      <4>3. replay[2 * k].bytes = segs[k].bytes
        BY <1>6, <1>8, <4>1
      <4> QED
        BY <1>2, <3>2, <4>2, <4>3
    <3>4. CASE k = n
      <4>1. 2 * k = Len(tt) + 1
        BY <1>1, <2>1, <3>4
      <4> QED
        BY <1>2, <1>10, <2>2, <3>2, <3>4, <4>1
    <3> QED
      BY <3>3, <3>4
  <2>4. Spaced(ss, full)
    <3>1. Len(full) = 2 * Len(ss)
      BY <1>1, <1>2, <2>1, <2>2
    <3> QED
      BY <1>2, <2>3, <3>1 DEF Spaced
  <2>5. FlattenSeq(full) = FlattenSeq(ss)
    BY <1>2, <2>2, <2>4, FlattenSpaced
  <2>6. FlattenSeq(tt) \in Seq(Byte) /\ <<>> \in Seq(Byte)
    BY <1>4, FlattenType, EmptySeq
  <2>7. FlattenSeq(full) = FlattenSeq(tt) \o <<>>
    BY <1>4, <2>6, FlattenAppend DEF full
  <2> QED
    BY <2>5, <2>6, <2>7, ConcatEmptySeq
<1> QED
  BY <1>4, <1>7, <1>9, <1>10 DEF replay

(* The numbers in frames. *)
LEMMA IdsType ==
    ASSUME NEW frames \in Seq(PaneFrame)
    PROVE  /\ OutputIds[frames] = OutputNumbers[BytesOf(frames)]
           /\ OutputIds[frames] \in Seq(Nat)
<1>1. OutputIds[frames] = OutputNumbers[BytesOf(frames)]
  BY DEF OutputIds
<1> QED
  BY <1>1, BytesOfType, NumbersInType

(* No frames, no numbers. *)
LEMMA IdsNone == OutputIds[<<>>] = <<>>
<1>1. <<>> \in Seq(PaneFrame)
  BY EmptySeq
<1> QED
  BY <1>1, IdsType, BytesOfNone, NumbersEmpty

(* A further frame brings the numbers of its bytes. *)
LEMMA IdsAppend ==
    ASSUME NEW frames \in Seq(PaneFrame), NEW f \in PaneFrame
    PROVE  OutputIds[Append(frames, f)] = OutputIds[frames] \o OutputNumbers[f.bytes]
<1>1. f.bytes \in Seq(Byte) /\ Append(frames, f) \in Seq(PaneFrame)
  BY AppendProperties DEF PaneFrame, Frame
<1>2. BytesOf(Append(frames, f)) = BytesOf(frames) \o f.bytes
  BY BytesOfAppend
<1>3. BytesOf(frames) \in Seq(Byte)
  BY BytesOfType
<1> QED
  BY <1>1, <1>2, <1>3, IdsType, NumbersConcat

(* A frame without bytes brings none. *)
LEMMA IdsAppendBare ==
    ASSUME NEW frames \in Seq(PaneFrame), NEW f \in PaneFrame, f.bytes = <<>>
    PROVE  OutputIds[Append(frames, f)] = OutputIds[frames]
<1>1. OutputIds[Append(frames, f)] = OutputIds[frames] \o <<>>
  BY IdsAppend, NumbersEmpty
<1> QED
  BY <1>1, IdsType, ConcatEmptySeq

(* An OUTPUT frame with one of the terminal's bytes brings its number. *)
LEMMA IdsAppendOutput ==
    ASSUME NEW frames \in Seq(PaneFrame), NEW b \in Byte, FromTerminal(b)
    PROVE  OutputIds[Append(frames, BytesFrame("OUTPUT", << b >>))]
               = Append(OutputIds[frames], b.id)
<1> DEFINE f == BytesFrame("OUTPUT", << b >>)
<1>1. f \in PaneFrame /\ f.bytes = << b >>
  <2>1. << b >> \in Seq(Byte)
    OBVIOUS
  <2> QED
    BY <2>1 DEF BytesFrame, PaneFrame, Frame
<1> HIDE DEF f
<1>2. OutputIds[Append(frames, f)] = OutputIds[frames] \o OutputNumbers[<< b >>]
  BY <1>1, IdsAppend
<1>3. OutputNumbers[<< b >>] = << b.id >>
  BY NumbersOne
<1>4. OutputIds[frames] \in Seq(Nat) /\ b.id \in Nat
  BY IdsType, ByteNumber
<1>5. OutputIds[frames] \o << b.id >> = Append(OutputIds[frames], b.id)
  BY <1>4, AppendIsConcat
<1> QED
  BY <1>2, <1>3, <1>5 DEF f

-----------------------------------------------------------------------------
(* No hole, no repetition, no reordering.                                  *)
(*                                                                         *)
(* ids is a run to n: the numbers up to n, as many as there are.  Every    *)
(* client's view of the output is a run, the ring's is a run to the last   *)
(* byte published, and so is the subscriber's.                             *)

RunTo(ids, n) ==
    /\ ids \in Seq(Nat)
    /\ Len(ids) <= n
    /\ \A i \in 1 .. Len(ids) : ids[i] = n - Len(ids) + i

(* Nothing is a run to any number. *)
LEMMA RunEmpty == \A n \in Nat : RunTo(<<>>, n)
<1>1. <<>> \in Seq(Nat) /\ Len(<<>>) = 0
  BY EmptySeq
<1> QED
  BY <1>1 DEF RunTo

(* The next number makes it a longer run. *)
LEMMA RunAppend ==
    ASSUME NEW ids, NEW n \in Nat, RunTo(ids, n)
    PROVE  RunTo(Append(ids, n + 1), n + 1)
<1> DEFINE a == Append(ids, n + 1)
<1>1. ids \in Seq(Nat) /\ Len(ids) \in Nat /\ Len(ids) <= n
  BY DEF RunTo
<1>2. /\ a \in Seq(Nat) /\ Len(a) = Len(ids) + 1
      /\ \A i \in 1 .. Len(ids) : a[i] = ids[i]
      /\ a[Len(ids) + 1] = n + 1
  BY <1>1, AppendProperties
<1> HIDE DEF a
<1>3. ASSUME NEW i \in 1 .. Len(a) PROVE a[i] = n + 1 - Len(a) + i
  <2>1. CASE i <= Len(ids)
    <3>1. i \in 1 .. Len(ids) /\ a[i] = ids[i]
      BY <1>1, <1>2, <2>1
    <3>2. ids[i] = n - Len(ids) + i
      BY <3>1 DEF RunTo
    <3> QED
      BY <1>1, <1>2, <3>1, <3>2
  <2>2. CASE i = Len(ids) + 1
    BY <1>1, <1>2, <2>2
  <2> QED
    BY <1>1, <1>2, <2>1, <2>2
<1> QED
  BY <1>1, <1>2, <1>3 DEF RunTo, a

(* Without its oldest it is a run to the same number. *)
LEMMA RunTail ==
    ASSUME NEW ids, NEW n \in Nat, RunTo(ids, n), ids # <<>>
    PROVE  RunTo(Tail(ids), n)
<1> DEFINE t == Tail(ids)
<1>1. ids \in Seq(Nat) /\ Len(ids) \in Nat \ {0} /\ Len(ids) <= n
  BY EmptySeq DEF RunTo
<1>2. /\ t \in Seq(Nat) /\ Len(t) = Len(ids) - 1
      /\ \A i \in 1 .. Len(t) : t[i] = ids[i + 1]
  BY <1>1, HeadTailProperties
<1> HIDE DEF t
<1>3. ASSUME NEW i \in 1 .. Len(t) PROVE t[i] = n - Len(t) + i
  <2>1. i + 1 \in 1 .. Len(ids)
    BY <1>1, <1>2
  <2>2. ids[i + 1] = n - Len(ids) + (i + 1)
    BY <2>1 DEF RunTo
  <2> QED
    BY <1>1, <1>2, <2>2
<1> QED
  BY <1>1, <1>2, <1>3 DEF RunTo, t

(* What is in the reader's hand is the byte it read last. *)
ReaderHand == rd = "have" => chunk.id = produced /\ produced > 0

(* The ring's bytes are a run to the last byte published. *)
RingOutput ==
    /\ RingExact(ring)
    /\ Replay => RunTo(OutputNumbers[RingBytes(ring)], Published)
    /\ ~RingInput => \A i \in 1 .. Len(RingBytes(ring)) : FromTerminal(RingBytes(ring)[i])
    /\ Replay /\ Published > 0 => RingBytes(ring) # <<>>

(* Everything published is one run from the first byte. *)
LiveOutput ==
    /\ RunTo(OutputIds[live], Published)
    /\ Len(OutputIds[live]) = Published

(* So is what the clients are handed. *)
FlowOutput ==
    \A c \in Conn : Attached(c) =>
        /\ \E n \in 0 .. Published : RunTo(OutputIds[Flow(c)], n)
        /\ sub = c => RunTo(OutputIds[Flow(c)], Published)
        /\ sub = c /\ Replay /\ ~RingInput /\ Published > 0
              => OutputIds[Flow(c)] # <<>>

OutputInv == StreamInv /\ ReaderHand /\ RingOutput /\ LiveOutput /\ FlowOutput

(* Published counts. *)
LEMMA PublishedType ==
    ASSUME TypeInv, ReaderHand
    PROVE  Published \in Nat /\ (rd = "have" => chunk.id = Published + 1 /\ produced = Published + 1)
<1>1. produced \in Nat
  BY DEF TypeInv, TypeOK
<1> QED
  BY <1>1 DEF Published, ReaderHand

(* The reader's chunk changes only where it reads, and it publishes what   *)
(* it read.                                                                *)
LEMMA ReaderHandStep ==
    ASSUME TypeInv, ReaderHand, [Next]_vars
    PROVE  ReaderHand'
<1>0. produced \in Nat
  BY DEF TypeInv, TypeOK
<1>1. CASE ReaderReads
  <2>1. PICK t \in Text : chunk' = [id |-> produced + 1, text |-> t]
    BY <1>1 DEF ReaderReads
  <2>2. produced' = produced + 1
    BY <1>1 DEF ReaderReads
  <2> QED
    BY <1>0, <2>1, <2>2 DEF ReaderHand
<1>2. CASE ReaderPublishes \/ ReaderEof \/ ReaderReaps \/ ReaderExits
  <2>1. rd' \in {"read", "wait", "exit", "done"}
    BY <1>2 DEF ReaderPublishes, ReaderEof, ReaderReaps, ReaderExits
  <2> QED
    BY <2>1 DEF ReaderHand
<1>3. CASE ChildHides \/ ChildExits \/ KillArrives \/ KillerKills \/ UNCHANGED vars
  <2>1. UNCHANGED <<rd, chunk, produced>>
    BY <1>3, Zenon DEF ChildHides, ChildExits, KillArrives, KillerKills, Kill, vars, childVars
  <2> QED
    BY <2>1 DEF ReaderHand
<1>4. ASSUME NEW c \in Conn, Server(c) PROVE ReaderHand'
  <2>1. UNCHANGED <<rd, chunk, produced>>
    BY <1>4, Zenon DEF Server, ServerAttaches, ServerSpawnsWriter, ServerCannotSpawn,
           ServerReadsInput, ServerWritesInput, ServerReadsResize, ServerResizesPty,
           ServerReadsDetach, ServerReadsKill, ServerKills, ServerReadsEof, ServerDetaches,
           ServerShutsDown, ServerJoinsWriter, Kill, childVars
  <2> QED
    BY <2>1 DEF ReaderHand
<1>5. ASSUME NEW c \in Conn, Writer(c) \/ Client(c) PROVE ReaderHand'
  <2>1. UNCHANGED <<rd, chunk, produced>>
    BY <1>5, Zenon DEF Writer, WriterReceives, WriterBatches, WriterStopsBatching,
           WriterWrites, WriterFails, WriterEnds, Client, ClientConnects, ClientSends,
           ClientReads, ClientCloses, childVars
  <2> QED
    BY <2>1 DEF ReaderHand
<1> QED
  BY <1>1, <1>2, <1>3, <1>4, <1>5 DEF Next, Reader

(* Pushing a byte adds its number, if it is the terminal's, and may lose   *)
(* the oldest.                                                             *)
LEMMA PushNumbers ==
    ASSUME NEW r, RingOK(r, Byte), RingExact(r), NEW b \in Byte, NEW n \in Nat,
           RunTo(OutputNumbers[Append(RingBytes(r), b)], n)
    PROVE  /\ RunTo(OutputNumbers[RingBytes(RingPush(r, b))], n)
           /\ RingBytes(RingPush(r, b)) # <<>>
           /\ RingExact(RingPush(r, b))
           /\ \A i \in 1 .. Len(RingBytes(RingPush(r, b))) :
                 \/ RingBytes(RingPush(r, b))[i] = b
                 \/ \E j \in 1 .. Len(RingBytes(r)) :
                        RingBytes(RingPush(r, b))[i] = RingBytes(r)[j]
<1> DEFINE old == RingBytes(r)
           new == RingBytes(RingPush(r, b))
           all == Append(old, b)
           held == r.len
<1>1. /\ new = IF held < RingCap THEN all ELSE Tail(all)
      /\ RingExact(RingPush(r, b))
  BY PushBytes
<1>2. old \in Seq(Byte)
  BY RingBytesType DEF RingOK, Ring
<1>3. held = Len(old) /\ held <= RingCap /\ held \in Nat
  BY DEF RingExact, RingOK, Ring
<1>0. RunTo(OutputNumbers[all], n)
  OBVIOUS
<1> HIDE DEF old, new, held
<1>4. /\ all \in Seq(Byte) /\ Len(all) = Len(old) + 1 /\ all # <<>>
      /\ \A i \in 1 .. Len(old) : all[i] = old[i]
      /\ all[Len(old) + 1] = b
  BY <1>2, AppendProperties, EmptySeq
<1> HIDE DEF all
<1>5. CASE held < RingCap
  <2>1. new = all
    BY <1>1, <1>5
  <2> HIDE DEF RunTo
  <2>2. \A i \in 1 .. Len(new) : new[i] = b \/ \E j \in 1 .. Len(old) : new[i] = old[j]
    BY <1>2, <1>4, <2>1
  <2>3. RunTo(OutputNumbers[new], n) /\ new # <<>>
    BY <1>0, <1>4, <2>1
  <2> QED
    BY <1>1, <2>2, <2>3 DEF new, old
<1>6. CASE ~(held < RingCap)
  <2>1. new = Tail(all) /\ Len(old) \in Nat \ {0}
    BY <1>1, <1>3, <1>6, RingAssumption
  <2>2. /\ new \in Seq(Byte) /\ Len(new) = Len(old)
        /\ \A i \in 1 .. Len(new) : new[i] = all[i + 1]
    BY <1>4, <2>1, HeadTailProperties
  <2>3. \A i \in 1 .. Len(new) : new[i] = b \/ \E j \in 1 .. Len(old) : new[i] = old[j]
    <3> SUFFICES ASSUME NEW i \in 1 .. Len(new)
                 PROVE  new[i] = b \/ \E j \in 1 .. Len(old) : new[i] = old[j]
      OBVIOUS
    <3>1. CASE i + 1 <= Len(old)
      <4>1. i + 1 \in 1 .. Len(old) /\ new[i] = old[i + 1]
        BY <1>4, <2>1, <2>2, <3>1
      <4> QED
        BY <4>1
    <3>2. CASE i + 1 = Len(old) + 1
      BY <1>4, <2>2, <3>2
    <3> QED
      BY <2>1, <2>2, <3>1, <3>2
  <2>4. RunTo(OutputNumbers[new], n)
    <3>1. CASE FromTerminal(Head(all))
      <4>1. OutputNumbers[all] # <<>> /\ OutputNumbers[Tail(all)] = Tail(OutputNumbers[all])
        BY <1>4, <3>1, NumbersTail
      <4>2. RunTo(Tail(OutputNumbers[all]), n)
        BY <1>0, <4>1, RunTail
      <4> QED
        BY <2>1, <4>1, <4>2
    <3>2. CASE ~FromTerminal(Head(all))
      <4>1. OutputNumbers[Tail(all)] = OutputNumbers[all]
        BY <1>4, <3>2, NumbersTail
      <4> QED
        BY <1>0, <2>1, <4>1
    <3> QED
      BY <3>1, <3>2
  <2>5. new # <<>>
    BY <2>1, <2>2, EmptySeq
  <2> QED
    BY <1>1, <2>3, <2>4, <2>5 DEF new, old
<1> QED
  BY <1>5, <1>6

(* The bytes the reader and the servers push are bytes. *)
LEMMA PushedBytes ==
    ASSUME TypeInv
    PROVE  /\ OutByte \in Byte /\ OutByte.src = "out"
           /\ OutByte.id = chunk.id /\ OutByte.text = chunk.text
           /\ \A n \in Nat : InByte(n) \in Byte
           /\ PasteOnByte \in Byte
<1>1. TailSize \in Size
  BY TailSizeType
<1>2. chunk \in Chunk
  BY DEF TypeInv, TypeOK
<1> QED
  BY <1>1, <1>2 DEF OutByte, InByte, PasteOnByte, Byte, Chunk

(* The flows are sequences of frames. *)
LEMMA FlowFrames ==
    ASSUME TypeInv, NEW c \in Conn
    PROVE  /\ Flow(c) \in Seq(PaneFrame) /\ live \in Seq(PaneFrame)
           /\ OutputIds[Flow(c)] \in Seq(Nat) /\ OutputIds[live] \in Seq(Nat)
<1>1. /\ got[c] \in Seq(PaneFrame) /\ wire[c] \in Seq(PaneFrame)
      /\ batch[c] \in Seq(PaneFrame) /\ chan[c] \in Seq(PaneFrame)
      /\ live \in Seq(PaneFrame)
  BY FlowType
<1>2. got[c] \o wire[c] \in Seq(PaneFrame)
  BY <1>1, FramesConcat
<1>3. got[c] \o wire[c] \o batch[c] \in Seq(PaneFrame)
  BY <1>1, <1>2, FramesConcat
<1>4. Flow(c) \in Seq(PaneFrame)
  BY <1>1, <1>3, FramesConcat DEF Flow
<1> QED
  BY <1>1, <1>4, IdsType

(* Frames that carry no byte. *)
LEMMA BareFrames ==
    /\ \A s \in Size : SizeFrame(s) \in PaneFrame /\ SizeFrame(s).bytes = <<>>
    /\ \A k \in {"ATTACHED", "EXITED"} : Marker(k) \in PaneFrame /\ Marker(k).bytes = <<>>
<1>1. <<>> \in Seq(Byte)
  BY EmptySeq
<1> QED
  BY <1>1 DEF SizeFrame, Marker, PaneFrame, Frame

(* The opening carries the ring's bytes, and perhaps the paste switch. *)
LEMMA OpeningBytes ==
    ASSUME TypeInv
    PROVE  /\ Opening \in Seq(PaneFrame)
           /\ BytesOf(Opening) = (IF Replay THEN RingBytes(ring) ELSE <<>>)
                                    \o (IF paste THEN << PasteOnByte >> ELSE <<>>)
           /\ OutputIds[Opening] = IF Replay THEN OutputNumbers[RingBytes(ring)] ELSE <<>>
<1> DEFINE replay == IF Replay THEN RingReplay(ring) ELSE <<>>
           switch == BytesFrame("OUTPUT", <<PasteOnByte>>)
           mode == IF paste THEN << switch >> ELSE <<>>
           last == Marker("ATTACHED")
           front == replay \o mode
           ringed == IF Replay THEN RingBytes(ring) ELSE <<>>
           switched == IF paste THEN << PasteOnByte >> ELSE <<>>
<1>1. RingOK(ring, Byte) /\ PasteOnByte \in Byte /\ ~FromTerminal(PasteOnByte)
  BY PushedBytes DEF TypeInv, FromTerminal, PasteOnByte
<1>2. replay \in Seq(PaneFrame) /\ BytesOf(replay) = ringed /\ ringed \in Seq(Byte)
  <2>1. RingReplay(ring) \in Seq(PaneFrame) /\ BytesOf(RingReplay(ring)) = RingBytes(ring)
    BY <1>1, ReplayBytes, RingReplayType DEF PaneFrame
  <2>2. RingBytes(ring) \in Seq(Byte)
    BY <1>1, RingBytesType DEF RingOK, Ring
  <2>3. <<>> \in Seq(PaneFrame) /\ <<>> \in Seq(Byte)
    BY EmptySeq
  <2> QED
    BY <2>1, <2>2, <2>3, BytesOfNone
<1>3. switch \in PaneFrame /\ switch.bytes = << PasteOnByte >> /\ << PasteOnByte >> \in Seq(Byte)
  <2>1. << PasteOnByte >> \in Seq(Byte)
    BY <1>1
  <2> QED
    BY <2>1 DEF BytesFrame, PaneFrame, Frame
<1>4. last \in PaneFrame /\ last.bytes = <<>>
  BY BareFrames
<1>5. Opening = front \o << last >>
  BY DEF Opening
<1> HIDE DEF replay, switch, last, ringed
<1>6. front \in Seq(PaneFrame) /\ BytesOf(front) = ringed \o switched
  <2>1. CASE paste
    <3>1. front = replay \o << switch >> /\ switched = << PasteOnByte >>
      BY <2>1
    <3>2. replay \o << switch >> = Append(replay, switch)
      BY <1>2, <1>3, AppendIsConcat
    <3>3. Append(replay, switch) \in Seq(PaneFrame)
      BY <1>2, <1>3, AppendProperties
    <3>4. BytesOf(Append(replay, switch)) = BytesOf(replay) \o switch.bytes
      BY <1>2, <1>3, BytesOfAppend
    <3> QED
      BY <1>2, <1>3, <3>1, <3>2, <3>3, <3>4
  <2>2. CASE ~paste
    <3>1. front = replay \o <<>> /\ switched = <<>>
      BY <2>2
    <3>2. replay \o <<>> = replay /\ ringed \o <<>> = ringed
      BY <1>2, ConcatEmptySeq
    <3> QED
      BY <1>2, <3>1, <3>2
  <2> QED
    BY <2>1, <2>2
<1>7. switched \in Seq(Byte)
  BY <1>3, EmptySeq
<1> HIDE DEF front, switched
<1>8. Opening = Append(front, last) /\ Opening \in Seq(PaneFrame)
  BY <1>4, <1>5, <1>6, AppendIsConcat, AppendProperties
<1>9. BytesOf(Opening) = ringed \o switched
  <2>1. BytesOf(Append(front, last)) = BytesOf(front) \o <<>>
    BY <1>4, <1>6, BytesOfAppend
  <2>2. ringed \o switched \in Seq(Byte)
    BY <1>2, <1>7, ConcatProperties
  <2> QED
    BY <1>6, <1>8, <2>1, <2>2, ConcatEmptySeq
<1>10. OutputIds[Opening] = OutputNumbers[ringed] \o OutputNumbers[switched]
  BY <1>2, <1>7, <1>8, <1>9, IdsType, NumbersConcat
<1>11. OutputNumbers[switched] = <<>>
  <2>1. OutputNumbers[<< PasteOnByte >>] = <<>>
    BY <1>1, NumbersOne
  <2> QED
    BY <2>1, NumbersEmpty DEF switched
<1>12. OutputNumbers[ringed] \in Seq(Nat)
  BY <1>2, NumbersInType
<1>13. OutputIds[Opening] = OutputNumbers[ringed]
  BY <1>10, <1>11, <1>12, ConcatEmptySeq
<1> QED
  BY <1>8, <1>9, <1>13, NumbersEmpty DEF ringed, switched

(* Nothing was published or rung yet. *)
LEMMA OutputInit ==
    ASSUME Init
    PROVE  OutputInv
<1>1. StreamInv
  BY StreamInit
<1>2. /\ ring = RingNew(InitialSize) /\ rd = "read" /\ produced = 0 /\ live = <<>>
      /\ InitialSize \in Size
  BY PaneAssumption DEF Init
<1>3. Published = 0 /\ ReaderHand
  BY <1>2 DEF Published, ReaderHand
<1>4. RingBytes(ring) = <<>> /\ RingExact(ring)
  BY <1>2, NewBytes
<1>5. RunTo(<<>>, 0) /\ Len(<<>>) = 0
  BY RunEmpty
<1>6. RingOutput
  BY <1>3, <1>4, <1>5, NumbersEmpty DEF RingOutput
<1>7. LiveOutput
  BY <1>2, <1>3, <1>5, IdsNone DEF LiveOutput
<1>8. FlowOutput
  BY DEF Init, FlowOutput, Attached
<1> QED
  BY <1>1, <1>3, <1>6, <1>7, <1>8 DEF OutputInv

(* Every step keeps the ring's run. *)
LEMMA RingOutputStep ==
    ASSUME OutputInv, StepKind
    PROVE  RingOutput'
<1>1. /\ TypeInv /\ RingOK(ring, Byte) /\ RingExact(ring) /\ Published \in Nat
      /\ rd = "have" => chunk.id = Published + 1
  BY PublishedType DEF OutputInv, StreamInv, TypeInv, RingOutput
<1>2. RingBytes(ring) \in Seq(Byte)
  BY <1>1, RingBytesType DEF RingOK, Ring
<1>3. CASE UNCHANGED ring /\ Published' = Published
  BY <1>3 DEF OutputInv, RingOutput, RingBytes, BytesIn, RingExact
<1>4. ASSUME BytePublished, Replay PROVE RingOutput'
  <2>1. ring' = RingPush(ring, OutByte) /\ Published' = Published + 1 /\ rd = "have"
    BY <1>4 DEF BytePublished
  <2>2. OutByte \in Byte /\ FromTerminal(OutByte) /\ OutByte.id = Published + 1
    BY <1>1, <2>1, PushedBytes DEF FromTerminal
  <2>3. RunTo(OutputNumbers[RingBytes(ring)], Published)
    BY <1>4 DEF OutputInv, RingOutput
  <2>4. RunTo(OutputNumbers[Append(RingBytes(ring), OutByte)], Published + 1)
    BY <1>1, <1>2, <2>2, <2>3, NumbersAppend, RunAppend
  <2> DEFINE b == OutByte
             n == Published + 1
             old == RingBytes(ring)
             new == RingBytes(RingPush(ring, b))
  <2>5. /\ RunTo(OutputNumbers[new], n) /\ new # <<>> /\ RingExact(RingPush(ring, b))
        /\ \A i \in 1 .. Len(new) : new[i] = b \/ \E j \in 1 .. Len(old) : new[i] = old[j]
    <3>1. n \in Nat
      BY <1>1
    <3> HIDE DEF n, b
    <3>2. b \in Byte /\ RunTo(OutputNumbers[Append(RingBytes(ring), b)], n)
      BY <2>2, <2>4 DEF b, n
    <3> QED
      BY <1>1, <3>1, <3>2, PushNumbers
  <2>6. ~RingInput => \A i \in 1 .. Len(old) : FromTerminal(old[i])
    BY DEF OutputInv, RingOutput
  <2>7. RingBytes(ring') = new /\ RingExact(ring')
    BY <2>1, <2>5
  <2>9. /\ RunTo(OutputNumbers[RingBytes(ring')], Published')
        /\ RingBytes(ring') # <<>>
    BY <2>1, <2>5, <2>7
  <2> HIDE DEF new, old, n
  <2>8. ~RingInput => \A i \in 1 .. Len(new) : FromTerminal(new[i])
    BY <2>2, <2>5, <2>6
  <2> QED
    BY <2>7, <2>8, <2>9 DEF RingOutput, RingBytes, BytesIn, RingExact
<1>5. ASSUME BytePublished, ~Replay PROVE RingOutput'
  <2>1. UNCHANGED ring
    BY <1>5 DEF BytePublished
  <2> QED
    BY <1>5, <2>1 DEF OutputInv, RingOutput, RingBytes, BytesIn, RingExact
<1>6. ASSUME NEW s \in Size, SizePublished(s) PROVE RingOutput'
  <2>1. ring' = RingResize(ring, s) /\ Published' = Published
    BY <1>6 DEF SizePublished
  <2>2. RingBytes(ring') = RingBytes(ring) /\ ring'.len = ring.len
    BY <1>1, <2>1, ResizeBytes
  <2> QED
    BY <2>1, <2>2 DEF OutputInv, RingOutput, RingBytes, BytesIn, RingExact
<1>7. ASSUME NEW m \in Nat, InputRung(m) PROVE RingOutput'
  <2> DEFINE b == InByte(m)
             n == Published
             old == RingBytes(ring)
             new == RingBytes(RingPush(ring, b))
  <2>1. ring' = RingPush(ring, b) /\ Published' = n /\ RingInput /\ Replay
    BY <1>7 DEF InputRung
  <2>2. b \in Byte /\ ~FromTerminal(b)
    BY <1>1, PushedBytes DEF FromTerminal, InByte
  <2>3. RunTo(OutputNumbers[old], n) /\ n \in Nat
    BY <1>1, <2>1 DEF OutputInv, RingOutput
  <2>4. OutputNumbers[Append(old, b)] = OutputNumbers[old]
    <3> HIDE DEF b
    <3> QED
      BY <1>2, <2>2, NumbersAppend
  <2>5. RunTo(OutputNumbers[new], n) /\ new # <<>> /\ RingExact(RingPush(ring, b))
    <3> HIDE DEF b, n
    <3> QED
      BY <1>1, <2>2, <2>3, <2>4, PushNumbers
  <2> QED
    BY <2>1, <2>5 DEF RingOutput, RingBytes, BytesIn, RingExact
<1>8. CASE Unnoticed \/ ExitPublished \/ \E c \in Conn : Attaches(c)
  <2>1. UNCHANGED ring /\ Published' = Published
    BY <1>8 DEF Unnoticed, ExitPublished, Attaches
  <2> QED
    BY <2>1, <1>3
<1> QED
  BY <1>4, <1>5, <1>6, <1>7, <1>8 DEF StepKind, OtherKind

(* A step that publishes f, seen from a connection: it is the one served   *)
(* and gets f, or nothing changes for it.                                  *)
LEMMA GrowsOneFlow ==
    ASSUME TypeInv, NEW f \in PaneFrame, FlowsGrow(f), NEW c \in Conn
    PROVE  /\ Attached(c)' <=> Attached(c)
           /\ Served = c => sub = c /\ Flow(c)' = Append(Flow(c), f)
           /\ Served # c => Flow(c)' = Flow(c)
<1>1. Served = c => sub = c
  BY PaneAssumption DEF Served
<1> QED
  BY <1>1 DEF FlowsGrow

(* Every step keeps the run of what was published. *)
LEMMA LiveOutputStep ==
    ASSUME OutputInv, StepKind
    PROVE  LiveOutput'
<1>1. /\ TypeInv /\ Published \in Nat /\ live \in Seq(PaneFrame)
      /\ rd = "have" => chunk.id = Published + 1
      /\ RunTo(OutputIds[live], Published) /\ Len(OutputIds[live]) = Published
  BY PublishedType DEF OutputInv, StreamInv, TypeInv, TypeOK, LiveOutput
<1>2. CASE BytePublished
  <2> DEFINE f == BytesFrame("OUTPUT", << OutByte >>)
             ids == OutputIds[live]
  <2>1. live' = Append(live, f) /\ Published' = Published + 1 /\ rd = "have"
    BY <1>2 DEF BytePublished, FlowsGrow
  <2>2. OutByte \in Byte /\ FromTerminal(OutByte) /\ OutByte.id = Published + 1
    BY <1>1, <2>1, PushedBytes DEF FromTerminal
  <2>3. OutputIds[Append(live, f)] = Append(ids, Published + 1)
    BY <1>1, <2>2, IdsAppendOutput
  <2>4. OutputIds[live'] = Append(ids, Published + 1)
    BY <2>1, <2>3
  <2>5. RunTo(ids, Published) /\ ids \in Seq(Nat) /\ Len(ids) = Published
    BY <1>1 DEF RunTo
  <2> HIDE DEF ids
  <2>6. RunTo(Append(ids, Published + 1), Published + 1)
        /\ Len(Append(ids, Published + 1)) = Published + 1
    BY <1>1, <2>5, RunAppend
  <2> QED
    BY <2>1, <2>4, <2>6 DEF LiveOutput
<1>3. ASSUME NEW f \in PaneFrame, f.bytes = <<>>, live' = Append(live, f), Published' = Published
      PROVE  LiveOutput'
  <2>1. OutputIds[live'] = OutputIds[live]
    BY <1>1, <1>3, IdsAppendBare
  <2> QED
    BY <1>1, <1>3, <2>1 DEF LiveOutput
<1>4. CASE UNCHANGED live /\ Published' = Published
  BY <1>1, <1>4 DEF LiveOutput
<1>5. ASSUME NEW s \in Size, SizePublished(s) PROVE LiveOutput'
  BY <1>3, <1>5, BareFrames DEF SizePublished, FlowsGrow
<1>6. CASE ExitPublished
  BY <1>3, <1>6, BareFrames DEF ExitPublished, FlowsGrow
<1>7. CASE Unnoticed \/ (\E c \in Conn : Attaches(c)) \/ (\E n \in Nat : InputRung(n))
  <2>1. UNCHANGED live /\ Published' = Published
    BY <1>7 DEF Unnoticed, Attaches, InputRung
  <2> QED
    BY <1>4, <2>1
<1> QED
  BY <1>2, <1>5, <1>6, <1>7 DEF StepKind, OtherKind

(* What FlowOutput says of one connection's numbers. *)
RunsFor(c, ids, n) ==
    /\ \E m \in 0 .. n : RunTo(ids, m)
    /\ sub = c => RunTo(ids, n)
    /\ sub = c /\ Replay /\ ~RingInput /\ n > 0 => ids # <<>>

(* Every step keeps the runs the clients are handed. *)
LEMMA FlowOutputStep ==
    ASSUME OutputInv, StepKind
    PROVE  FlowOutput'
<1>1. /\ TypeInv /\ Published \in Nat
      /\ rd = "have" => chunk.id = Published + 1
      /\ RingOutput
  BY PublishedType DEF OutputInv, StreamInv
<1>2. ASSUME NEW c \in Conn
      PROVE  Flow(c) \in Seq(PaneFrame) /\ OutputIds[Flow(c)] \in Seq(Nat)
  BY <1>1, FlowFrames
<1>3. ASSUME NEW c \in Conn, Attached(c) PROVE RunsFor(c, OutputIds[Flow(c)], Published)
  BY <1>3 DEF OutputInv, FlowOutput, RunsFor
<1>4. ASSUME \A c \in Conn : Attached(c)' => RunsFor(c, OutputIds[Flow(c)], Published)'
      PROVE  FlowOutput'
  BY <1>4 DEF FlowOutput, RunsFor
<1>5. ASSUME NEW c \in Conn, Attached(c), OutputIds[Flow(c)'] = OutputIds[Flow(c)],
             sub' = c => sub = c, Published' = Published
      PROVE  RunsFor(c, OutputIds[Flow(c)], Published)'
  BY <1>3, <1>5 DEF RunsFor
<1>6. CASE BytePublished
  <2> DEFINE f == BytesFrame("OUTPUT", << OutByte >>)
  <2>1. FlowsGrow(f) /\ Published' = Published + 1 /\ rd = "have" /\ sub' = Served
    BY <1>6 DEF BytePublished
  <2>2. OutByte \in Byte /\ FromTerminal(OutByte) /\ OutByte.id = Published + 1
    BY <1>1, <2>1, PushedBytes DEF FromTerminal
  <2>3. f \in PaneFrame
    <3>1. << OutByte >> \in Seq(Byte)
      BY <2>2
    <3> QED
      BY <3>1 DEF BytesFrame, PaneFrame, Frame
  <2>4. ASSUME NEW c \in Conn, Attached(c)'
        PROVE  RunsFor(c, OutputIds[Flow(c)], Published)'
    <3> DEFINE ids == OutputIds[Flow(c)]
               n == Published
    <3>1. /\ Attached(c)
          /\ Served = c => sub = c /\ Flow(c)' = Append(Flow(c), f)
          /\ Served # c => Flow(c)' = Flow(c)
      BY <1>1, <2>1, <2>3, <2>4, GrowsOneFlow
    <3>2. RunsFor(c, ids, n) /\ n \in Nat /\ ids \in Seq(Nat)
      BY <1>1, <1>2, <1>3, <3>1
    <3>3. CASE Served = c
      <4>1. OutputIds[Append(Flow(c), f)] = Append(ids, n + 1)
        BY <1>2, <2>2, IdsAppendOutput
      <4>2. OutputIds[Flow(c)'] = Append(ids, n + 1)
        BY <3>1, <3>3, <4>1
      <4> HIDE DEF ids, n
      <4>3. RunTo(Append(ids, n + 1), n + 1)
        BY <3>1, <3>2, <3>3, RunAppend DEF RunsFor
      <4>4. Append(ids, n + 1) # <<>> /\ n + 1 \in 0 .. n + 1
        BY <3>2
      <4> QED
        BY <2>1, <4>2, <4>3, <4>4 DEF RunsFor, n
    <3>4. CASE Served # c
      <4>1. OutputIds[Flow(c)'] = ids /\ sub' # c
        BY <2>1, <3>1, <3>4
      <4>2. PICK m \in 0 .. n : RunTo(ids, m)
        BY <3>2 DEF RunsFor
      <4>3. m \in 0 .. n + 1
        BY <3>2, <4>2
      <4> QED
        BY <2>1, <4>1, <4>2, <4>3 DEF RunsFor
    <3> QED
      BY <3>3, <3>4
  <2> QED
    BY <1>4, <2>4
<1>7. ASSUME NEW f \in PaneFrame, f.bytes = <<>>, FlowsGrow(f), Published' = Published,
             sub' \in {sub, Served}
      PROVE  FlowOutput'
  <2>1. ASSUME NEW c \in Conn, Attached(c)'
        PROVE  RunsFor(c, OutputIds[Flow(c)], Published)'
    <3>1. /\ Attached(c)
          /\ Served = c => sub = c /\ Flow(c)' = Append(Flow(c), f)
          /\ Served # c => Flow(c)' = Flow(c)
      BY <1>1, <1>7, <2>1, GrowsOneFlow
    <3>2. OutputIds[Append(Flow(c), f)] = OutputIds[Flow(c)]
      BY <1>2, <1>7, IdsAppendBare
    <3>3. OutputIds[Flow(c)'] = OutputIds[Flow(c)] /\ (sub' = c => sub = c)
      BY <1>7, <3>1, <3>2
    <3> QED
      BY <1>5, <1>7, <3>1, <3>3
  <2> QED
    BY <1>4, <2>1
<1>8. ASSUME NEW s \in Size, SizePublished(s) PROVE FlowOutput'
  BY <1>7, <1>8, BareFrames DEF SizePublished
<1>9. CASE ExitPublished
  BY <1>7, <1>9, BareFrames DEF ExitPublished
<1>10. CASE Unnoticed \/ (\E n \in Nat : InputRung(n))
  <2>1. FlowsKept /\ sub' \in {sub, NoConn} /\ Published' = Published
    BY <1>10 DEF Unnoticed, InputRung
  <2>2. ASSUME NEW c \in Conn, Attached(c)'
        PROVE  RunsFor(c, OutputIds[Flow(c)], Published)'
    <3>1. Attached(c) /\ Flow(c)' = Flow(c) /\ (sub' = c => sub = c)
      BY <2>1, <2>2, PaneAssumption DEF FlowsKept
    <3> QED
      BY <1>5, <2>1, <3>1
  <2> QED
    BY <1>4, <2>2
<1>11. ASSUME NEW d \in Conn, Attaches(d) PROVE FlowOutput'
  <2>0. Published' = Published /\ sub' = d /\ Flow(d)' = Opening
    BY <1>11 DEF Attaches
  <2>1. ASSUME NEW c \in Conn, Attached(c)', c # d
        PROVE  RunsFor(c, OutputIds[Flow(c)], Published)'
    <3>1. Attached(c) /\ Flow(c)' = Flow(c) /\ sub' # c
      BY <1>11, <2>0, <2>1 DEF Attaches
    <3> QED
      BY <1>5, <2>0, <3>1
  <2>2. RunsFor(d, OutputIds[Flow(d)], Published)'
    <3> DEFINE ids == OutputIds[Opening]
               ringed == OutputNumbers[RingBytes(ring)]
    <3>1. ids = IF Replay THEN ringed ELSE <<>>
      BY <1>1, OpeningBytes
    <3>2. Replay => RunTo(ringed, Published)
      BY <1>1 DEF RingOutput
    <3>3. RunTo(<<>>, Published)
      BY <1>1, RunEmpty
    <3>4. ASSUME Replay, ~RingInput, Published > 0 PROVE ids # <<>>
      <4>1. RingBytes(ring) \in Seq(Byte) /\ RingBytes(ring) # <<>>
            /\ \A i \in 1 .. Len(RingBytes(ring)) : FromTerminal(RingBytes(ring)[i])
        BY <1>1, <3>4, RingBytesType DEF RingOutput, TypeInv, RingOK, Ring
      <4>2. Len(ringed) = Len(RingBytes(ring))
        BY <4>1, NumbersCount
      <4>3. Len(RingBytes(ring)) # 0 /\ Len(<<>>) = 0
        BY <4>1, EmptySeq
      <4> QED
        BY <3>1, <3>4, <4>2, <4>3
    <3> HIDE DEF ids, ringed
    <3>5. RunTo(ids, Published)
      BY <3>1, <3>2, <3>3
    <3>6. Published \in 0 .. Published
      BY <1>1
    <3>7. OutputIds[Flow(d)'] = ids
      BY <2>0 DEF ids
    <3> QED
      BY <2>0, <3>4, <3>5, <3>6, <3>7 DEF RunsFor
  <2> QED
    BY <1>4, <2>1, <2>2
<1> QED
  BY <1>6, <1>8, <1>9, <1>10, <1>11 DEF StepKind, OtherKind

(* So it always holds. *)
LEMMA OutputInvariant == Spec => []OutputInv
<1>1. Init => OutputInv
  BY OutputInit
<1>2. StreamInv /\ StreamInv' /\ OutputInv /\ [Next]_vars => OutputInv'
  <2> SUFFICES ASSUME StreamInv, StreamInv', OutputInv, [Next]_vars PROVE OutputInv'
    OBVIOUS
  <2>1. ReaderHand'
    BY ReaderHandStep DEF OutputInv, StreamInv
  <2>2. StepKind
    BY StepKinds DEF OutputInv, ReaderHand
  <2> QED
    BY <2>1, <2>2, RingOutputStep, LiveOutputStep, FlowOutputStep DEF OutputInv
<1> QED
  BY <1>1, <1>2, StreamInvariant, PTL DEF Spec

(* In every reachable state, the terminal's bytes a connection is handed   *)
(* have no hole, no repetition and no reordering from the oldest replayed  *)
(* one on, and the subscriber's end at the last byte the reader published. *)
THEOREM OutputHasNoHole == Spec => []OutputContiguous
<1>1. OutputInv => OutputContiguous
  <2> SUFFICES ASSUME OutputInv, NEW c \in Conn, Attached(c)
               PROVE  LET ids == OutputIds[Flow(c)]
                      IN  /\ \A i \in 1 .. Len(ids) - 1 : ids[i + 1] = ids[i] + 1
                          /\ sub = c /\ ids # <<>> => ids[Len(ids)] = Published
                          /\ sub = c /\ Replay /\ ~RingInput /\ Published > 0 => ids # <<>>
    BY DEF OutputContiguous
  <2> DEFINE ids == OutputIds[Flow(c)]
  <2>1. RunsFor(c, ids, Published)
    BY DEF OutputInv, FlowOutput, RunsFor
  <2>2. Published \in Nat
    BY PublishedType DEF OutputInv, StreamInv
  <2> HIDE DEF ids
  <2>3. ASSUME NEW i \in 1 .. Len(ids) - 1 PROVE ids[i + 1] = ids[i] + 1
    <3>1. PICK m \in 0 .. Published : RunTo(ids, m)
      BY <2>1 DEF RunsFor
    <3>2. ids \in Seq(Nat) /\ Len(ids) \in Nat /\ m \in Nat
      BY <2>2, <3>1 DEF RunTo
    <3>3. i \in 1 .. Len(ids) /\ i + 1 \in 1 .. Len(ids)
      BY <3>2
    <3>4. ids[i] = m - Len(ids) + i /\ ids[i + 1] = m - Len(ids) + (i + 1)
      BY <3>1, <3>3 DEF RunTo
    <3> QED
      BY <3>2, <3>3, <3>4
  <2>4. ASSUME sub = c, ids # <<>> PROVE ids[Len(ids)] = Published
    <3>1. RunTo(ids, Published)
      BY <2>1, <2>4 DEF RunsFor
    <3>2. ids \in Seq(Nat) /\ Len(ids) \in 1 .. Len(ids) /\ Len(ids) \in Nat
      BY <2>4, <3>1, EmptySeq DEF RunTo
    <3>3. ids[Len(ids)] = Published - Len(ids) + Len(ids)
      BY <3>1, <3>2 DEF RunTo
    <3> QED
      BY <2>2, <3>2, <3>3
  <2>5. sub = c /\ Replay /\ ~RingInput /\ Published > 0 => ids # <<>>
    BY <2>1 DEF RunsFor
  <2> QED
    BY <2>3, <2>4, <2>5 DEF ids
<1> QED
  BY <1>1, OutputInvariant, PTL

-----------------------------------------------------------------------------
(* The refinement of PaneStream.                                           *)

(* A sequence is a prefix of what it begins. *)
LEMMA PrefixOfConcat ==
    ASSUME NEW S, NEW s \in Seq(S), NEW t \in Seq(S)
    PROVE  SubSeq(s \o t, 1, Len(s)) = s
<1> DEFINE all == s \o t
           p == SubSeq(all, 1, Len(s))
<1>1. /\ all \in Seq(S) /\ Len(all) = Len(s) + Len(t)
      /\ \A i \in 1 .. Len(s) : all[i] = s[i]
      /\ Len(s) \in Nat /\ Len(t) \in Nat
  BY ConcatProperties
<1> HIDE DEF all
<1>2. Len(s) \in 0 .. Len(all)
  BY <1>1
<1>3. /\ p \in Seq(S) /\ Len(p) = Len(s)
      /\ \A i \in 1 .. Len(s) : p[i] = all[i]
  BY <1>1, <1>2, FirstOf
<1> HIDE DEF p
<1>4. Len(p) = Len(s) /\ \A i \in 1 .. Len(p) : p[i] = s[i]
  BY <1>1, <1>3
<1>5. p = s
  BY <1>3, <1>4, SeqEqual
<1> QED
  BY <1>5 DEF p, all

(* Concatenation of numbers associates. *)
LEMMA NumbersAssociative ==
    ASSUME NEW p \in Seq(Nat), NEW q \in Seq(Nat), NEW r \in Seq(Nat)
    PROVE  (p \o q) \o r = p \o (q \o r)
BY ConcatAssociative

(* The numbers of one queue behind another. *)
LEMMA IdsConcat ==
    ASSUME NEW s \in Seq(PaneFrame), NEW t \in Seq(PaneFrame)
    PROVE  OutputIds[s \o t] = OutputIds[s] \o OutputIds[t]
<1> DEFINE Good(u) == OutputIds[s \o u] = OutputIds[s] \o OutputIds[u]
           U == {u \in Seq(PaneFrame) : Good(u)}
<1>1. <<>> \in U
  <2>1. s \o <<>> = s /\ <<>> \in Seq(PaneFrame)
    BY ConcatEmptySeq, EmptySeq
  <2>2. OutputIds[s] \o <<>> = OutputIds[s]
    BY IdsType, ConcatEmptySeq
  <2> QED
    BY <2>1, <2>2, IdsNone
<1>2. ASSUME NEW u \in Seq(PaneFrame), NEW f \in PaneFrame, u \in U
      PROVE  Append(u, f) \in U
  <2> DEFINE a == OutputIds[s]
             b == OutputIds[u]
             c == OutputNumbers[f.bytes]
  <2>1. /\ s \o Append(u, f) = Append(s \o u, f) /\ s \o u \in Seq(PaneFrame)
        /\ Append(u, f) \in Seq(PaneFrame)
    BY FramesAppend, FramesConcat, AppendProperties
  <2>2. OutputIds[Append(s \o u, f)] = OutputIds[s \o u] \o c
    BY <2>1, IdsAppend
  <2>3. OutputIds[Append(u, f)] = b \o c
    BY IdsAppend
  <2>4. OutputIds[s \o u] = a \o b
    BY <1>2
  <2>5. a \in Seq(Nat) /\ b \in Seq(Nat) /\ c \in Seq(Nat)
    <3>1. f.bytes \in Seq(Byte)
      BY DEF PaneFrame, Frame
    <3> QED
      BY <3>1, IdsType, NumbersInType
  <2> HIDE DEF a, b, c
  <2>6. (a \o b) \o c = a \o (b \o c)
    <3>1. \A p, q, r \in Seq(Nat) : (p \o q) \o r = p \o (q \o r)
      BY NumbersAssociative
    <3> QED
      BY <2>5, <3>1
  <2>7. OutputIds[s \o Append(u, f)] = a \o OutputIds[Append(u, f)]
    BY <2>1, <2>2, <2>3, <2>4, <2>6
  <2> QED
    BY <2>1, <2>7 DEF a
<1> HIDE DEF U
<1>3. Seq(PaneFrame) \subseteq U
  BY <1>1, <1>2, SequencesBySet
<1> QED
  BY <1>3 DEF U

(* A step that changes no number, and at most releases the holder. *)
LEMMA NumbersKept ==
    ASSUME OutputIds[live'] = OutputIds[live], sub' \in {sub, NoConn}, UNCHANGED got,
           \A d \in Conn : OutputIds[Flow(d)'] = OutputIds[Flow(d)]
    PROVE  [Promised!Next]_Promised!streamVars
<1>1. [c \in Conn |-> OutputIds[Flow(c)]]' = [c \in Conn |-> OutputIds[Flow(c)]]
  OBVIOUS
<1>2. [c \in Conn |-> OutputIds[got[c]]]' = [c \in Conn |-> OutputIds[got[c]]]
  OBVIOUS
<1>3. CASE sub' = sub
  BY <1>1, <1>2, <1>3 DEF Promised!streamVars
<1>4. CASE sub' # sub
  BY <1>1, <1>2, <1>4 DEF Promised!Release, Promised!Next
<1> QED
  BY <1>3, <1>4

(* A client reads: it has received more of what it was promised, or a      *)
(* frame without output.                                                   *)
LEMMA ReadReceives ==
    ASSUME StreamInv, UNCHANGED <<live, sub>>, NEW c \in Conn, Reads(c),
           \A d \in Conn : Flow(d)' = Flow(d)
    PROVE  [Promised!Next]_Promised!streamVars
<1>1. /\ got[c] \in Seq(PaneFrame) /\ wire[c] \in Seq(PaneFrame)
      /\ batch[c] \in Seq(PaneFrame) /\ chan[c] \in Seq(PaneFrame)
      /\ got \in [Conn -> Seq(PaneFrame)]
  BY FlowType DEF StreamInv, TypeInv, TypeOK
<1> DEFINE f == Head(wire[c])
           more == Append(got[c], f)
           behind == Tail(wire[c]) \o (batch[c] \o chan[c])
           x == OutputIds[got[c]]
           y == OutputNumbers[f.bytes]
           z == OutputIds[behind]
<1>2. f \in PaneFrame /\ Tail(wire[c]) \in Seq(PaneFrame) /\ wire[c] # <<>>
      /\ got' = [got EXCEPT ![c] = more]
  BY <1>1, HeadTailProperties DEF Reads
<1>3. f.bytes \in Seq(Byte)
  BY <1>2 DEF PaneFrame, Frame
<1>4. more \in Seq(PaneFrame) /\ behind \in Seq(PaneFrame)
  BY <1>1, <1>2, AppendProperties, FramesConcat
<1>5. Flow(c) = more \o behind
  <2> DEFINE h == got[c]
             w == wire[c]
             rest == batch[c] \o chan[c]
  <2>1. rest \in Seq(PaneFrame) /\ h \o w \in Seq(PaneFrame)
    BY <1>1, FramesConcat
  <2>2. Flow(c) = ((h \o w) \o batch[c]) \o chan[c]
    BY DEF Flow
  <2>3. ((h \o w) \o batch[c]) \o chan[c] = (h \o w) \o rest
    <3> DEFINE hw == h \o w
    <3>1. \A p, q, r \in Seq(PaneFrame) : (p \o q) \o r = p \o (q \o r)
      BY FramesAssociative
    <3>2. hw \in Seq(PaneFrame) /\ rest = batch[c] \o chan[c]
      BY <2>1
    <3> HIDE DEF hw, rest
    <3>3. (hw \o batch[c]) \o chan[c] = hw \o rest
      BY <1>1, <3>1, <3>2
    <3> QED
      BY <3>3 DEF hw
  <2>4. h \o w = more \o Tail(w)
    BY <1>1, <1>2, HeadMoves
  <2>5. (more \o Tail(w)) \o rest = more \o (Tail(w) \o rest)
    BY <1>2, <1>4, <2>1, FramesAssociative
  <2> QED
    BY <2>2, <2>3, <2>4, <2>5
<1>6. x \in Seq(Nat) /\ y \in Seq(Nat) /\ z \in Seq(Nat) /\ OutputIds[more] = x \o y
  BY <1>1, <1>2, <1>3, <1>4, IdsType, NumbersInType, IdsAppend
<1>7. OutputIds[Flow(c)] = (x \o y) \o z
  <2> HIDE DEF more, behind
  <2> QED
    BY <1>4, <1>5, <1>6, IdsConcat DEF behind
<1>8. [d \in Conn |-> OutputIds[Flow(d)]]' = [d \in Conn |-> OutputIds[Flow(d)]]
  OBVIOUS
<1>9. [d \in Conn |-> OutputIds[got[d]]]'
         = [[d \in Conn |-> OutputIds[got[d]]] EXCEPT ![c] = x \o y]
  <2>1. \A d \in Conn : got'[d] = IF d = c THEN more ELSE got[d]
    BY <1>1, <1>2
  <2> HIDE DEF more, x, y
  <2>2. \A d \in Conn : OutputIds[got'[d]] = IF d = c THEN x \o y ELSE OutputIds[got[d]]
    BY <1>6, <2>1
  <2> QED
    BY <2>2
<1> DEFINE received == [d \in Conn |-> OutputIds[got[d]]]
           promised == [d \in Conn |-> OutputIds[Flow(d)]]
<1>10. received[c] = x /\ promised[c] = (x \o y) \o z
  BY <1>7
<1> HIDE DEF x, y, z, f, more, behind
<1>11. CASE y = <<>>
  <2>1. x \o y = x
    BY <1>6, <1>11, ConcatEmptySeq
  <2>2. received' = received
    BY <1>9, <1>10, <2>1
  <2> QED
    BY <1>8, <2>2 DEF Promised!streamVars
<1>12. CASE y # <<>>
  <2> DEFINE n == Len(x \o y)
  <2>1. /\ x \o y \in Seq(Nat) /\ n = Len(x) + Len(y) /\ Len(x) \in Nat
        /\ Len(y) \in Nat \ {0} /\ Len(z) \in Nat
    BY <1>6, <1>12, ConcatProperties, EmptySeq
  <2>2. Len((x \o y) \o z) = n + Len(z)
    BY <1>6, <2>1, ConcatProperties
  <2>3. SubSeq((x \o y) \o z, 1, n) = x \o y
    BY <1>6, <2>1, PrefixOfConcat
  <2>4. received' = [received EXCEPT ![c] = x \o y] /\ promised' = promised
    BY <1>8, <1>9
  <2>5. received'[c] = x \o y
    BY <2>4
  <2>6. Len(received'[c]) > Len(received[c])
    BY <1>10, <2>1, <2>5
  <2>7. n \in 1 .. Len(promised[c])
    BY <1>10, <2>1, <2>2
  <2>8. received' = [received EXCEPT ![c] = SubSeq(promised[c], 1, n)]
    BY <1>10, <2>3, <2>4
  <2> HIDE DEF n
  <2>9. Promised!Receive(c)
    <3>1. UNCHANGED <<sub, OutputIds[live]>>
      OBVIOUS
    <3> QED
      BY <2>4, <2>6, <2>7, <2>8, <3>1 DEF Promised!Receive
  <2> QED
    BY <2>9 DEF Promised!Next
<1> QED
  BY <1>11, <1>12

(* The newest numbers of a run from the first byte are a run to the last.  *)
LEMMA NewestOfRun ==
    ASSUME NEW all, NEW n \in Nat, RunTo(all, n), Len(all) = n,
           NEW ids, RunTo(ids, n)
    PROVE  SubSeq(all, Len(all) - Len(ids) + 1, Len(all)) = ids
<1> DEFINE k == Len(ids)
           newest == SubSeq(all, n - k + 1, n)
<1>1. all \in Seq(Nat) /\ ids \in Seq(Nat) /\ k \in Nat /\ k <= n
  BY DEF RunTo
<1>2. \A i \in 1 .. n : all[i] = i
  BY DEF RunTo
<1>3. \A i \in 1 .. k : ids[i] = n - k + i
  BY DEF RunTo
<1> HIDE DEF k
<1>4. n - k + 1 \in Int /\ n \in Int /\ \A i \in n - k + 1 .. n : i \in 1 .. n /\ all[i] \in Nat
  BY <1>1, <1>2
<1>5. /\ newest \in Seq(Nat)
      /\ Len(newest) = IF n - k + 1 <= n THEN n - (n - k + 1) + 1 ELSE 0
      /\ \A i \in 1 .. n - (n - k + 1) + 1 : newest[i] = all[(n - k + 1) + i - 1]
  BY <1>4, SubSeqProperties
<1> HIDE DEF newest
<1>6. Len(newest) = k
  BY <1>1, <1>5
<1>7. \A i \in 1 .. Len(newest) : newest[i] = ids[i]
  <2> SUFFICES ASSUME NEW i \in 1 .. k PROVE newest[i] = ids[i]
    BY <1>6
  <2>1. i \in 1 .. n - (n - k + 1) + 1 /\ (n - k + 1) + i - 1 = n - k + i /\ n - k + i \in 1 .. n
    BY <1>1
  <2>2. newest[i] = all[n - k + i]
    BY <1>5, <2>1
  <2> QED
    BY <1>2, <1>3, <2>1, <2>2
<1>8. newest = ids
  BY <1>1, <1>5, <1>6, <1>7, SeqEqual DEF k
<1> QED
  BY <1>8 DEF newest, k

(* Every step of the threads is a step of PaneStream, or is not seen.      *)
LEMMA PaneStreamStep ==
    ASSUME OutputInv, StepKind
    PROVE  [Promised!Next]_Promised!streamVars
<1> DEFINE Goal == [Promised!Next]_Promised!streamVars
           stream == OutputIds[live]
           promised == [c \in Conn |-> OutputIds[Flow(c)]]
           received == [c \in Conn |-> OutputIds[got[c]]]
<1>0. /\ TypeInv /\ StreamInv /\ Published \in Nat /\ sub \in Conn \cup {NoConn}
      /\ rd = "have" => chunk.id = Published + 1
      /\ RingOutput /\ RunTo(stream, Published) /\ Len(stream) = Published
  BY PublishedType DEF OutputInv, StreamInv, TypeInv, TypeOK, LiveOutput
<1>1. ASSUME NEW c \in Conn
      PROVE  /\ Flow(c) \in Seq(PaneFrame) /\ live \in Seq(PaneFrame)
             /\ OutputIds[Flow(c)] \in Seq(Nat) /\ OutputIds[live] \in Seq(Nat)
  BY <1>0, FlowFrames
<1>2. live \in Seq(PaneFrame)
  BY <1>0 DEF TypeInv, TypeOK
<1>3. CASE BytePublished
  <2> DEFINE f == BytesFrame("OUTPUT", << OutByte >>)
             b == Len(stream) + 1
  <2>1. /\ FlowsGrow(f) /\ rd = "have" /\ sub' = Served
        /\ live' = Append(live, f) /\ UNCHANGED got
    BY <1>3 DEF BytePublished, FlowsGrow
  <2>2. OutByte \in Byte /\ FromTerminal(OutByte) /\ OutByte.id = b
    BY <1>0, <2>1, PushedBytes DEF FromTerminal
  <2>3. f \in PaneFrame
    <3>1. << OutByte >> \in Seq(Byte)
      BY <2>2
    <3> QED
      BY <3>1 DEF BytesFrame, PaneFrame, Frame
  <2>4. OutputIds[live'] = Append(OutputIds[live], b)
    BY <1>2, <2>1, <2>2, IdsAppendOutput
  <2>5. ASSUME NEW c \in Conn
        PROVE  OutputIds[Flow(c)'] = IF c = Served THEN Append(OutputIds[Flow(c)], b)
                                                   ELSE OutputIds[Flow(c)]
    <3>1. /\ Served = c => Flow(c)' = Append(Flow(c), f)
          /\ Served # c => Flow(c)' = Flow(c)
      BY <1>0, <2>1, <2>3, GrowsOneFlow
    <3>2. OutputIds[Append(Flow(c), f)] = Append(OutputIds[Flow(c)], b)
      BY <1>1, <2>2, IdsAppendOutput
    <3> QED
      BY <3>1, <3>2
  <2>6. received' = received
    BY <2>1
  <2>7. Served \in {sub, NoConn}
    BY DEF Served
  <2>8. CASE Served = sub
    <3>1. promised' = [v \in Conn |-> IF v = sub THEN Append(promised[v], b)
                                                 ELSE promised[v]]
      BY <2>5, <2>8
    <3>2. UNCHANGED sub
      BY <2>1, <2>8
    <3> HIDE DEF b
    <3>3. Promised!Emit
      BY <2>4, <2>6, <3>1, <3>2 DEF Promised!Emit, b
    <3> QED
      BY <3>3 DEF Promised!Next
  <2>9. CASE Served # sub
    <3>1. sub' = NoConn /\ \A c \in Conn : c # Served
      BY <2>1, <2>7, <2>9, PaneAssumption
    <3>2. promised' = promised
      BY <2>5, <3>1
    <3>3. Promised!EmitAlone
      BY <2>4, <2>6, <3>1, <3>2 DEF Promised!EmitAlone
    <3> QED
      BY <3>3 DEF Promised!Next
  <2> QED
    BY <2>8, <2>9
<1>4. ASSUME NEW f \in PaneFrame, f.bytes = <<>>, FlowsGrow(f), sub' \in {sub, Served}
      PROVE  Goal
  <2>1. OutputIds[live'] = OutputIds[live] /\ UNCHANGED got
    BY <1>2, <1>4, IdsAppendBare DEF FlowsGrow
  <2>2. ASSUME NEW c \in Conn PROVE OutputIds[Flow(c)'] = OutputIds[Flow(c)]
    <3>1. /\ Served = c => Flow(c)' = Append(Flow(c), f)
          /\ Served # c => Flow(c)' = Flow(c)
      BY <1>0, <1>4, GrowsOneFlow
    <3>2. OutputIds[Append(Flow(c), f)] = OutputIds[Flow(c)]
      BY <1>1, <1>4, IdsAppendBare
    <3> QED
      BY <3>1, <3>2
  <2>3. sub' \in {sub, NoConn}
    BY <1>4 DEF Served
  <2> QED
    BY <2>1, <2>2, <2>3, NumbersKept
<1>5. ASSUME NEW s \in Size, SizePublished(s) PROVE Goal
  BY <1>4, <1>5, BareFrames DEF SizePublished
<1>6. CASE ExitPublished
  BY <1>4, <1>6, BareFrames DEF ExitPublished
<1>7. ASSUME NEW n \in Nat, InputRung(n) PROVE Goal
  BY <1>7, NumbersKept DEF InputRung, FlowsKept
<1>8. CASE Unnoticed
  <2>1. CASE UNCHANGED got /\ sub' \in {sub, NoConn}
    BY <1>8, <2>1, NumbersKept DEF Unnoticed, FlowsKept
  <2>2. ASSUME UNCHANGED sub, NEW c \in Conn, Reads(c) PROVE Goal
    BY <1>0, <1>8, <2>2, ReadReceives DEF Unnoticed, FlowsKept
  <2> QED
    BY <1>8, <2>1, <2>2 DEF Unnoticed
<1>9. ASSUME NEW c \in Conn, Attaches(c) PROVE Goal
  <2> DEFINE ids == OutputIds[Opening]
             n == Len(ids)
  <2>1. /\ UNCHANGED <<live, got>> /\ sub' = c /\ Flow(c) = <<>> /\ got[c] = <<>>
        /\ Flow(c)' = Opening /\ \A d \in Conn \ {c} : Flow(d)' = Flow(d)
    BY <1>9 DEF Attaches
  <2>2. ids = IF Replay THEN OutputNumbers[RingBytes(ring)] ELSE <<>>
    BY <1>0, OpeningBytes
  <2>3. RunTo(ids, Published)
    BY <1>0, <2>2, RunEmpty DEF RingOutput
  <2>4. n <= RingCap
    <3>1. RingBytes(ring) \in Seq(Byte) /\ Len(RingBytes(ring)) <= RingCap
          /\ Len(RingBytes(ring)) \in Nat
      <4>1. RingBytes(ring) \in Seq(Byte)
        BY <1>0, RingBytesType DEF TypeInv, RingOK, Ring
      <4>2. Len(RingBytes(ring)) <= RingCap
        BY <1>0 DEF RingOutput, RingExact
      <4> QED
        BY <4>1, <4>2
    <3>2. Len(OutputNumbers[RingBytes(ring)]) <= Len(RingBytes(ring))
          /\ Len(OutputNumbers[RingBytes(ring)]) \in Nat
      BY <3>1, NumbersCount, NumbersInType
    <3>3. Len(<<>>) = 0
      BY EmptySeq
    <3> HIDE DEF ids
    <3>4. CASE Replay
      <4>1. n = Len(OutputNumbers[RingBytes(ring)])
        BY <2>2, <3>4
      <4> QED
        BY <3>1, <3>2, <4>1, RingAssumption
    <3>5. CASE ~Replay
      BY <2>2, <3>3, <3>5, RingAssumption
    <3> QED
      BY <3>4, <3>5
  <2> HIDE DEF ids
  <2>5. n \in 0 .. Len(stream)
    BY <1>0, <2>3 DEF RunTo
  <2>6. SubSeq(stream, Len(stream) - n + 1, Len(stream)) = ids
    <3> HIDE DEF stream
    <3> QED
      BY <1>0, <2>3, NewestOfRun
  <2>7. promised' = [promised EXCEPT ![c] = ids]
    <3>1. \A d \in Conn : OutputIds[Flow(d)'] = IF d = c THEN ids ELSE OutputIds[Flow(d)]
      BY <2>1 DEF ids
    <3> QED
      BY <3>1
  <2>8. promised[c] = <<>> /\ received[c] = <<>> /\ received' = received /\ stream' = stream
    BY <2>1, IdsNone
  <2> HIDE DEF n
  <2>9. Promised!Attach(c)
    BY <2>1, <2>4, <2>5, <2>6, <2>7, <2>8 DEF Promised!Attach, Promised!Newest, n
  <2> QED
    BY <2>9 DEF Promised!Next
<1> QED
  BY <1>3, <1>5, <1>6, <1>7, <1>8, <1>9 DEF StepKind, OtherKind

(* The pane with its threads, lock, channels and sockets implements        *)
(* PaneStream, for every number of connections and every ring: what a      *)
(* viewer is promised at its attach is the newest part of the terminal's   *)
(* output, what comes later follows it byte for byte until it is released, *)
(* and what it has received is a prefix of that.                           *)
THEOREM PaneKeepsItsPromise == Spec => ImplementsPaneStream
<1>1. Init => Promised!Init
  <2> SUFFICES ASSUME Init PROVE Promised!Init
    OBVIOUS
  <2>1. sub = NoConn /\ live = <<>> /\ \A c \in Conn : got[c] = <<>>
    BY DEF Init
  <2>2. \A c \in Conn : Flow(c) = <<>>
    BY ConcatEmptySeq DEF Init, Flow
  <2> QED
    BY <2>1, <2>2, IdsNone DEF Promised!Init
<1>2. OutputInv /\ StreamInv' /\ [Next]_vars => [Promised!Next]_Promised!streamVars
  <2> SUFFICES ASSUME OutputInv, StreamInv', [Next]_vars
               PROVE  [Promised!Next]_Promised!streamVars
    OBVIOUS
  <2>1. StepKind
    BY StepKinds DEF OutputInv, ReaderHand
  <2> QED
    BY <2>1, PaneStreamStep
<1> QED
  BY <1>1, <1>2, OutputInvariant, StreamInvariant, PTL
     DEF Spec, ImplementsPaneStream, Promised!Spec

-----------------------------------------------------------------------------
(* The paste mode a client's terminal is left in.                          *)
(*                                                                         *)
(* Of a stretch of bytes only the last switch counts.  A ring that forgot  *)
(* the switch that set the mode shows none, so what is inductive is one    *)
(* direction: while the mode is off, the ring's last switch is not on.     *)

(* A further byte is the last switch, or leaves it where it was. *)
LEMMA SwitchAppend ==
    ASSUME NEW s \in Seq(Byte), NEW b \in Byte
    PROVE  LastSwitchIsOn(Append(s, b)) <=>
               \/ b.text = "pasteOn"
               \/ b.text = "plain" /\ LastSwitchIsOn(s)
<1> DEFINE a == Append(s, b)
           n == Len(s)
<1>1. n \in Nat /\ Len(a) = n + 1 /\ a[n + 1] = b /\ \A i \in 1 .. n : a[i] = s[i]
  BY AppendProperties
<1>2. b.text \in {"plain", "pasteOn", "pasteOff"}
  BY DEF Byte
<1> HIDE DEF a, n
<1>3. ASSUME b.text = "pasteOn" PROVE LastSwitchIsOn(a)
  <2>1. n + 1 \in 1 .. Len(a) /\ a[n + 1].text = "pasteOn"
        /\ \A j \in n + 1 + 1 .. Len(a) : a[j].text = "plain"
    BY <1>1, <1>3
  <2> QED
    BY <2>1 DEF LastSwitchIsOn
<1>4. ASSUME b.text = "plain", LastSwitchIsOn(s) PROVE LastSwitchIsOn(a)
  <2>1. PICK i \in 1 .. n : s[i].text = "pasteOn" /\ \A j \in i + 1 .. n : s[j].text = "plain"
    BY <1>4 DEF LastSwitchIsOn, n
  <2>2. \A j \in i + 1 .. Len(a) : a[j].text = "plain"
    <3> SUFFICES ASSUME NEW j \in i + 1 .. Len(a) PROVE a[j].text = "plain"
      OBVIOUS
    <3>1. CASE j = n + 1
      BY <1>1, <1>4, <3>1
    <3>2. CASE j # n + 1
      <4>1. j \in i + 1 .. n /\ j \in 1 .. n
        BY <1>1, <3>2
      <4> QED
        BY <1>1, <2>1, <4>1
    <3> QED
      BY <3>1, <3>2
  <2>3. i \in 1 .. Len(a) /\ a[i].text = "pasteOn"
    BY <1>1, <2>1
  <2> QED
    BY <2>2, <2>3 DEF LastSwitchIsOn
<1>5. ASSUME LastSwitchIsOn(a), b.text # "pasteOn"
      PROVE  b.text = "plain" /\ LastSwitchIsOn(s)
  <2>1. PICK i \in 1 .. Len(a) :
            a[i].text = "pasteOn" /\ \A j \in i + 1 .. Len(a) : a[j].text = "plain"
    BY <1>5 DEF LastSwitchIsOn
  <2>2. i \in 1 .. n
    BY <1>1, <1>5, <2>1
  <2>3. n + 1 \in i + 1 .. Len(a)
    BY <1>1, <2>2
  <2>4. b.text = "plain"
    BY <1>1, <2>1, <2>3
  <2>5. s[i].text = "pasteOn"
    BY <1>1, <2>1, <2>2
  <2>6. \A j \in i + 1 .. n : s[j].text = "plain"
    <3> SUFFICES ASSUME NEW j \in i + 1 .. n PROVE s[j].text = "plain"
      OBVIOUS
    <3>1. j \in i + 1 .. Len(a) /\ j \in 1 .. n
      BY <1>1, <2>2
    <3> QED
      BY <1>1, <2>1, <3>1
  <2> QED
    BY <2>2, <2>4, <2>5, <2>6 DEF LastSwitchIsOn, n
<1> QED
  BY <1>3, <1>4, <1>5 DEF a

(* A switch that is left is the last one of more bytes too. *)
LEMMA SwitchTail ==
    ASSUME NEW s \in Seq(Byte), s # <<>>, LastSwitchIsOn(Tail(s))
    PROVE  LastSwitchIsOn(s)
<1> DEFINE t == Tail(s)
<1>1. /\ Len(s) \in Nat \ {0} /\ Len(t) = Len(s) - 1
      /\ \A i \in 1 .. Len(t) : t[i] = s[i + 1]
  BY HeadTailProperties, EmptySeq
<1>2. PICK i \in 1 .. Len(t) :
          t[i].text = "pasteOn" /\ \A j \in i + 1 .. Len(t) : t[j].text = "plain"
  BY DEF LastSwitchIsOn
<1> HIDE DEF t
<1>3. i + 1 \in 1 .. Len(s) /\ s[i + 1].text = "pasteOn"
  BY <1>1, <1>2
<1>4. \A j \in i + 1 + 1 .. Len(s) : s[j].text = "plain"
  <2> SUFFICES ASSUME NEW j \in i + 1 + 1 .. Len(s) PROVE s[j].text = "plain"
    OBVIOUS
  <2>1. j - 1 \in i + 1 .. Len(t) /\ j - 1 \in 1 .. Len(t) /\ j - 1 + 1 = j
    BY <1>1, <1>2
  <2>2. t[j - 1].text = "plain" /\ t[j - 1] = s[j - 1 + 1]
    BY <1>1, <1>2, <2>1
  <2> QED
    BY <2>1, <2>2
<1> QED
  BY <1>3, <1>4 DEF LastSwitchIsOn

(* No bytes, no switch. *)
LEMMA SwitchNone == ~LastSwitchIsOn(<<>>)
<1>1. Len(<<>>) = 0
  BY EmptySeq
<1> QED
  BY <1>1 DEF LastSwitchIsOn

ShownMode(c) == LastSwitchIsOn(BytesOf(Flow(c))) <=> paste
RingMode == Replay /\ ~paste => ~LastSwitchIsOn(RingBytes(ring))

PasteInv ==
    /\ OutputInv
    /\ \A c \in Conn : sub = c => ShownMode(c)
    /\ RingMode

(* A pushed byte that does not switch the mode on leaves no such switch. *)
LEMMA PushMode ==
    ASSUME NEW r, RingOK(r, Byte), RingExact(r), NEW b \in Byte,
           ~LastSwitchIsOn(Append(RingBytes(r), b))
    PROVE  ~LastSwitchIsOn(RingBytes(RingPush(r, b)))
<1> DEFINE all == Append(RingBytes(r), b)
<1>1. RingBytes(RingPush(r, b)) = IF r.len < RingCap THEN all ELSE Tail(all)
  BY PushBytes
<1>2. RingBytes(r) \in Seq(Byte)
  BY RingBytesType DEF RingOK, Ring
<1>3. all \in Seq(Byte) /\ all # <<>>
  BY <1>2, AppendProperties, EmptySeq
<1>4. ~LastSwitchIsOn(all)
  OBVIOUS
<1> HIDE DEF all
<1> QED
  BY <1>1, <1>3, <1>4, SwitchTail

(* The ring keeps its half. *)
LEMMA RingModeStep ==
    ASSUME PasteInv, StepKind
    PROVE  RingMode'
<1>1. /\ TypeInv /\ RingOK(ring, Byte) /\ RingExact(ring) /\ RingMode
  BY DEF PasteInv, OutputInv, StreamInv, TypeInv, RingOutput
<1>2. RingBytes(ring) \in Seq(Byte)
  BY <1>1, RingBytesType DEF RingOK, Ring
<1>3. CASE UNCHANGED <<ring, paste>>
  BY <1>1, <1>3 DEF RingMode, RingBytes, BytesIn
<1>4. CASE BytePublished
  <2>1. /\ ring' = IF Replay THEN RingPush(ring, OutByte) ELSE ring
        /\ paste' = CASE chunk.text = "pasteOn" -> TRUE
                      [] chunk.text = "pasteOff" -> FALSE
                      [] OTHER -> paste
    BY <1>4 DEF BytePublished
  <2>2. OutByte \in Byte /\ OutByte.text = chunk.text
    BY <1>1, PushedBytes
  <2>3. chunk.text \in {"plain", "pasteOn", "pasteOff"}
    BY <1>1 DEF TypeInv, TypeOK, Chunk
  <2>4. ASSUME Replay, ~paste' PROVE ~LastSwitchIsOn(RingBytes(ring)')
    <3>1. chunk.text = "pasteOff" \/ (chunk.text = "plain" /\ ~paste)
      BY <2>1, <2>3, <2>4
    <3>2. ~LastSwitchIsOn(Append(RingBytes(ring), OutByte))
      BY <1>1, <1>2, <2>2, <2>4, <3>1, SwitchAppend DEF RingMode
    <3>3. ~LastSwitchIsOn(RingBytes(RingPush(ring, OutByte)))
      <4> DEFINE b == OutByte
      <4>1. b \in Byte /\ ~LastSwitchIsOn(Append(RingBytes(ring), b))
        BY <2>2, <3>2
      <4> HIDE DEF b
      <4>2. ~LastSwitchIsOn(RingBytes(RingPush(ring, b)))
        BY <1>1, <4>1, PushMode
      <4> QED
        BY <4>2 DEF b
    <3>4. RingBytes(ring)' = RingBytes(RingPush(ring, OutByte))
      BY <2>1, <2>4 DEF RingBytes, BytesIn
    <3> QED
      BY <3>3, <3>4
  <2> QED
    BY <2>4 DEF RingMode
<1>5. ASSUME NEW s \in Size, SizePublished(s) PROVE RingMode'
  <2>1. ring' = RingResize(ring, s) /\ UNCHANGED paste
    BY <1>5 DEF SizePublished
  <2>2. RingBytes(RingResize(ring, s)) = RingBytes(ring)
    BY <1>1, ResizeBytes
  <2>3. RingBytes(ring)' = RingBytes(RingResize(ring, s))
    BY <2>1 DEF RingBytes, BytesIn
  <2> QED
    BY <1>1, <2>1, <2>2, <2>3 DEF RingMode
<1>6. ASSUME NEW n \in Nat, InputRung(n) PROVE RingMode'
  <2> DEFINE b == InByte(n)
  <2>1. ring' = RingPush(ring, b) /\ UNCHANGED paste
    BY <1>6 DEF InputRung
  <2>2. b \in Byte /\ b.text = "plain"
    BY <1>1, PushedBytes DEF InByte
  <2>3. RingBytes(ring)' = RingBytes(RingPush(ring, b))
    BY <2>1 DEF RingBytes, BytesIn
  <2> HIDE DEF b
  <2>4. ASSUME Replay, ~paste PROVE ~LastSwitchIsOn(RingBytes(RingPush(ring, b)))
    <3>1. ~LastSwitchIsOn(Append(RingBytes(ring), b))
      BY <1>1, <1>2, <2>2, <2>4, SwitchAppend DEF RingMode
    <3> QED
      BY <1>1, <2>2, <3>1, PushMode
  <2> QED
    BY <2>1, <2>3, <2>4 DEF RingMode
<1>7. CASE Unnoticed \/ ExitPublished \/ \E c \in Conn : Attaches(c)
  <2>1. UNCHANGED <<ring, paste>>
    BY <1>7 DEF Unnoticed, ExitPublished, Attaches
  <2> QED
    BY <1>3, <2>1
<1> QED
  BY <1>4, <1>5, <1>6, <1>7 DEF StepKind, OtherKind

(* A frame with one byte shows the mode that byte leaves; a frame without  *)
(* bytes changes nothing.                                                  *)
LEMMA ShownAppend ==
    ASSUME NEW frames \in Seq(PaneFrame), NEW f \in PaneFrame
    PROVE  /\ f.bytes = <<>> =>
                 (LastSwitchIsOn(BytesOf(Append(frames, f))) <=> LastSwitchIsOn(BytesOf(frames)))
           /\ \A b \in Byte : f.bytes = << b >> =>
                 (LastSwitchIsOn(BytesOf(Append(frames, f))) <=>
                     \/ b.text = "pasteOn"
                     \/ b.text = "plain" /\ LastSwitchIsOn(BytesOf(frames)))
<1> DEFINE bytes == BytesOf(frames)
<1>1. bytes \in Seq(Byte) /\ BytesOf(Append(frames, f)) = bytes \o f.bytes
  BY BytesOfType, BytesOfAppend
<1> HIDE DEF bytes
<1>2. bytes \o <<>> = bytes
  BY <1>1, ConcatEmptySeq
<1>3. \A b \in Byte : bytes \o << b >> = Append(bytes, b)
  BY <1>1, AppendIsConcat
<1>4. ASSUME f.bytes = <<>> PROVE BytesOf(Append(frames, f)) = bytes
  BY <1>1, <1>2, <1>4
<1>5. ASSUME NEW b \in Byte, f.bytes = << b >>
      PROVE  LastSwitchIsOn(BytesOf(Append(frames, f))) <=>
                 \/ b.text = "pasteOn"
                 \/ b.text = "plain" /\ LastSwitchIsOn(bytes)
  <2>1. BytesOf(Append(frames, f)) = Append(bytes, b)
    BY <1>1, <1>3, <1>5
  <2> QED
    BY <1>1, <2>1, SwitchAppend
<1> QED
  BY <1>4, <1>5, Zenon DEF bytes

(* So does every client's stream. *)
LEMMA ShownModeStep ==
    ASSUME PasteInv, StepKind, NEW c \in Conn, sub' = c
    PROVE  ShownMode(c)'
<1>1. /\ TypeInv /\ paste \in BOOLEAN /\ RingMode /\ Flow(c) \in Seq(PaneFrame)
      /\ sub = c => ShownMode(c)
      /\ RingBytes(ring) \in Seq(Byte)
  <2>1. TypeInv /\ RingMode /\ RingOK(ring, Byte) /\ (sub = c => ShownMode(c))
    BY DEF PasteInv, OutputInv, StreamInv, TypeInv
  <2>2. RingBytes(ring) \in Seq(Byte)
    BY <2>1, RingBytesType DEF RingOK, Ring
  <2> QED
    BY <2>1, <2>2, FlowFrames DEF TypeInv, TypeOK
<1>2. c # NoConn
  BY PaneAssumption
<1>3. ASSUME sub = c, Flow(c)' = Flow(c), UNCHANGED paste PROVE ShownMode(c)'
  BY <1>1, <1>3 DEF ShownMode
<1>4. ASSUME NEW f \in PaneFrame, FlowsGrow(f), sub' = Served
      PROVE  sub = c /\ Flow(c)' = Append(Flow(c), f)
  BY <1>1, <1>4, GrowsOneFlow
<1>5. ASSUME NEW f \in PaneFrame, f.bytes = <<>>, FlowsGrow(f), sub' \in {sub, Served}, UNCHANGED paste
      PROVE  ShownMode(c)'
  <2>1. /\ Served = c => sub = c /\ Flow(c)' = Append(Flow(c), f)
        /\ Served # c => Flow(c)' = Flow(c)
    BY <1>1, <1>5, GrowsOneFlow
  <2>2. sub = c
    BY <1>5, <2>1
  <2>3. CASE Served = c
    BY <1>1, <1>5, <2>1, <2>2, <2>3, ShownAppend DEF ShownMode
  <2>4. CASE Served # c
    BY <1>3, <1>5, <2>1, <2>2, <2>4
  <2> QED
    BY <2>3, <2>4
<1>6. CASE BytePublished
  <2> DEFINE f == BytesFrame("OUTPUT", << OutByte >>)
  <2>1. /\ FlowsGrow(f) /\ sub' = Served
        /\ paste' = CASE chunk.text = "pasteOn" -> TRUE
                      [] chunk.text = "pasteOff" -> FALSE
                      [] OTHER -> paste
    BY <1>6 DEF BytePublished
  <2>2. OutByte \in Byte /\ OutByte.text = chunk.text
    BY <1>1, PushedBytes
  <2>3. f \in PaneFrame /\ f.bytes = << OutByte >>
    <3>1. << OutByte >> \in Seq(Byte)
      BY <2>2
    <3> QED
      BY <3>1 DEF BytesFrame, PaneFrame, Frame
  <2>4. chunk.text \in {"plain", "pasteOn", "pasteOff"}
    BY <1>1 DEF TypeInv, TypeOK, Chunk
  <2> HIDE DEF f
  <2>5. sub = c /\ Flow(c)' = Append(Flow(c), f)
    BY <1>4, <2>1, <2>3
  <2>6. LastSwitchIsOn(BytesOf(Append(Flow(c), f))) <=>
            \/ chunk.text = "pasteOn"
            \/ chunk.text = "plain" /\ LastSwitchIsOn(BytesOf(Flow(c)))
    BY <1>1, <2>2, <2>3, ShownAppend
  <2>7. LastSwitchIsOn(BytesOf(Flow(c))) <=> paste
    BY <1>1, <2>5 DEF ShownMode
  <2>8. paste' <=> \/ chunk.text = "pasteOn"
                   \/ chunk.text = "plain" /\ paste
    BY <1>1, <2>1, <2>4
  <2>9. LastSwitchIsOn(BytesOf(Flow(c)))' <=> LastSwitchIsOn(BytesOf(Append(Flow(c), f)))
    BY <2>5
  <2> QED
    BY <2>6, <2>7, <2>8, <2>9 DEF ShownMode
<1>7. ASSUME NEW s \in Size, SizePublished(s) PROVE ShownMode(c)'
  BY <1>5, <1>7, BareFrames DEF SizePublished
<1>8. CASE ExitPublished
  BY <1>5, <1>8, BareFrames DEF ExitPublished
<1>9. CASE Unnoticed \/ (\E n \in Nat : InputRung(n))
  <2>1. FlowsKept /\ sub' \in {sub, NoConn} /\ UNCHANGED paste
    BY <1>9 DEF Unnoticed, InputRung
  <2>2. sub = c /\ Flow(c)' = Flow(c)
    BY <1>2, <2>1 DEF FlowsKept
  <2> QED
    BY <1>3, <2>1, <2>2
<1>10. ASSUME NEW d \in Conn, Attaches(d) PROVE ShownMode(c)'
  <2> DEFINE ringed == IF Replay THEN RingBytes(ring) ELSE <<>>
  <2>1. sub' = d /\ Flow(d)' = Opening /\ UNCHANGED paste
    BY <1>10 DEF Attaches
  <2>2. BytesOf(Opening) = ringed \o (IF paste THEN << PasteOnByte >> ELSE <<>>)
    BY <1>1, OpeningBytes
  <2>3. ringed \in Seq(Byte) /\ (~paste => ~LastSwitchIsOn(ringed))
    BY <1>1, EmptySeq, SwitchNone DEF RingMode
  <2> HIDE DEF ringed
  <2>4. PasteOnByte \in Byte /\ PasteOnByte.text = "pasteOn"
    BY <1>1, PushedBytes DEF PasteOnByte
  <2>5. LastSwitchIsOn(BytesOf(Opening)) <=> paste
    <3>1. CASE paste
      <4>1. BytesOf(Opening) = Append(ringed, PasteOnByte)
        BY <2>2, <2>3, <2>4, <3>1, AppendIsConcat
      <4> QED
        BY <2>3, <2>4, <3>1, <4>1, SwitchAppend
    <3>2. CASE ~paste
      <4>1. BytesOf(Opening) = ringed
        BY <2>2, <2>3, <3>2, ConcatEmptySeq
      <4> QED
        BY <2>3, <3>2, <4>1
    <3> QED
      BY <3>1, <3>2
  <2>6. Flow(c)' = Opening
    BY <2>1
  <2>7. LastSwitchIsOn(BytesOf(Flow(c)))' <=> LastSwitchIsOn(BytesOf(Opening))
    BY <2>6
  <2> QED
    BY <2>1, <2>5, <2>7 DEF ShownMode
<1> QED
  BY <1>6, <1>7, <1>8, <1>9, <1>10 DEF StepKind, OtherKind

(* PasteInv is inductive. *)
LEMMA PasteInvariant == Spec => []PasteInv
<1>1. Init => PasteInv
  <2> SUFFICES ASSUME Init PROVE PasteInv
    OBVIOUS
  <2>1. OutputInv
    BY OutputInit
  <2>2. RingBytes(ring) = <<>> /\ sub = NoConn
    BY NewBytes, PaneAssumption DEF Init
  <2> QED
    BY <2>1, <2>2, SwitchNone, PaneAssumption DEF PasteInv, RingMode
<1>2. PasteInv /\ OutputInv' /\ [Next]_vars => PasteInv'
  <2> SUFFICES ASSUME PasteInv, OutputInv', [Next]_vars PROVE PasteInv'
    OBVIOUS
  <2>1. StepKind
    BY StepKinds DEF PasteInv, OutputInv, ReaderHand
  <2>2. RingMode'
    BY <2>1, RingModeStep
  <2>3. \A c \in Conn : sub' = c => ShownMode(c)'
    BY <2>1, ShownModeStep
  <2> QED
    BY <2>2, <2>3 DEF PasteInv
<1> QED
  BY <1>1, <1>2, OutputInvariant, PTL DEF Spec

(* A client that is subscribed and has read its stream is in the paste     *)
(* mode the daemon tracked, after any rotation of the ring and any number  *)
(* of takeovers (the switch that attach adds, and feed).                   *)
THEOREM PasteModeSurvives == Spec => []PasteModeRestored
<1>1. PasteInv => PasteModeRestored
  <2> SUFFICES ASSUME PasteInv, NEW c \in Conn, sub = c
               PROVE  LastSwitchIsOn(BytesOf(Flow(c))) = paste
    BY DEF PasteModeRestored
  <2>1. LastSwitchIsOn(BytesOf(Flow(c))) <=> paste
    BY DEF PasteInv, ShownMode
  <2>2. paste \in BOOLEAN
    BY DEF PasteInv, OutputInv, StreamInv, TypeInv, TypeOK
  <2>3. LastSwitchIsOn(BytesOf(Flow(c))) \in BOOLEAN
    BY DEF LastSwitchIsOn
  <2> QED
    BY <2>1, <2>2, <2>3
<1> QED
  BY <1>1, PasteInvariant, PTL

-----------------------------------------------------------------------------
(* The geometry of the ring's bytes.                                       *)
(*                                                                         *)
(* Every byte is in a segment of the geometry it was appended under,       *)
(* except for bytes that resize merged into the oldest of MAX_RING_SEGMENTS *)
(* segments; the newest byte there is of that segment's geometry.          *)
SegmentsKeep(segs) ==
    \A i \in 1 .. Len(segs) : \A j \in 1 .. Len(segs[i].bytes) :
        i > 1 \/ j = Len(segs[i].bytes) \/ Len(segs) < MaxSegments
            => segs[i].bytes[j].geo = segs[i].size

(* A segment of a sequence of segments. *)
LEMMA SegmentFields ==
    ASSUME NEW segs \in Seq(Segment(Byte)), NEW i \in 1 .. Len(segs)
    PROVE  segs[i] \in Segment(Byte) /\ segs[i].bytes \in Seq(Byte) /\ segs[i].size \in Size
<1>1. segs[i] \in Segment(Byte)
  OBVIOUS
<1> QED
  BY <1>1 DEF Segment

(* A byte of the newest segment's geometry joins it. *)
LEMMA GrownKeeps ==
    ASSUME NEW segs \in Seq(Segment(Byte)), segs # <<>>, SegmentsKeep(segs),
           NEW b \in Byte, b.geo = segs[Len(segs)].size,
           NEW grown, grown = [segs EXCEPT ![Len(segs)] = WithBytes(@, Append(@.bytes, b))]
    PROVE  /\ SegmentsKeep(grown) /\ Len(grown) = Len(segs)
           /\ grown[Len(segs)].size = segs[Len(segs)].size
           /\ grown[Len(segs)].bytes # <<>>
           /\ \A i \in 1 .. Len(segs) - 1 : grown[i] = segs[i]
<1> DEFINE n == Len(segs)
           last == segs[n]
           more == Append(last.bytes, b)
<1>1. n \in Nat \ {0} /\ last.bytes \in Seq(Byte)
  <2>1. n \in Nat \ {0}
    BY EmptySeq
  <2> QED
    BY <2>1, SegmentFields
<1>2. /\ more # <<>> /\ Len(more) = Len(last.bytes) + 1 /\ more[Len(last.bytes) + 1] = b
      /\ \A j \in 1 .. Len(last.bytes) : more[j] = last.bytes[j]
  BY <1>1, AppendProperties, EmptySeq
<1>3. Len(grown) = n /\ grown[n] = WithBytes(last, more)
      /\ \A i \in 1 .. n - 1 : grown[i] = segs[i]
  BY <1>1
<1>4. grown[n].size = last.size /\ grown[n].bytes = more
  BY <1>3 DEF WithBytes
<1>5. \A i \in 1 .. n : \A j \in 1 .. Len(segs[i].bytes) :
          i > 1 \/ j = Len(segs[i].bytes) \/ n < MaxSegments => segs[i].bytes[j].geo = segs[i].size
  BY DEF SegmentsKeep
<1>6. b.geo = last.size
  OBVIOUS
<1>7. \A j \in 1 .. Len(last.bytes) : last.bytes[j].geo = last.size
  <2>1. n > 1 \/ n < MaxSegments
    BY <1>1, RingAssumption
  <2>2. n \in 1 .. n
    BY <1>1
  <2> QED
    BY <1>5, <2>1, <2>2
<1> HIDE DEF n, last, more
<1>8. \A j \in 1 .. Len(more) : more[j].geo = last.size
  <2> SUFFICES ASSUME NEW j \in 1 .. Len(more) PROVE more[j].geo = last.size
    OBVIOUS
  <2>1. Len(last.bytes) \in Nat
    BY <1>1
  <2>2. CASE j = Len(last.bytes) + 1
    BY <1>2, <1>6, <2>2
  <2>3. CASE j # Len(last.bytes) + 1
    <3>1. j \in 1 .. Len(last.bytes)
      BY <1>2, <2>1, <2>3
    <3> QED
      BY <1>2, <1>7, <3>1
  <2> QED
    BY <2>2, <2>3
<1>9. ASSUME NEW i \in 1 .. Len(grown), NEW j \in 1 .. Len(grown[i].bytes),
             i > 1 \/ j = Len(grown[i].bytes) \/ Len(grown) < MaxSegments
      PROVE  grown[i].bytes[j].geo = grown[i].size
  <2>1. CASE i = n
    BY <1>4, <1>8, <1>9, <2>1
  <2>2. CASE i # n
    <3>1. i \in 1 .. n - 1 /\ i \in 1 .. n
      BY <1>1, <1>3, <2>2
    <3>2. grown[i] = segs[i]
      BY <1>3, <3>1
    <3> QED
      BY <1>3, <1>5, <1>9, <3>1, <3>2
  <2> QED
    BY <2>1, <2>2
<1> QED
  BY <1>2, <1>3, <1>4, <1>9 DEF SegmentsKeep, n, last

(* The drain takes a segment's oldest byte, or the whole oldest segment.   *)
LEMMA DrainOneKeeps ==
    ASSUME NEW segs \in Seq(Segment(Byte)), segs # <<>>, SegmentsKeep(segs),
           \A i \in 1 .. Len(segs) : segs[i].bytes # <<>>
    PROVE  /\ SegmentsKeep(DrainOne(segs))
           /\ DrainOne(segs)[Len(DrainOne(segs))].size = segs[Len(segs)].size
<1> DEFINE n == Len(segs)
           first == segs[1].bytes
           rest == Tail(first)
           out == DrainOne(segs)
<1>1. n \in Nat \ {0} /\ 1 \in 1 .. n /\ n \in 1 .. n
  BY EmptySeq
<1>2. first \in Seq(Byte) /\ first # <<>>
  BY <1>1, SegmentFields
<1>3. /\ rest \in Seq(Byte) /\ Len(rest) = Len(first) - 1 /\ Len(first) \in Nat \ {0}
      /\ \A j \in 1 .. Len(rest) : rest[j] = first[j + 1]
  BY <1>2, HeadTailProperties, EmptySeq
<1>4. \A i \in 1 .. n : \A j \in 1 .. Len(segs[i].bytes) :
          i > 1 \/ j = Len(segs[i].bytes) \/ n < MaxSegments => segs[i].bytes[j].geo = segs[i].size
  BY DEF SegmentsKeep
<1>5. CASE rest = <<>> /\ n > 1
  <2>1. out = Tail(segs)
    BY <1>5 DEF DrainOne
  <2>2. Len(out) = n - 1 /\ \A i \in 1 .. n - 1 : out[i] = segs[i + 1]
    BY <2>1, HeadTailProperties
  <2> HIDE DEF n, out
  <2>3. ASSUME NEW i \in 1 .. Len(out), NEW j \in 1 .. Len(out[i].bytes)
        PROVE  out[i].bytes[j].geo = out[i].size
    <3>1. i \in 1 .. n - 1 /\ i + 1 \in 1 .. n /\ i + 1 > 1
      BY <1>1, <2>2
    <3>2. out[i] = segs[i + 1]
      BY <2>2, <3>1
    <3>3. j \in 1 .. Len(segs[i + 1].bytes)
      BY <3>2
    <3> QED
      BY <1>4, <3>1, <3>2, <3>3
  <2>4. out[Len(out)].size = segs[n].size
    <3>1. n - 1 \in 1 .. n - 1 /\ n - 1 + 1 = n
      BY <1>1, <1>5
    <3> QED
      BY <2>2, <3>1
  <2> QED
    BY <2>3, <2>4 DEF SegmentsKeep, n, out
<1>6. CASE ~(rest = <<>> /\ n > 1)
  <2>1. out = [segs EXCEPT ![1] = WithBytes(@, rest)]
    BY <1>6 DEF DrainOne
  <2>2. /\ Len(out) = n /\ out[1] = WithBytes(segs[1], rest)
        /\ \A i \in 2 .. n : out[i] = segs[i]
    BY <1>1, <2>1
  <2>3. out[1].size = segs[1].size /\ out[1].bytes = rest
    BY <2>2 DEF WithBytes
  <2>5. first = segs[1].bytes
    OBVIOUS
  <2> HIDE DEF n, out, rest, first
  <2>4. ASSUME NEW i \in 1 .. Len(out), NEW j \in 1 .. Len(out[i].bytes),
               i > 1 \/ j = Len(out[i].bytes) \/ Len(out) < MaxSegments
        PROVE  out[i].bytes[j].geo = out[i].size
    <3>1. CASE i = 1
      <4>1. j \in 1 .. Len(rest) /\ (j = Len(rest) \/ n < MaxSegments)
        BY <2>2, <2>3, <2>4, <3>1
      <4>2. j + 1 \in 1 .. Len(first) /\ (j + 1 = Len(first) \/ n < MaxSegments)
        BY <1>3, <4>1
      <4>3. first[j + 1].geo = segs[1].size
        BY <1>1, <1>4, <2>5, <4>2
      <4> QED
        BY <1>3, <2>3, <3>1, <4>1, <4>3
    <3>2. CASE i # 1
      <4>1. i \in 2 .. n /\ i \in 1 .. n
        BY <1>1, <2>2, <3>2
      <4>2. out[i] = segs[i]
        BY <2>2, <4>1
      <4> QED
        BY <1>4, <2>2, <2>4, <4>1, <4>2
    <3> QED
      BY <3>1, <3>2
  <2>6. out[Len(out)].size = segs[n].size
    <3>1. CASE n = 1
      BY <2>2, <2>3, <3>1
    <3>2. CASE n # 1
      <4>1. n \in 2 .. n
        BY <1>1, <3>2
      <4> QED
        BY <2>2, <4>1
    <3> QED
      BY <3>1, <3>2
  <2> QED
    BY <2>4, <2>6 DEF SegmentsKeep, n, out
<1> QED
  BY <1>5, <1>6

(* append keeps the stream's geometry and that of its bytes. *)
LEMMA PushKeeps ==
    ASSUME NEW r, RingOK(r, Byte), SegmentsKeep(r.segments),
           NEW b \in Byte, b.geo = Newest(r).size
    PROVE  /\ SegmentsKeep(RingPush(r, b).segments)
           /\ Newest(RingPush(r, b)).size = Newest(r).size
<1> DEFINE segs == r.segments
           n == Len(segs)
           grown == [segs EXCEPT ![n] = WithBytes(@, Append(@.bytes, b))]
           out == RingPush(r, b).segments
<1>1. segs \in Seq(Segment(Byte)) /\ segs # <<>> /\ n \in Nat \ {0}
  BY EmptySeq DEF RingOK, Ring
<1>2. SegmentsKeep(segs) /\ b.geo = segs[n].size
  BY DEF Newest
<1>3. grown \in Seq(Segment(Byte))
  BY <1>1, GrownBytes
<1>4. /\ SegmentsKeep(grown) /\ Len(grown) = n
      /\ grown[n].size = segs[n].size /\ grown[n].bytes # <<>>
      /\ \A i \in 1 .. n - 1 : grown[i] = segs[i]
  <2> DEFINE g == grown
  <2>1. g = [segs EXCEPT ![Len(segs)] = WithBytes(@, Append(@.bytes, b))]
    OBVIOUS
  <2> HIDE DEF g, grown, segs
  <2>2. /\ SegmentsKeep(g) /\ Len(g) = Len(segs)
        /\ g[Len(segs)].size = segs[Len(segs)].size
        /\ g[Len(segs)].bytes # <<>>
        /\ \A i \in 1 .. Len(segs) - 1 : g[i] = segs[i]
    <3>1. segs \in Seq(Segment(Byte)) /\ segs # <<>> /\ SegmentsKeep(segs)
          /\ b.geo = segs[Len(segs)].size
      BY <1>1, <1>2
    <3> HIDE DEF n
    <3> QED
      BY <2>1, <3>1, GrownKeeps, ZenonT(60)
  <2> QED
    BY <2>2 DEF g
<1>5. \A i \in 1 .. n - 1 : segs[i].bytes # <<>>
  BY DEF RingOK, OnlyNewestEmpty
<1>6. CASE RingCap = 1
  <2> DEFINE only == [size |-> Newest(r).size, bytes |-> << b >>]
  <2>1. out = << only >>
    BY <1>6 DEF RingPush
  <2>2. Len(out) = 1 /\ out[1] = only /\ only.size = segs[n].size /\ only.bytes = << b >>
        /\ Len(<< b >>) = 1 /\ << b >>[1] = b
    BY <2>1 DEF Newest
  <2> HIDE DEF out, only
  <2>3. SegmentsKeep(out)
    BY <1>2, <2>2 DEF SegmentsKeep
  <2> QED
    BY <2>2, <2>3 DEF Newest, out
<1>7. CASE RingCap # 1 /\ r.len < RingCap
  <2>1. out = grown
    BY <1>7 DEF RingPush
  <2> HIDE DEF grown
  <2> QED
    BY <1>4, <2>1 DEF Newest
<1>8. CASE RingCap # 1 /\ ~(r.len < RingCap)
  <2>1. out = DrainOne(grown)
    BY <1>8 DEF RingPush
  <2> HIDE DEF grown, n, segs
  <2>2. grown # <<>> /\ \A i \in 1 .. Len(grown) : grown[i].bytes # <<>>
    <3>1. grown # <<>>
      BY <1>1, <1>4, EmptySeq
    <3>2. ASSUME NEW i \in 1 .. n PROVE grown[i].bytes # <<>>
      <4>1. CASE i = n
        BY <1>4, <4>1
      <4>2. CASE i # n
        <5>1. i \in 1 .. n - 1
          BY <1>1, <4>2
        <5> QED
          BY <1>4, <1>5, <5>1
      <4> QED
        BY <4>1, <4>2
    <3> QED
      BY <1>4, <3>1, <3>2
  <2>3. SegmentsKeep(DrainOne(grown))
        /\ DrainOne(grown)[Len(DrainOne(grown))].size = grown[Len(grown)].size
    BY <1>3, <1>4, <2>2, DrainOneKeeps
  <2> QED
    BY <1>4, <2>1, <2>3 DEF Newest, n, segs
<1> QED
  BY <1>6, <1>7, <1>8

(* resize opens a segment of the new geometry, merging the two oldest when *)
(* there are too many.                                                     *)
LEMMA ResizeKeeps ==
    ASSUME NEW r, RingOK(r, Byte), SegmentsKeep(r.segments), NEW s \in Size
    PROVE  /\ SegmentsKeep(RingResize(r, s).segments)
           /\ Newest(RingResize(r, s)).size = s
<1> DEFINE segs == r.segments
           n == Len(segs)
           last == [size |-> s, bytes |-> <<>>]
           out == RingResize(r, s).segments
<1>1. segs \in Seq(Segment(Byte)) /\ segs # <<>> /\ n \in Nat \ {0}
      /\ r = [segments |-> segs, len |-> r.len]
  BY EmptySeq DEF RingOK, Ring
<1>2. last \in Segment(Byte) /\ last.bytes = <<>> /\ last.size = s
  BY EmptySeq DEF Segment
<1>3. \A i \in 1 .. n : \A j \in 1 .. Len(segs[i].bytes) :
          i > 1 \/ j = Len(segs[i].bytes) \/ n < MaxSegments => segs[i].bytes[j].geo = segs[i].size
  BY DEF SegmentsKeep
<1>4. Len(<<>>) = 0
  BY EmptySeq
<1>5. CASE ~RingResizes(r, s)
  BY <1>5 DEF RingResize, RingResizes
<1>6. CASE RingResizes(r, s) /\ Newest(r).bytes = <<>>
  <2>1. out = [segs EXCEPT ![n] = last]
    BY <1>1, <1>6 DEF RingResize
  <2> HIDE DEF last
  <2>2. Len(out) = n /\ out[n] = last /\ \A i \in 1 .. n - 1 : out[i] = segs[i]
    BY <1>1, <2>1
  <2> HIDE DEF n, out, segs
  <2>3. ASSUME NEW i \in 1 .. Len(out), NEW j \in 1 .. Len(out[i].bytes),
               i > 1 \/ j = Len(out[i].bytes) \/ Len(out) < MaxSegments
        PROVE  out[i].bytes[j].geo = out[i].size
    <3>1. CASE i = n
      BY <1>2, <1>4, <2>2, <2>3, <3>1
    <3>2. CASE i # n
      <4>1. i \in 1 .. n - 1 /\ i \in 1 .. n
        BY <1>1, <2>2, <3>2
      <4>2. out[i] = segs[i]
        BY <2>2, <4>1
      <4> QED
        BY <1>3, <2>2, <2>3, <4>1, <4>2
    <3> QED
      BY <3>1, <3>2
  <2> QED
    BY <1>2, <2>2, <2>3 DEF SegmentsKeep, Newest, out
<1>7. CASE RingResizes(r, s) /\ Newest(r).bytes # <<>>
  <2> DEFINE merged == MergeOldest(segs)
  <2>1. out = Append(merged, last)
    BY <1>1, <1>7 DEF RingResize
  <2>2. merged \in Seq(Segment(Byte))
    BY <1>1, MergeOldestBytes
  <2> HIDE DEF last, merged
  <2>3. /\ Len(out) = Len(merged) + 1 /\ out[Len(merged) + 1] = last
        /\ \A i \in 1 .. Len(merged) : out[i] = merged[i]
    BY <1>2, <2>1, <2>2, AppendProperties
  <2>9. Len(merged) \in Nat
    BY <2>2
  <2>4. Newest(RingResize(r, s)).size = s
    BY <1>2, <2>3 DEF Newest
  <2>5. CASE n >= MaxSegments
    <3> DEFINE joined == segs[1].bytes \o segs[2].bytes
               both == WithBytes(segs[2], joined)
               ex == [segs EXCEPT ![2] = both]
    <3>1. n >= 2 /\ merged = Tail(ex)
      BY <1>1, <2>5, RingAssumption DEF MergeOldest, merged
    <3>2. 1 \in 1 .. n /\ 2 \in 1 .. n
      BY <3>1
    <3>3. segs[1].bytes \in Seq(Byte) /\ segs[2].bytes \in Seq(Byte) /\ segs[2].bytes # <<>>
      <4>1. segs[1].bytes \in Seq(Byte) /\ segs[2].bytes \in Seq(Byte)
        BY <1>1, <3>2, SegmentFields
      <4>2. segs[2].bytes # <<>>
        <5>1. CASE n = 2
          BY <1>7, <5>1 DEF Newest
        <5>2. CASE n # 2
          <6>1. 2 \in 1 .. n - 1
            <7> HIDE DEF n
            <7> QED
              BY <1>1, <3>1, <5>2
          <6> QED
            BY <6>1 DEF RingOK, OnlyNewestEmpty
        <5> QED
          BY <5>1, <5>2
      <4> QED
        BY <4>1, <4>2
    <3>4. joined \in Seq(Byte) /\ joined[Len(joined)] = segs[2].bytes[Len(segs[2].bytes)]
      <4> DEFINE p == segs[1].bytes
                 q == segs[2].bytes
      <4>1. p \in Seq(Byte) /\ q \in Seq(Byte) /\ Len(p) \in Nat /\ Len(q) \in Nat \ {0}
        BY <3>3, EmptySeq
      <4> HIDE DEF p, q
      <4>2. /\ p \o q \in Seq(Byte) /\ Len(p \o q) = Len(p) + Len(q)
            /\ \A i \in 1 .. Len(p) + Len(q) :
                  (p \o q)[i] = IF i <= Len(p) THEN p[i] ELSE q[i - Len(p)]
        BY <4>1, BytesConcat
      <4> DEFINE k == Len(p) + Len(q)
      <4>3. k \in 1 .. Len(p) + Len(q) /\ ~(k <= Len(p)) /\ k - Len(p) = Len(q)
        BY <4>1
      <4>4. (p \o q)[k] = q[k - Len(p)]
        BY <4>2, <4>3
      <4> QED
        BY <4>2, <4>3, <4>4 DEF p, q
    <3>5. both.size = segs[2].size /\ both.bytes = joined /\ both \in Segment(Byte)
      <4>1. segs[2].size \in Size
        BY <1>1, <3>2, SegmentFields
      <4> HIDE DEF joined
      <4> QED
        BY <3>4, <4>1 DEF WithBytes, Segment
    <3> HIDE DEF joined, both
    <3>6. /\ ex \in Seq(Segment(Byte)) /\ Len(ex) = n /\ ex[2] = both
          /\ \A i \in 3 .. n : ex[i] = segs[i]
      BY <1>1, <3>2, <3>5
    <3> HIDE DEF ex
    <3>7. Len(merged) = n - 1 /\ \A i \in 1 .. n - 1 : merged[i] = ex[i + 1]
      <4>1. ex # <<>>
        BY <1>1, <3>6, EmptySeq
      <4> QED
        BY <3>1, <3>6, <4>1, HeadTailProperties
    <3> HIDE DEF n, out, segs
    <3>8. ASSUME NEW i \in 1 .. Len(out), NEW j \in 1 .. Len(out[i].bytes),
                 i > 1 \/ j = Len(out[i].bytes) \/ Len(out) < MaxSegments
          PROVE  out[i].bytes[j].geo = out[i].size
      <4>1. CASE i = n
        <5>1. out[i] = last
          BY <1>1, <2>3, <3>7, <4>1
        <5> QED
          BY <1>2, <1>4, <5>1, <3>8
      <4>2. CASE i # n
        <5>1. i \in 1 .. n - 1 /\ i + 1 \in 1 .. n /\ out[i] = ex[i + 1]
          BY <1>1, <2>3, <3>7, <4>2
        <5>2. CASE i = 1
          <6>1. out[i] = both /\ ~(Len(out) < MaxSegments)
            BY <1>1, <2>3, <2>5, <3>6, <3>7, <5>1, <5>2, RingAssumption
          <6>2. j = Len(joined)
            BY <3>5, <3>8, <5>2, <6>1
          <6>3. Len(segs[2].bytes) \in 1 .. Len(segs[2].bytes)
            BY <3>3, EmptySeq
          <6>4. segs[2].bytes[Len(segs[2].bytes)].geo = segs[2].size
            BY <1>3, <3>2, <6>3
          <6> QED
            BY <3>4, <3>5, <6>1, <6>2, <6>4
        <5>3. CASE i # 1
          <6>1. i + 1 \in 3 .. n /\ i + 1 > 1
            BY <1>1, <5>1, <5>3
          <6>2. out[i] = segs[i + 1]
            BY <3>6, <5>1, <6>1
          <6> QED
            BY <1>3, <3>8, <5>1, <6>1, <6>2
        <5> QED
          BY <5>2, <5>3
      <4> QED
        BY <4>1, <4>2
    <3> QED
      BY <2>4, <3>8 DEF SegmentsKeep, out
  <2>6. CASE ~(n >= MaxSegments)
    <3>1. merged = segs /\ n < MaxSegments
      BY <1>1, <2>6, RingAssumption DEF MergeOldest, merged
    <3> HIDE DEF n, out
    <3>2. ASSUME NEW i \in 1 .. Len(out), NEW j \in 1 .. Len(out[i].bytes)
          PROVE  out[i].bytes[j].geo = out[i].size
      <4>1. CASE i = n + 1
        BY <1>2, <1>4, <2>3, <3>1, <3>2, <4>1 DEF n
      <4>2. CASE i # n + 1
        <5>1. i \in 1 .. n /\ out[i] = segs[i]
          BY <1>1, <2>3, <3>1, <4>2 DEF n
        <5> QED
          BY <1>3, <3>1, <3>2, <5>1
      <4> QED
        BY <4>1, <4>2
    <3> QED
      BY <2>4, <3>2 DEF SegmentsKeep, out
  <2> QED
    BY <2>5, <2>6
<1> QED
  BY <1>5, <1>6, <1>7

-----------------------------------------------------------------------------
(* The geometry a frame comes under.                                       *)

(* The last SIZE frame decides. *)
LEMMA GeometryIs ==
    ASSUME NEW frames, NEW i \in Nat, NEW m \in 1 .. i, frames[m].kind = "SIZE",
           \A k \in m + 1 .. i : frames[k].kind # "SIZE"
    PROVE  GeometryBefore(frames, i) = frames[m].size
<1> DEFINE sizes == {j \in 1 .. i : frames[j].kind = "SIZE"}
           last == CHOOSE j \in sizes : \A k \in sizes : k <= j
<1>1. m \in sizes /\ \A k \in sizes : k <= m
  OBVIOUS
<1>2. sizes # {} /\ sizes \subseteq Nat
  BY <1>1
<1>3. last \in sizes /\ \A k \in sizes : k <= last
  BY <1>1
<1>4. GeometryBefore(frames, i) = frames[last].size
  BY <1>2 DEF GeometryBefore
<1> HIDE DEF sizes, last
<1>5. last = m
  BY <1>1, <1>2, <1>3
<1> QED
  BY <1>4, <1>5

(* Without one it is the geometry of the SPAWN request. *)
LEMMA GeometryNone ==
    ASSUME NEW frames, NEW i \in Nat, \A k \in 1 .. i : frames[k].kind # "SIZE"
    PROVE  GeometryBefore(frames, i) = InitialSize
<1>1. {j \in 1 .. i : frames[j].kind = "SIZE"} = {}
  OBVIOUS
<1> QED
  BY <1>1 DEF GeometryBefore

(* Among the first i frames there is a last SIZE, or none. *)
LEMMA GeometryFound ==
    ASSUME NEW frames, NEW i \in Nat
    PROVE  \/ \A k \in 1 .. i : frames[k].kind # "SIZE"
           \/ \E m \in 1 .. i : /\ frames[m].kind = "SIZE"
                                /\ \A k \in m + 1 .. i : frames[k].kind # "SIZE"
<1> DEFINE T == {n \in Nat : n < i /\ frames[i - n].kind = "SIZE"}
<1>1. SUFFICES ASSUME NEW k \in 1 .. i, frames[k].kind = "SIZE"
               PROVE  \E m \in 1 .. i : /\ frames[m].kind = "SIZE"
                                        /\ \A j \in m + 1 .. i : frames[j].kind # "SIZE"
  OBVIOUS
<1>2. i - k \in T
  <2>1. i - k \in Nat /\ i - k < i /\ i - (i - k) = k
    OBVIOUS
  <2> QED
    BY <1>1, <2>1
<1>3. T \in SUBSET Nat /\ T # {}
  BY <1>2
<1>4. PICK n \in T : \A y \in T : n <= y
  <2> HIDE DEF T
  <2> QED
    BY <1>3, LeastNatural
<1>5. n \in Nat /\ n < i /\ frames[i - n].kind = "SIZE" /\ i - n \in 1 .. i
  BY <1>4
<1>6. ASSUME NEW j \in i - n + 1 .. i PROVE frames[j].kind # "SIZE"
  <2>1. i - j \in Nat /\ i - j < n /\ i - (i - j) = j /\ i - j < i
    BY <1>5
  <2>2. i - j \notin T
    <3> HIDE DEF T
    <3>1. i - j \in T => n <= i - j
      BY <1>4
    <3> QED
      BY <1>5, <2>1, <3>1
  <2> QED
    BY <2>1, <2>2
<1> QED
  BY <1>5, <1>6

(* Further frames do not change what was said before them. *)
LEMMA GeometrySame ==
    ASSUME NEW p, NEW q, NEW i \in Nat, \A k \in 1 .. i : p[k] = q[k]
    PROVE  GeometryBefore(q, i) = GeometryBefore(p, i)
<1>1. CASE \A k \in 1 .. i : p[k].kind # "SIZE"
  <2>1. \A k \in 1 .. i : q[k].kind # "SIZE"
    BY <1>1
  <2> QED
    BY <1>1, <2>1, GeometryNone
<1>2. CASE \E m \in 1 .. i : p[m].kind = "SIZE" /\ \A k \in m + 1 .. i : p[k].kind # "SIZE"
  <2>1. PICK m \in 1 .. i : p[m].kind = "SIZE" /\ \A k \in m + 1 .. i : p[k].kind # "SIZE"
    BY <1>2
  <2>2. q[m].kind = "SIZE" /\ q[m].size = p[m].size
    BY <2>1
  <2>3. \A k \in m + 1 .. i : q[k].kind # "SIZE"
    BY <2>1
  <2>4. GeometryBefore(p, i) = p[m].size
    BY <2>1, GeometryIs
  <2>5. GeometryBefore(q, i) = q[m].size
    BY <2>2, <2>3, GeometryIs
  <2> QED
    BY <2>2, <2>4, <2>5
<1> QED
  BY <1>1, <1>2, GeometryFound

(* A further frame. *)
LEMMA GeometryAppend ==
    ASSUME NEW frames \in Seq(PaneFrame), NEW f \in PaneFrame
    PROVE  /\ \A i \in 0 .. Len(frames) :
                 GeometryBefore(Append(frames, f), i) = GeometryBefore(frames, i)
           /\ GeometryBefore(Append(frames, f), Len(frames) + 1) =
                 IF f.kind = "SIZE" THEN f.size ELSE GeometryBefore(frames, Len(frames))
<1> DEFINE a == Append(frames, f)
           n == Len(frames)
<1>1. n \in Nat /\ a[n + 1] = f /\ \A i \in 1 .. n : a[i] = frames[i]
  BY AppendProperties
<1>2. ASSUME NEW i \in 0 .. n PROVE GeometryBefore(a, i) = GeometryBefore(frames, i)
  <2> HIDE DEF a, n
  <2>1. i \in Nat /\ \A k \in 1 .. i : frames[k] = a[k]
    BY <1>1
  <2> QED
    BY <2>1, GeometrySame
<1> HIDE DEF a, n
<1>3. n + 1 \in Nat /\ n + 1 \in 1 .. n + 1 /\ n \in 0 .. n
  BY <1>1
<1>4. CASE f.kind = "SIZE"
  <2>1. a[n + 1].kind = "SIZE" /\ \A k \in n + 1 + 1 .. n + 1 : a[k].kind # "SIZE"
    BY <1>1, <1>4
  <2>2. GeometryBefore(a, n + 1) = a[n + 1].size
    BY <1>3, <2>1, GeometryIs
  <2> QED
    BY <1>1, <1>2, <1>4, <2>2 DEF a, n
<1>5. CASE f.kind # "SIZE"
  <2>1. GeometryBefore(a, n + 1) = GeometryBefore(a, n)
    <3>1. CASE \A k \in 1 .. n : a[k].kind # "SIZE"
      <4>1. \A k \in 1 .. n + 1 : a[k].kind # "SIZE"
        BY <1>1, <1>5, <3>1
      <4> QED
        BY <1>1, <1>3, <3>1, <4>1, GeometryNone
    <3>2. CASE \E m \in 1 .. n : a[m].kind = "SIZE" /\ \A k \in m + 1 .. n : a[k].kind # "SIZE"
      <4>1. PICK m \in 1 .. n : a[m].kind = "SIZE" /\ \A k \in m + 1 .. n : a[k].kind # "SIZE"
        BY <3>2
      <4>2. m \in 1 .. n + 1 /\ \A k \in m + 1 .. n + 1 : a[k].kind # "SIZE"
        BY <1>1, <1>5, <4>1
      <4>3. GeometryBefore(a, n) = a[m].size
        BY <1>1, <4>1, GeometryIs
      <4>4. GeometryBefore(a, n + 1) = a[m].size
        BY <1>3, <4>1, <4>2, GeometryIs
      <4> QED
        BY <4>3, <4>4
    <3> QED
      BY <1>1, <3>1, <3>2, GeometryFound
  <2> QED
    BY <1>2, <1>3, <1>5, <2>1 DEF a, n
<1> QED
  BY <1>4, <1>5

(* The frames from the k-th on carry bytes of the geometry they come       *)
(* under; in those up to k the newest byte does.                           *)
FramesKeep(k, frames) ==
    \A i \in 1 .. Len(frames) : \A j \in 1 .. Len(frames[i].bytes) :
        frames[i].bytes[j].id # 0 /\ (i > k \/ j = Len(frames[i].bytes))
            => frames[i].bytes[j].geo = GeometryBefore(frames, i)

(* A further frame without bytes, or with bytes of the geometry the last   *)
(* frame left.                                                             *)
LEMMA FramesKeepAppend ==
    ASSUME NEW frames \in Seq(PaneFrame), NEW f \in PaneFrame, NEW k,
           FramesKeep(k, frames),
           \/ f.bytes = <<>>
           \/ /\ f.kind # "SIZE"
              /\ \A j \in 1 .. Len(f.bytes) :
                    f.bytes[j].geo = GeometryBefore(frames, Len(frames))
    PROVE  FramesKeep(k, Append(frames, f))
<1> DEFINE a == Append(frames, f)
           n == Len(frames)
<1>1. n \in Nat /\ Len(a) = n + 1 /\ a[n + 1] = f /\ \A i \in 1 .. n : a[i] = frames[i]
  BY AppendProperties
<1>2. /\ \A i \in 0 .. n : GeometryBefore(a, i) = GeometryBefore(frames, i)
      /\ GeometryBefore(a, n + 1) = IF f.kind = "SIZE" THEN f.size ELSE GeometryBefore(frames, n)
  BY GeometryAppend
<1>3. \A i \in 1 .. n : \A j \in 1 .. Len(frames[i].bytes) :
          frames[i].bytes[j].id # 0 /\ (i > k \/ j = Len(frames[i].bytes))
              => frames[i].bytes[j].geo = GeometryBefore(frames, i)
  BY DEF FramesKeep
<1>4. Len(<<>>) = 0
  BY EmptySeq
<1>5. \/ f.bytes = <<>>
      \/ f.kind # "SIZE" /\ \A j \in 1 .. Len(f.bytes) : f.bytes[j].geo = GeometryBefore(frames, n)
  OBVIOUS
<1> HIDE DEF a, n
<1>6. ASSUME NEW i \in 1 .. Len(a), NEW j \in 1 .. Len(a[i].bytes),
             a[i].bytes[j].id # 0, i > k \/ j = Len(a[i].bytes)
      PROVE  a[i].bytes[j].geo = GeometryBefore(a, i)
  <2>1. CASE i = n + 1
    <3>1. a[i] = f /\ GeometryBefore(a, i) = IF f.kind = "SIZE" THEN f.size ELSE GeometryBefore(frames, n)
      BY <1>1, <1>2, <2>1
    <3>2. CASE f.bytes = <<>>
      BY <1>4, <1>6, <3>1, <3>2
    <3>3. CASE f.bytes # <<>>
      BY <1>5, <1>6, <3>1, <3>3
    <3> QED
      BY <3>2, <3>3
  <2>2. CASE i # n + 1
    <3>1. i \in 1 .. n /\ i \in 0 .. n /\ a[i] = frames[i]
      BY <1>1, <2>2
    <3>2. GeometryBefore(a, i) = GeometryBefore(frames, i)
      BY <1>2, <3>1
    <3> QED
      BY <1>3, <1>6, <3>1, <3>2
  <2> QED
    BY <2>1, <2>2
<1> QED
  BY <1>6 DEF FramesKeep, a

(* The replay: a SIZE in front of each segment's bytes.                    *)
LEMMA ReplayKeeps ==
    ASSUME NEW r, RingOK(r, Byte), SegmentsKeep(r.segments), NEW k \in Nat,
           Len(r.segments) >= MaxSegments => k = 2
    PROVE  /\ FramesKeep(k, RingReplay(r))
           /\ GeometryBefore(RingReplay(r), Len(RingReplay(r))) = Newest(r).size
           /\ Len(r.segments) >= MaxSegments =>
                 /\ 2 * MaxSegments - 1 \in 1 .. Len(RingReplay(r))
                 /\ RingReplay(r)[2 * MaxSegments - 1].kind = "SIZE"
<1> DEFINE segs == r.segments
           n == Len(segs)
           out == RingReplay(r)
           count == IF Newest(r).bytes = <<>> THEN 2 * n - 1 ELSE 2 * n
<1>1. n \in Nat \ {0}
  BY EmptySeq DEF RingOK, Ring
<1>2. count \in Nat /\ count \in {2 * n - 1, 2 * n}
  <2> HIDE DEF n
  <2> QED
    BY <1>1
<1>3. out = [i \in 1 .. count |->
                 IF i % 2 = 1 THEN SizeFrame(segs[(i + 1) \div 2].size)
                              ELSE BytesFrame("SNAPSHOT", segs[i \div 2].bytes)]
  BY DEF RingReplay
<1> HIDE DEF count
<1>4. Len(out) = count
  BY <1>2, <1>3
<1>5. \A i \in 1 .. count :
          /\ i % 2 = 1 => out[i].kind = "SIZE" /\ out[i].size = segs[(i + 1) \div 2].size
                          /\ out[i].bytes = <<>>
          /\ i % 2 # 1 => out[i].kind = "SNAPSHOT" /\ out[i].bytes = segs[i \div 2].bytes
  BY <1>3 DEF SizeFrame, BytesFrame
<1>6. \A i \in 1 .. n : \A j \in 1 .. Len(segs[i].bytes) :
          i > 1 \/ j = Len(segs[i].bytes) \/ n < MaxSegments => segs[i].bytes[j].geo = segs[i].size
  BY DEF SegmentsKeep
<1>7. Newest(r) = segs[n] /\ (n >= MaxSegments => k = 2)
  BY DEF Newest
<1>8. Len(<<>>) = 0
  BY EmptySeq
<1> HIDE DEF segs, n, out
<1>9. ASSUME NEW h \in 1 .. n
      PROVE  /\ 2 * h - 1 \in 1 .. count /\ (2 * h - 1) % 2 = 1 /\ (2 * h - 1 + 1) \div 2 = h
             /\ (2 * h) % 2 # 1 /\ (2 * h) \div 2 = h
             /\ out[2 * h - 1].kind = "SIZE" /\ out[2 * h - 1].size = segs[h].size
  <2>1. /\ 2 * h - 1 \in 1 .. count /\ (2 * h - 1) % 2 = 1 /\ (2 * h - 1 + 1) \div 2 = h
        /\ (2 * h) % 2 # 1 /\ (2 * h) \div 2 = h
    BY <1>1, <1>2
  <2> QED
    BY <1>5, <2>1
<1>10. ASSUME NEW h \in 1 .. n, 2 * h \in 1 .. count
       PROVE  /\ GeometryBefore(out, 2 * h) = segs[h].size
              /\ out[2 * h].bytes = segs[h].bytes
  <2> DEFINE m == 2 * h - 1
             i == 2 * h
  <2>1. m \in 1 .. count /\ out[m].kind = "SIZE" /\ out[m].size = segs[h].size /\ i % 2 # 1
        /\ i \div 2 = h
    BY <1>9
  <2>2. out[i].kind = "SNAPSHOT" /\ out[i].bytes = segs[i \div 2].bytes
    BY <1>5, <1>10, <2>1
  <2>3. i \in Nat /\ m \in 1 .. i /\ m + 1 = i
    OBVIOUS
  <2> HIDE DEF m, i
  <2>4. \A j \in m + 1 .. i : out[j].kind # "SIZE"
    BY <2>2, <2>3
  <2>5. GeometryBefore(out, i) = out[m].size
    BY <2>1, <2>3, <2>4, GeometryIs
  <2> QED
    BY <2>1, <2>2, <2>5 DEF i
<1>11. FramesKeep(k, out)
  <2>1. ASSUME NEW i \in 1 .. Len(out), NEW j \in 1 .. Len(out[i].bytes),
               i > k \/ j = Len(out[i].bytes)
        PROVE  out[i].bytes[j].geo = GeometryBefore(out, i)
    <3>1. i \in 1 .. count
      BY <1>4
    <3>2. CASE i % 2 = 1
      <4>1. out[i].bytes = <<>>
        BY <1>5, <3>1, <3>2
      <4> QED
        BY <1>8, <2>1, <4>1
    <3>3. CASE i % 2 # 1
      <4> DEFINE h == i \div 2
      <4>1. h \in 1 .. n /\ i = 2 * h
        BY <1>1, <1>2, <3>1, <3>3
      <4>2. h > 1 \/ j = Len(out[i].bytes) \/ n < MaxSegments
        <5> HIDE DEF h
        <5>1. CASE n >= MaxSegments
          BY <1>7, <2>1, <4>1, <5>1
        <5>2. CASE ~(n >= MaxSegments)
          BY <1>1, <5>2, RingAssumption
        <5> QED
          BY <5>1, <5>2
      <4> HIDE DEF h
      <4>3. 2 * h \in 1 .. count
        BY <3>1, <4>1
      <4>4. GeometryBefore(out, i) = segs[h].size /\ out[i].bytes = segs[h].bytes
        BY <1>10, <4>1, <4>3
      <4> QED
        BY <1>6, <2>1, <4>1, <4>2, <4>4
    <3> QED
      BY <3>2, <3>3
  <2> QED
    BY <2>1 DEF FramesKeep
<1>12. GeometryBefore(out, Len(out)) = segs[n].size
  <2>1. n \in 1 .. n
    BY <1>1
  <2>2. CASE count = 2 * n
    <3>1. 2 * n \in 1 .. count
      BY <1>1, <2>2
    <3> QED
      BY <1>4, <1>10, <2>1, <2>2, <3>1
  <2>3. CASE count = 2 * n - 1
    <3> DEFINE m == 2 * n - 1
    <3>1. out[m].kind = "SIZE" /\ out[m].size = segs[n].size
      BY <1>9, <2>1
    <3>2. m \in Nat /\ m \in 1 .. m
      BY <1>1
    <3> HIDE DEF m
    <3>3. \A j \in m + 1 .. m : out[j].kind # "SIZE"
      BY <3>2
    <3>4. GeometryBefore(out, m) = out[m].size
      BY <3>1, <3>2, <3>3, GeometryIs
    <3> QED
      BY <1>4, <2>3, <3>1, <3>4 DEF m
  <2> QED
    BY <1>2, <2>2, <2>3
<1>13. ASSUME n >= MaxSegments
       PROVE  2 * MaxSegments - 1 \in 1 .. Len(out) /\ out[2 * MaxSegments - 1].kind = "SIZE"
  <2>1. MaxSegments \in 1 .. n
    BY <1>1, <1>13, RingAssumption
  <2> QED
    BY <1>4, <1>9, <2>1
<1> QED
  BY <1>7, <1>11, <1>12, <1>13 DEF out, n, segs

-----------------------------------------------------------------------------
(* The opening frame by frame: the replay, perhaps the paste switch, and   *)
(* ATTACHED.                                                               *)
LEMMA OpeningFrames ==
    ASSUME TypeInv
    PROVE  LET replay == IF Replay THEN RingReplay(ring) ELSE <<>>
               switch == BytesFrame("OUTPUT", << PasteOnByte >>)
               front == IF paste THEN Append(replay, switch) ELSE replay
           IN  /\ replay \in Seq(PaneFrame) /\ front \in Seq(PaneFrame)
               /\ switch \in PaneFrame /\ Marker("ATTACHED") \in PaneFrame
               /\ Opening = Append(front, Marker("ATTACHED"))
<1> DEFINE replay == IF Replay THEN RingReplay(ring) ELSE <<>>
           switch == BytesFrame("OUTPUT", << PasteOnByte >>)
           front == IF paste THEN Append(replay, switch) ELSE replay
           last == Marker("ATTACHED")
<1>1. replay \in Seq(PaneFrame)
  <2>1. RingReplay(ring) \in Seq(PaneFrame)
    BY RingReplayType DEF TypeInv, PaneFrame
  <2>2. <<>> \in Seq(PaneFrame)
    BY EmptySeq
  <2> QED
    BY <2>1, <2>2
<1>2. switch \in PaneFrame
  <2>1. << PasteOnByte >> \in Seq(Byte)
    BY PushedBytes
  <2> QED
    BY <2>1 DEF BytesFrame, PaneFrame, Frame
<1>3. last \in PaneFrame
  BY BareFrames
<1>4. Opening = replay \o (IF paste THEN << switch >> ELSE <<>>) \o << last >>
  BY DEF Opening
<1> HIDE DEF replay, switch, last
<1>5. front \in Seq(PaneFrame) /\ Opening = front \o << last >>
  <2>1. CASE paste
    <3>1. replay \o << switch >> = Append(replay, switch)
      BY <1>1, <1>2, AppendIsConcat
    <3>2. Append(replay, switch) \in Seq(PaneFrame)
      BY <1>1, <1>2, AppendProperties
    <3> QED
      BY <1>4, <2>1, <3>1, <3>2
  <2>2. CASE ~paste
    <3>1. replay \o <<>> = replay
      BY <1>1, ConcatEmptySeq
    <3> QED
      BY <1>1, <1>4, <2>2, <3>1
  <2> QED
    BY <2>1, <2>2
<1> HIDE DEF front
<1>6. Opening = Append(front, last)
  BY <1>3, <1>5, AppendIsConcat
<1> QED
  BY <1>1, <1>2, <1>3, <1>5, <1>6 DEF replay, switch, front, last

(* How many frames of a client's stream may hold merged bytes. *)
Excused(c) == IF FullReplay(c) THEN 2 ELSE 0

(* The opening of an attach tells the geometry of its bytes and, at its    *)
(* end, that of the stream.                                                *)
LEMMA OpeningKeeps ==
    ASSUME TypeInv, SegmentsKeep(ring.segments), Replay, NEW k \in Nat,
           (/\ 2 * MaxSegments - 1 <= Len(Opening)
            /\ Opening[2 * MaxSegments - 1].kind = "SIZE") => k = 2
    PROVE  /\ FramesKeep(k, Opening)
           /\ GeometryBefore(Opening, Len(Opening)) = TailSize
<1> DEFINE replay == RingReplay(ring)
           switch == BytesFrame("OUTPUT", << PasteOnByte >>)
           front == IF paste THEN Append(replay, switch) ELSE replay
           last == Marker("ATTACHED")
           m == 2 * MaxSegments - 1
<1>1. /\ replay \in Seq(PaneFrame) /\ front \in Seq(PaneFrame)
      /\ switch \in PaneFrame /\ last \in PaneFrame
      /\ Opening = Append(front, last)
  BY OpeningFrames
<1>2. switch.kind = "OUTPUT" /\ switch.bytes = << PasteOnByte >> /\ PasteOnByte.geo = TailSize
      /\ last.kind = "ATTACHED" /\ last.bytes = <<>>
  BY DEF BytesFrame, Marker, PasteOnByte
<1>3. RingOK(ring, Byte) /\ Newest(ring).size = TailSize
  BY DEF TypeInv, TailSize
<1>9. front = IF paste THEN Append(replay, switch) ELSE replay
  OBVIOUS
<1>4. (/\ m <= Len(Opening) /\ Opening[m].kind = "SIZE") => k = 2
  OBVIOUS
<1> HIDE DEF replay, switch, front, last, m
<1>5. \A i \in 1 .. Len(replay) : i \in 1 .. Len(Opening) /\ Opening[i] = replay[i]
  <2>1. /\ Len(Opening) = Len(front) + 1
        /\ \A i \in 1 .. Len(front) : Opening[i] = front[i]
    BY <1>1, AppendProperties
  <2>2. /\ Len(front) >= Len(replay)
        /\ \A i \in 1 .. Len(replay) : front[i] = replay[i]
    <3>1. CASE paste
      <4>1. /\ Len(Append(replay, switch)) = Len(replay) + 1
            /\ \A i \in 1 .. Len(replay) : Append(replay, switch)[i] = replay[i]
        BY <1>1, AppendProperties
      <4> QED
        BY <1>1, <1>9, <3>1, <4>1
    <3>2. CASE ~paste
      BY <1>1, <1>9, <3>2
    <3> QED
      BY <3>1, <3>2
  <2>3. Len(front) \in Nat /\ Len(replay) \in Nat
    BY <1>1
  <2> QED
    BY <2>1, <2>2, <2>3
<1>6. Len(ring.segments) >= MaxSegments => k = 2
  <2> SUFFICES ASSUME Len(ring.segments) >= MaxSegments PROVE k = 2
    OBVIOUS
  <2>1. m \in 1 .. Len(replay) /\ replay[m].kind = "SIZE"
    <3>1. /\ 2 * MaxSegments - 1 \in 1 .. Len(RingReplay(ring))
          /\ RingReplay(ring)[2 * MaxSegments - 1].kind = "SIZE"
      BY <1>3, ReplayKeeps
    <3> QED
      BY <3>1 DEF m, replay
  <2>2. m \in 1 .. Len(Opening) /\ Opening[m].kind = "SIZE"
    BY <1>5, <2>1
  <2> QED
    BY <1>4, <2>2
<1>7. FramesKeep(k, replay) /\ GeometryBefore(replay, Len(replay)) = TailSize
  BY <1>3, <1>6, ReplayKeeps DEF replay
<1>8. FramesKeep(k, front) /\ GeometryBefore(front, Len(front)) = TailSize
  <2>1. CASE paste
    <3>1. \A j \in 1 .. Len(switch.bytes) :
              switch.bytes[j].geo = GeometryBefore(replay, Len(replay))
      BY <1>2, <1>7
    <3>2. FramesKeep(k, Append(replay, switch))
      BY <1>1, <1>2, <1>7, <3>1, FramesKeepAppend
    <3>3. GeometryBefore(Append(replay, switch), Len(replay) + 1) = TailSize
      BY <1>1, <1>2, <1>7, GeometryAppend
    <3>4. Len(Append(replay, switch)) = Len(replay) + 1
      BY <1>1, AppendProperties
    <3> QED
      BY <1>9, <2>1, <3>2, <3>3, <3>4
  <2>2. CASE ~paste
    BY <1>7, <1>9, <2>2
  <2> QED
    BY <2>1, <2>2
<1>10. FramesKeep(k, Append(front, last))
  BY <1>1, <1>2, <1>8, FramesKeepAppend
<1>11. GeometryBefore(Append(front, last), Len(front) + 1) = TailSize
  BY <1>1, <1>2, <1>8, GeometryAppend
<1>12. Len(Append(front, last)) = Len(front) + 1
  BY <1>1, AppendProperties
<1> QED
  BY <1>1, <1>10, <1>11, <1>12

(* What a client was told last, and whether its bytes agree with what they *)
(* came under.                                                             *)
Told(c) == GeometryBefore(Flow(c), Len(Flow(c))) = TailSize
Kept(c) == FramesKeep(Excused(c), Flow(c))

GeometryInv ==
    /\ OutputInv
    /\ SegmentsKeep(ring.segments)
    /\ Replay => \A c \in Conn : Attached(c) => Kept(c) /\ (sub = c => Told(c))

(* The ring's part: what is pushed is of the stream's geometry. *)
LEMMA SegmentsKeepStep ==
    ASSUME GeometryInv, StepKind
    PROVE  /\ SegmentsKeep(ring.segments)'
           /\ (\A s \in Size : ~SizePublished(s)) => TailSize' = TailSize
           /\ \A s \in Size : SizePublished(s) => TailSize' = s
<1>1. RingOK(ring, Byte) /\ SegmentsKeep(ring.segments) /\ TypeInv
  BY DEF GeometryInv, OutputInv, StreamInv, TypeInv
<1>2. CASE UNCHANGED ring
  <2>1. SegmentsKeep(ring.segments)' /\ TailSize' = TailSize
    BY <1>1, <1>2 DEF SegmentsKeep, TailSize, Newest
  <2>2. ASSUME NEW s \in Size, SizePublished(s) PROVE FALSE
    <3>1. ring' = RingResize(ring, s) /\ RingResizes(ring, s)
      BY <2>2 DEF SizePublished
    <3>2. Newest(RingResize(ring, s)).size = s
      BY <1>1, ResizeKeeps
    <3> QED
      BY <1>2, <3>1, <3>2 DEF RingResizes
  <2> QED
    BY <2>1, <2>2
<1>3. ASSUME NEW b \in Byte, b.geo = TailSize, ring' = RingPush(ring, b)
      PROVE  SegmentsKeep(ring.segments)' /\ TailSize' = TailSize
  <2>1. b.geo = Newest(ring).size
    BY <1>3 DEF TailSize
  <2>2. SegmentsKeep(RingPush(ring, b).segments) /\ Newest(RingPush(ring, b)).size = Newest(ring).size
    BY <1>1, <2>1, PushKeeps
  <2> QED
    BY <1>3, <2>2 DEF SegmentsKeep, TailSize, Newest
<1>4. ASSUME NEW s \in Size, SizePublished(s)
      PROVE  SegmentsKeep(ring.segments)' /\ TailSize' = s
  <2>1. ring' = RingResize(ring, s)
    BY <1>4 DEF SizePublished
  <2>2. SegmentsKeep(RingResize(ring, s).segments) /\ Newest(RingResize(ring, s)).size = s
    BY <1>1, ResizeKeeps
  <2> QED
    BY <2>1, <2>2 DEF SegmentsKeep, TailSize, Newest
<1>5. CASE BytePublished
  <2>1. ring' = IF Replay THEN RingPush(ring, OutByte) ELSE ring
    BY <1>5 DEF BytePublished
  <2>2. OutByte \in Byte /\ OutByte.geo = TailSize
    BY <1>1, PushedBytes DEF OutByte
  <2>3. \A s \in Size : SizePublished(s) => TailSize' = s
    BY <1>4
  <2>4. CASE Replay
    <3> DEFINE b == OutByte
    <3>1. b \in Byte /\ b.geo = TailSize /\ ring' = RingPush(ring, b)
      BY <2>1, <2>2, <2>4
    <3> HIDE DEF b
    <3>2. SegmentsKeep(ring.segments)' /\ TailSize' = TailSize
      BY <1>3, <3>1
    <3> QED
      BY <2>3, <3>2
  <2>5. CASE ~Replay
    BY <1>2, <2>1, <2>5
  <2> QED
    BY <2>4, <2>5
<1>6. ASSUME NEW n \in Nat, InputRung(n)
      PROVE  SegmentsKeep(ring.segments)' /\ TailSize' = TailSize
  <2> DEFINE b == InByte(n)
  <2>1. ring' = RingPush(ring, b) /\ b \in Byte /\ b.geo = TailSize
    BY <1>1, <1>6, PushedBytes DEF InputRung, InByte
  <2> HIDE DEF b
  <2> QED
    BY <1>3, <2>1
<1>7. CASE Unnoticed \/ ExitPublished \/ \E c \in Conn : Attaches(c)
  <2>1. UNCHANGED ring
    BY <1>7 DEF Unnoticed, ExitPublished, Attaches
  <2> QED
    BY <1>2, <2>1
<1>8. CASE \E n \in Nat : InputRung(n)
  BY <1>4, <1>6, <1>8
<1>9. CASE \E s \in Size : SizePublished(s)
  BY <1>4, <1>9
<1> QED
  BY <1>5, <1>7, <1>8, <1>9 DEF StepKind, OtherKind

(* The clients' part. *)
LEMMA FlowKeepsStep ==
    ASSUME GeometryInv, StepKind, Replay, NEW c \in Conn, Attached(c)'
    PROVE  Kept(c)' /\ (sub' = c => Told(c)')
<1>1. /\ TypeInv /\ RingOK(ring, Byte) /\ SegmentsKeep(ring.segments)
      /\ Flow(c) \in Seq(PaneFrame)
      /\ Attached(c) => Kept(c) /\ (sub = c => Told(c))
  BY FlowFrames DEF GeometryInv, OutputInv, StreamInv, TypeInv
<1>2. c # NoConn
  BY PaneAssumption
<1>3. ASSUME base'[c] = base[c] PROVE Excused(c)' = Excused(c)
  BY <1>3 DEF Excused, FullReplay
<1>4. ASSUME Attached(c), Flow(c)' = Flow(c), base'[c] = base[c]
      PROVE  Kept(c)' /\ (sub = c /\ TailSize' = TailSize => Told(c)')
  <2>1. Kept(c)' <=> FramesKeep(Excused(c), Flow(c))
    BY <1>3, <1>4 DEF Kept, FramesKeep
  <2>2. TailSize' = TailSize => (Told(c)' <=> Told(c))
    BY <1>4 DEF Told
  <2> QED
    BY <1>1, <1>4, <2>1, <2>2 DEF Kept
<1>5. ASSUME NEW f \in PaneFrame, Attached(c), base'[c] = base[c],
             Flow(c)' = Append(Flow(c), f),
             sub = c,
             \/ f.bytes = <<>>
             \/ f.kind # "SIZE" /\ \A j \in 1 .. Len(f.bytes) : f.bytes[j].geo = TailSize,
             TailSize' = IF f.kind = "SIZE" THEN f.size ELSE TailSize
      PROVE  Kept(c)' /\ Told(c)'
  <2> DEFINE s == Flow(c)
  <2>1. FramesKeep(Excused(c), s) /\ GeometryBefore(s, Len(s)) = TailSize /\ s \in Seq(PaneFrame)
    BY <1>1, <1>5 DEF Kept, Told
  <2> HIDE DEF s
  <2>2. FramesKeep(Excused(c), Append(s, f))
    BY <1>5, <2>1, FramesKeepAppend
  <2>3. GeometryBefore(Append(s, f), Len(s) + 1) = IF f.kind = "SIZE" THEN f.size ELSE TailSize
    BY <2>1, GeometryAppend
  <2>4. Len(Append(s, f)) = Len(s) + 1
    BY <2>1, AppendProperties
  <2>5. Flow(c)' = Append(s, f)
    BY <1>5 DEF s
  <2>6. Kept(c)'
    BY <1>3, <1>5, <2>2, <2>5 DEF Kept, FramesKeep
  <2>7. Told(c)'
    BY <1>5, <2>3, <2>4, <2>5 DEF Told
  <2> QED
    BY <2>6, <2>7
<1>6. ASSUME NEW f \in PaneFrame, FlowsGrow(f), sub' \in {sub, Served},
             \/ f.bytes = <<>>
             \/ f.kind # "SIZE" /\ \A j \in 1 .. Len(f.bytes) : f.bytes[j].geo = TailSize,
             TailSize' = IF f.kind = "SIZE" THEN f.size ELSE TailSize,
             f.kind = "SIZE" => sub' = Served
      PROVE  Kept(c)' /\ (sub' = c => Told(c)')
  <2>1. /\ Attached(c)
        /\ Served = c => sub = c /\ Flow(c)' = Append(Flow(c), f)
        /\ Served # c => Flow(c)' = Flow(c)
    BY <1>1, <1>6, GrowsOneFlow
  <2>2. base'[c] = base[c]
    BY <1>6 DEF FlowsGrow
  <2>3. CASE Served = c
    BY <1>5, <1>6, <2>1, <2>2, <2>3
  <2>4. CASE Served # c
    <3>1. Kept(c)' /\ (sub = c /\ TailSize' = TailSize => Told(c)')
      BY <1>4, <2>1, <2>2, <2>4
    <3>2. sub' = c => sub = c /\ f.kind # "SIZE"
      BY <1>6, <2>4
    <3> QED
      BY <1>6, <3>1, <3>2
  <2> QED
    BY <2>3, <2>4
<1>7. CASE BytePublished
  <2> DEFINE f == BytesFrame("OUTPUT", << OutByte >>)
  <2>1. FlowsGrow(f) /\ sub' = Served
    BY <1>7 DEF BytePublished
  <2>2. OutByte \in Byte /\ OutByte.geo = TailSize
    BY <1>1, PushedBytes DEF OutByte
  <2>3. f \in PaneFrame /\ f.bytes = << OutByte >> /\ f.kind = "OUTPUT"
    <3>1. << OutByte >> \in Seq(Byte)
      BY <2>2
    <3> QED
      BY <3>1 DEF BytesFrame, PaneFrame, Frame
  <2>4. TailSize' = TailSize
    <3>1. ring' = RingPush(ring, OutByte)
      BY <1>7 DEF BytePublished
    <3> DEFINE b == OutByte
    <3>2. b \in Byte /\ b.geo = Newest(ring).size /\ ring' = RingPush(ring, b)
      BY <2>2, <3>1 DEF TailSize
    <3> HIDE DEF b
    <3>3. Newest(RingPush(ring, b)).size = Newest(ring).size
      BY <1>1, <3>2, PushKeeps
    <3> QED
      BY <3>2, <3>3 DEF TailSize, Newest
  <2>5. \A j \in 1 .. Len(f.bytes) : f.bytes[j].geo = TailSize
    BY <2>2, <2>3
  <2> HIDE DEF f
  <2> QED
    BY <1>6, <2>1, <2>3, <2>4, <2>5
<1>8. ASSUME NEW s \in Size, SizePublished(s) PROVE Kept(c)' /\ (sub' = c => Told(c)')
  <2> DEFINE f == SizeFrame(s)
  <2>1. FlowsGrow(f) /\ sub' = Served
    BY <1>8 DEF SizePublished
  <2>2. TailSize' = s
    BY <1>8, SegmentsKeepStep
  <2>3. f \in PaneFrame /\ f.bytes = <<>> /\ f.kind = "SIZE" /\ f.size = s
    BY BareFrames DEF SizeFrame
  <2> HIDE DEF f
  <2> QED
    BY <1>6, <2>1, <2>2, <2>3
<1>9. CASE ExitPublished
  <2> DEFINE f == Marker("EXITED")
  <2>1. FlowsGrow(f) /\ sub' = sub /\ ring' = ring
    BY <1>9 DEF ExitPublished
  <2>2. TailSize' = TailSize
    BY <2>1 DEF TailSize
  <2>3. f \in PaneFrame /\ f.bytes = <<>> /\ f.kind = "EXITED"
    BY BareFrames DEF Marker
  <2> HIDE DEF f
  <2> QED
    BY <1>6, <2>1, <2>2, <2>3
<1>10. CASE Unnoticed \/ (\E n \in Nat : InputRung(n))
  <2>1. FlowsKept /\ sub' \in {sub, NoConn}
    BY <1>10 DEF Unnoticed, InputRung
  <2>2. TailSize' = TailSize
    <3>1. CASE Unnoticed
      BY <3>1 DEF Unnoticed, TailSize
    <3>2. ASSUME NEW n \in Nat, InputRung(n) PROVE TailSize' = TailSize
      <4> DEFINE b == InByte(n)
      <4>1. ring' = RingPush(ring, b) /\ b \in Byte /\ b.geo = Newest(ring).size
        BY <1>1, <3>2, PushedBytes DEF InputRung, InByte, TailSize
      <4> HIDE DEF b
      <4>2. Newest(RingPush(ring, b)).size = Newest(ring).size
        BY <1>1, <4>1, PushKeeps
      <4> QED
        BY <4>1, <4>2 DEF TailSize, Newest
    <3> QED
      BY <1>10, <3>1, <3>2
  <2>3. Attached(c) /\ Flow(c)' = Flow(c) /\ base'[c] = base[c]
    BY <2>1 DEF FlowsKept
  <2> QED
    BY <1>2, <1>4, <2>1, <2>2, <2>3
<1>11. ASSUME NEW d \in Conn, Attaches(d) PROVE Kept(c)' /\ (sub' = c => Told(c)')
  <2>1. sub' = d /\ Flow(d)' = Opening /\ base'[d] = Opening /\ ring' = ring
    BY <1>11 DEF Attaches
  <2>2. CASE c = d
    <3> DEFINE k == IF /\ 2 * MaxSegments - 1 <= Len(Opening)
                       /\ Opening[2 * MaxSegments - 1].kind = "SIZE" THEN 2 ELSE 0
    <3>1. /\ k \in Nat
          /\ (/\ 2 * MaxSegments - 1 <= Len(Opening)
              /\ Opening[2 * MaxSegments - 1].kind = "SIZE") => k = 2
      OBVIOUS
    <3>2. Excused(c)' = k
      BY <2>1, <2>2 DEF Excused, FullReplay
    <3> HIDE DEF k
    <3>3. FramesKeep(k, Opening) /\ GeometryBefore(Opening, Len(Opening)) = TailSize
      BY <1>1, <3>1, OpeningKeeps
    <3>4. Flow(c)' = Opening /\ TailSize' = TailSize
      BY <2>1, <2>2 DEF TailSize
    <3>5. Kept(c)'
      BY <3>2, <3>3, <3>4 DEF Kept, FramesKeep
    <3>6. Told(c)'
      BY <3>3, <3>4 DEF Told
    <3> QED
      BY <3>5, <3>6
  <2>3. CASE c # d
    <3>1. Attached(c) /\ Flow(c)' = Flow(c) /\ base'[c] = base[c]
      BY <1>11, <2>3 DEF Attaches
    <3> QED
      BY <1>4, <2>1, <2>3, <3>1
  <2> QED
    BY <2>2, <2>3
<1> QED
  BY <1>7, <1>8, <1>9, <1>10, <1>11 DEF StepKind, OtherKind

(* GeometryInv is inductive. *)
LEMMA GeometryInvariant == Spec => []GeometryInv
<1>1. Init => GeometryInv
  <2> SUFFICES ASSUME Init PROVE GeometryInv
    OBVIOUS
  <2>1. OutputInv /\ \A c \in Conn : ~Attached(c)
    BY OutputInit DEF Init, Attached
  <2>2. ring.segments = << [size |-> InitialSize, bytes |-> <<>>] >>
    BY DEF Init, RingNew
  <2> DEFINE only == [size |-> InitialSize, bytes |-> <<>>]
             segs == << only >>
  <2>3. Len(segs) = 1 /\ segs[1] = only /\ Len(only.bytes) = 0
    BY EmptySeq
  <2> HIDE DEF segs, only
  <2>4. SegmentsKeep(segs)
    BY <2>3 DEF SegmentsKeep
  <2> QED
    BY <2>1, <2>2, <2>4 DEF GeometryInv, segs, only
<1>2. GeometryInv /\ OutputInv' /\ [Next]_vars => GeometryInv'
  <2> SUFFICES ASSUME GeometryInv, OutputInv', [Next]_vars PROVE GeometryInv'
    OBVIOUS
  <2>1. StepKind
    BY StepKinds DEF GeometryInv, OutputInv, ReaderHand
  <2>2. SegmentsKeep(ring.segments)'
    BY <2>1, SegmentsKeepStep
  <2>3. Replay => \A c \in Conn : Attached(c)' => Kept(c)' /\ (sub' = c => Told(c)')
    BY <2>1, FlowKeepsStep
  <2> QED
    BY <2>2, <2>3 DEF GeometryInv
<1> QED
  BY <1>1, <1>2, OutputInvariant, PTL DEF Spec

(* Every byte a client is handed comes under the geometry it was appended  *)
(* with, replayed or live, through rotation, resizes and takeovers; only a *)
(* full replay's first SNAPSHOT may hold older bytes that were merged      *)
(* (ReplayRing::resize and replay, Pane::attach and Pane::resize).         *)
THEOREM BytesComeInTheirGeometry == Spec => []BytesKeepGeometry
<1>1. GeometryInv => BytesKeepGeometry
  <2> SUFFICES ASSUME GeometryInv, Replay, NEW c \in Conn, Attached(c),
                      NEW i \in 1 .. Len(Flow(c)), NEW j \in 1 .. Len(Flow(c)[i].bytes),
                      Flow(c)[i].bytes[j].id # 0,
                      FullReplay(c) => i > 2 \/ j = Len(Flow(c)[i].bytes)
               PROVE  Flow(c)[i].bytes[j].geo = GeometryBefore(Flow(c), i)
    BY Zenon DEF BytesKeepGeometry
  <2>1. FramesKeep(Excused(c), Flow(c))
    BY DEF GeometryInv, Kept
  <2>2. i > Excused(c) \/ j = Len(Flow(c)[i].bytes)
    BY DEF Excused
  <2> QED
    BY <2>1, <2>2 DEF FramesKeep
<1> QED
  BY <1>1, GeometryInvariant, PTL

-----------------------------------------------------------------------------
(* Inputs in the ring before they are typed.                               *)
(*                                                                         *)
(* A ring that is asked to hold no more bytes than it can never drains,    *)
(* so what was rung is still there.  That it is not asked to is counted in *)
(* bytes that are told apart: the terminal's by the numbers up to          *)
(* Published, the inputs by those up to asked.                             *)

(* No two bytes of one source have one number. *)
Apart(bytes) ==
    \A i, j \in 1 .. Len(bytes) :
        i # j /\ bytes[i].src = bytes[j].src => bytes[i].id # bytes[j].id

(* The numbers that were given out. *)
Given(bytes, printed, sent) ==
    \A i \in 1 .. Len(bytes) :
        bytes[i].id \in IF bytes[i].src = "out" THEN 1 .. printed ELSE 1 .. sent

Holds(bytes, src, n) == \E i \in 1 .. Len(bytes) : bytes[i].src = src /\ bytes[i].id = n

(* There are no more bytes than numbers were given out. *)
LEMMA NoMoreThanGiven ==
    ASSUME NEW bytes \in Seq(Byte), Apart(bytes), NEW p \in Nat, NEW q \in Nat,
           Given(bytes, p, q)
    PROVE  Len(bytes) <= p + q
<1> DEFINE n == Len(bytes)
           place(i) == IF bytes[i].src = "out" THEN bytes[i].id ELSE p + bytes[i].id
           f == [i \in 1 .. n |-> place(i)]
<1>1. n \in Nat
  OBVIOUS
<1>2. \A i \in 1 .. n : bytes[i].src \in {"out", "in"}
  <2>1. \A i \in 1 .. n : bytes[i] \in Byte
    OBVIOUS
  <2> QED
    BY <2>1 DEF Byte
<1>3. \A i \in 1 .. n : bytes[i].id \in IF bytes[i].src = "out" THEN 1 .. p ELSE 1 .. q
  BY DEF Given
<1>4. \A i, j \in 1 .. n : i # j /\ bytes[i].src = bytes[j].src => bytes[i].id # bytes[j].id
  BY DEF Apart
<1> HIDE DEF n
<1>5. \A i \in 1 .. n : place(i) \in 1 .. p + q
  BY <1>3
<1>6. \A i, j \in 1 .. n : place(i) = place(j) => i = j
  BY <1>2, <1>3, <1>4
<1>7. f \in [1 .. n -> 1 .. p + q] /\ \A i \in 1 .. n : f[i] = place(i)
  BY <1>5
<1> HIDE DEF place, f
<1>8. f \in Injection(1 .. n, 1 .. p + q)
  BY <1>6, <1>7 DEF Injection, IsInjective
<1>9. IsFiniteSet(1 .. p + q) /\ Cardinality(1 .. p + q) = p + q /\ Cardinality(1 .. n) = n
  <2>1. p + q \in Int /\ n \in Int /\ 1 \in Int
    BY <1>1
  <2>2. /\ IsFiniteSet(1 .. p + q)
        /\ Cardinality(1 .. p + q) = IF 1 > p + q THEN 0 ELSE p + q - 1 + 1
        /\ Cardinality(1 .. n) = IF 1 > n THEN 0 ELSE n - 1 + 1
    BY <2>1, FS_Interval
  <2> QED
    BY <1>1, <2>2
<1> QED
  BY <1>8, <1>9, FS_Injection DEF n

(* What a sequence with a further byte holds; a new number is told apart. *)
LEMMA AppendApart ==
    ASSUME NEW old \in Seq(Byte), NEW b \in Byte, Apart(old), ~Holds(old, b.src, b.id)
    PROVE  /\ Apart(Append(old, b))
           /\ \A src, n : Holds(Append(old, b), src, n) <=>
                              Holds(old, src, n) \/ (src = b.src /\ n = b.id)
<1> DEFINE all == Append(old, b)
<1>4. /\ Len(all) = Len(old) + 1 /\ Len(old) \in Nat
      /\ \A i \in 1 .. Len(old) : all[i] = old[i]
      /\ all[Len(old) + 1] = b
  BY AppendProperties
<1> HIDE DEF all
<1>5. Apart(all)
  <2>1. ASSUME NEW i \in 1 .. Len(all), NEW j \in 1 .. Len(all), i < j, all[i].src = all[j].src
        PROVE  all[i].id # all[j].id
    <3>1. i \in 1 .. Len(old) /\ all[i] = old[i]
      BY <1>4, <2>1
    <3>2. CASE j = Len(old) + 1
      BY <1>4, <2>1, <3>1, <3>2 DEF Holds
    <3>3. CASE j # Len(old) + 1
      <4>1. j \in 1 .. Len(old) /\ all[j] = old[j]
        BY <1>4, <3>3
      <4> QED
        BY <2>1, <3>1, <4>1 DEF Apart
    <3> QED
      BY <3>2, <3>3
  <2>2. \A i, j \in 1 .. Len(all) : i # j => i < j \/ j < i
    BY <1>4
  <2> QED
    BY <2>1, <2>2 DEF Apart
<1>6. \A src, n : Holds(all, src, n) <=> Holds(old, src, n) \/ (src = b.src /\ n = b.id)
  <2> SUFFICES ASSUME NEW src, NEW n
               PROVE  Holds(all, src, n) <=> Holds(old, src, n) \/ (src = b.src /\ n = b.id)
    OBVIOUS
  <2>1. ASSUME Holds(all, src, n) PROVE Holds(old, src, n) \/ (src = b.src /\ n = b.id)
    <3>1. PICK i \in 1 .. Len(all) : all[i].src = src /\ all[i].id = n
      BY <2>1 DEF Holds
    <3>2. i = Len(old) + 1 \/ i \in 1 .. Len(old)
      BY <1>4
    <3> QED
      BY <1>4, <3>1, <3>2 DEF Holds
  <2>2. ASSUME Holds(old, src, n) PROVE Holds(all, src, n)
    <3>1. PICK i \in 1 .. Len(old) : old[i].src = src /\ old[i].id = n
      BY <2>2 DEF Holds
    <3>2. i \in 1 .. Len(all) /\ all[i] = old[i]
      BY <1>4
    <3> QED
      BY <3>1, <3>2 DEF Holds
  <2>3. Holds(all, b.src, b.id)
    <3>1. Len(old) + 1 \in 1 .. Len(all)
      BY <1>4
    <3> QED
      BY <1>4, <3>1 DEF Holds
  <2> QED
    BY <2>1, <2>2, <2>3
<1> QED
  BY <1>5, <1>6 DEF all

(* A byte with a new number joins the others, and the oldest may go. *)
LEMMA PushApart ==
    ASSUME NEW r, RingOK(r, Byte), RingExact(r), NEW b \in Byte,
           Apart(RingBytes(r)), ~Holds(RingBytes(r), b.src, b.id)
    PROVE  /\ Apart(RingBytes(RingPush(r, b)))
           /\ \A src, n : Holds(RingBytes(RingPush(r, b)), src, n) =>
                 Holds(RingBytes(r), src, n) \/ (src = b.src /\ n = b.id)
           /\ Len(RingBytes(r)) < RingCap =>
                 /\ Holds(RingBytes(RingPush(r, b)), b.src, b.id)
                 /\ \A src, n : Holds(RingBytes(r), src, n) =>
                                    Holds(RingBytes(RingPush(r, b)), src, n)
<1> DEFINE old == RingBytes(r)
           new == RingBytes(RingPush(r, b))
           all == Append(old, b)
           held == r.len
<1>1. new = IF held < RingCap THEN all ELSE Tail(all)
  BY PushBytes
<1>2. old \in Seq(Byte)
  BY RingBytesType DEF RingOK, Ring
<1>3. held = Len(old)
  BY DEF RingExact
<1>0. Apart(old) /\ ~Holds(old, b.src, b.id)
  OBVIOUS
<1> HIDE DEF old, new, held
<1>4. /\ all \in Seq(Byte) /\ Len(all) = Len(old) + 1 /\ all # <<>> /\ Len(old) \in Nat
      /\ \A i \in 1 .. Len(old) : all[i] = old[i]
      /\ all[Len(old) + 1] = b
  BY <1>2, AppendProperties, EmptySeq
<1> HIDE DEF all
<1>5. /\ Apart(all)
      /\ \A src, n : Holds(all, src, n) <=> Holds(old, src, n) \/ (src = b.src /\ n = b.id)
  BY <1>0, <1>2, AppendApart DEF all
<1>7. CASE held < RingCap
  <2>1. new = all
    BY <1>1, <1>7
  <2> QED
    BY <1>5, <2>1 DEF new, old
<1>8. CASE ~(held < RingCap)
  <2>1. new = Tail(all)
    BY <1>1, <1>8
  <2>2. /\ Len(new) = Len(all) - 1
        /\ \A i \in 1 .. Len(new) : new[i] = all[i + 1]
    BY <1>4, <2>1, HeadTailProperties
  <2>3. \A i \in 1 .. Len(new) : i + 1 \in 1 .. Len(all)
    BY <1>4, <2>2
  <2>4. Apart(new)
    <3> SUFFICES ASSUME NEW i \in 1 .. Len(new), NEW j \in 1 .. Len(new), i # j,
                        new[i].src = new[j].src
                 PROVE  new[i].id # new[j].id
      BY DEF Apart
    <3>1. /\ i + 1 \in 1 .. Len(all) /\ j + 1 \in 1 .. Len(all) /\ i + 1 # j + 1
          /\ new[i] = all[i + 1] /\ new[j] = all[j + 1]
      BY <2>2, <2>3
    <3> QED
      BY <1>5, <3>1 DEF Apart
  <2>5. \A src, n : Holds(new, src, n) => Holds(all, src, n)
    BY <2>2, <2>3 DEF Holds
  <2> QED
    BY <1>3, <1>5, <1>8, <2>4, <2>5 DEF new, old
<1> QED
  BY <1>7, <1>8

(* The inputs a server has not read yet. *)
Unread(c) == {k \in 1 .. Len(req[c]) : req[c][k].kind = "INPUT"}

(* Their numbers were given out, each once. *)
UnreadApart ==
    \A c \in Conn : \A k \in Unread(c) :
        /\ req[c][k].id \in 1 .. asked
        /\ \A d \in Conn : \A l \in Unread(d) :
               req[d][l].id = req[c][k].id => d = c /\ l = k

(* No bytes have their numbers. *)
UnreadNotIn(bytes) ==
    \A c \in Conn : \A k \in Unread(c) : ~Holds(bytes, "in", req[c][k].id)

(* What a step does to the requests: a client sends one, a server takes    *)
(* its first, or nothing.                                                  *)
Sends(c) ==
    /\ \E r \in Requests : req' = [req EXCEPT ![c] = Append(@, r)]
    /\ asked' = asked + 1

Takes(c) ==
    /\ req[c] # <<>>
    /\ req' = [req EXCEPT ![c] = Tail(@)]
    /\ asked' = asked

(* The numbers stay apart: a new one is above all, and what is taken is    *)
(* not among the others.                                                   *)
LEMMA SendsApart ==
    ASSUME TypeInv, UnreadApart, NEW c \in Conn, Sends(c)
    PROVE  /\ UnreadApart'
           /\ \A d \in Conn : \A k \in Unread(d)' :
                 \/ k \in Unread(d) /\ req'[d][k] = req[d][k]
                 \/ req'[d][k].id = asked + 1
<1>1. /\ req \in [Conn -> Seq(Request)] /\ asked \in Nat
      /\ asked' = asked + 1
  BY DEF TypeInv, TypeOK, Sends
<1>2. PICK r \in Requests : req' = [req EXCEPT ![c] = Append(@, r)]
  BY DEF Sends
<1>3. r \in Request /\ (r.kind = "INPUT" => r.id = asked + 1)
  BY <1>1, <1>2 DEF Requests, Request, InputRequest, PlainRequest, ResizeRequest
<1>4. /\ Len(req'[c]) = Len(req[c]) + 1 /\ Len(req[c]) \in Nat
      /\ \A k \in 1 .. Len(req[c]) : req'[c][k] = req[c][k]
      /\ req'[c][Len(req[c]) + 1] = r
  BY <1>1, <1>2, <1>3, AppendProperties
<1>5. \A d \in Conn \ {c} : req'[d] = req[d]
  BY <1>1, <1>2
<1>6. ASSUME NEW d \in Conn, NEW k \in Unread(d)'
      PROVE  \/ k \in Unread(d) /\ req'[d][k] = req[d][k]
             \/ d = c /\ k = Len(req[c]) + 1 /\ req'[d][k].id = asked + 1
  <2>1. CASE d # c
    BY <1>5, <1>6, <2>1 DEF Unread
  <2>2. CASE d = c /\ k = Len(req[c]) + 1
    BY <1>3, <1>4, <1>6, <2>2 DEF Unread
  <2>3. CASE d = c /\ k # Len(req[c]) + 1
    BY <1>4, <1>6, <2>3 DEF Unread
  <2> QED
    BY <2>1, <2>2, <2>3
<1>7. ASSUME NEW d \in Conn, NEW k \in Unread(d)'
      PROVE  req'[d][k].id \in 1 .. asked'
  BY <1>1, <1>6, <1>7 DEF UnreadApart
<1>8. ASSUME NEW d \in Conn, NEW k \in Unread(d)', NEW e \in Conn, NEW l \in Unread(e)',
             req'[e][l].id = req'[d][k].id
      PROVE  e = d /\ l = k
  <2>1. CASE k \in Unread(d) /\ req'[d][k] = req[d][k] /\ l \in Unread(e) /\ req'[e][l] = req[e][l]
    BY <1>8, <2>1 DEF UnreadApart
  <2>2. \A x \in Conn : \A i \in Unread(x) : req[x][i].id # asked + 1
    BY <1>1 DEF UnreadApart
  <2> QED
    BY <1>6, <1>8, <2>1, <2>2
<1>9. UnreadApart'
  BY <1>7, <1>8 DEF UnreadApart
<1> QED
  BY <1>6, <1>9

(* The same where a request is taken. *)
LEMMA TakesApart ==
    ASSUME TypeInv, UnreadApart, NEW c \in Conn, Takes(c)
    PROVE  /\ UnreadApart'
           /\ \A d \in Conn : \A k \in Unread(d)' : \E l \in Unread(d) :
                 req'[d][k] = req[d][l] /\ (d = c => l # 1)
<1>1. /\ req \in [Conn -> Seq(Request)] /\ asked \in Nat
      /\ asked' = asked /\ req[c] # <<>> /\ req' = [req EXCEPT ![c] = Tail(@)]
  BY DEF TypeInv, TypeOK, Takes
<1>2. /\ Len(req'[c]) = Len(req[c]) - 1 /\ Len(req[c]) \in Nat
      /\ \A k \in 1 .. Len(req'[c]) : req'[c][k] = req[c][k + 1]
  BY <1>1, HeadTailProperties
<1>3. \A d \in Conn \ {c} : req'[d] = req[d]
  BY <1>1
<1> DEFINE was(d, k) == IF d = c THEN k + 1 ELSE k
<1>4. ASSUME NEW d \in Conn, NEW k \in Unread(d)'
      PROVE  /\ was(d, k) \in Unread(d) /\ req'[d][k] = req[d][was(d, k)]
             /\ d = c => was(d, k) # 1
             /\ k \in Int
  BY <1>2, <1>3, <1>4 DEF Unread
<1>5. ASSUME NEW d \in Conn, NEW k \in Unread(d)'
      PROVE  req'[d][k].id \in 1 .. asked'
  <2>1. \A l \in Unread(d) : req[d][l].id \in 1 .. asked
    BY DEF UnreadApart
  <2> HIDE DEF was
  <2>2. req'[d][k].id \in 1 .. asked
    BY <1>4, <1>5, <2>1
  <2> QED
    BY <1>1, <2>2
<1>6. ASSUME NEW d \in Conn, NEW k \in Unread(d)', NEW e \in Conn, NEW l \in Unread(e)',
             req'[e][l].id = req'[d][k].id
      PROVE  e = d /\ l = k
  <2>1. e = d /\ was(e, l) = was(d, k)
    BY <1>4, <1>6 DEF UnreadApart
  <2> QED
    BY <1>4, <2>1
<1>7. UnreadApart'
  BY <1>5, <1>6 DEF UnreadApart
<1> QED
  BY <1>4, <1>7

(* Inputs on their way from a request to the child: nobody but a server    *)
(* that reads one takes it, and what is typed was read.                    *)
RequestsMove ==
    \/ UNCHANGED <<req, asked>>
    \/ \E c \in Conn : Sends(c)
    \/ \E c \in Conn : Takes(c) /\ Head(req[c]).kind # "INPUT"

TypedWas ==
    /\ \A c \in Conn : srv'[c] = "write" => srv[c] = "write" /\ arg'[c] = arg[c]
    /\ typed' = typed \/ \E c \in Conn : srv[c] = "write" /\ typed' = Append(typed, arg[c].id)

(* Every step that reads no input does this to the requests. *)
LEMMA RequestsOtherwise ==
    ASSUME TypeInv, [Next]_vars, \A c \in Conn : ~ServerReadsInput(c)
    PROVE  RequestsMove /\ TypedWas
<1>0. /\ srv \in [Conn -> {"idle", "attach", "spawn", "serve", "write", "ioctl",
                           "kill", "detach", "shutdown", "join", "done"}]
      /\ arg \in [Conn -> Request]
  BY DEF TypeInv, TypeOK
<1>1. CASE UNCHANGED <<req, asked, srv, arg, typed>>
  BY <1>1 DEF RequestsMove, TypedWas
<1>2. CASE \/ ChildHides \/ ChildExits \/ KillArrives \/ KillerKills
           \/ Reader \/ UNCHANGED vars
  <2>1. UNCHANGED <<req, asked, srv, arg, typed>>
    BY <1>2, Zenon DEF ChildHides, ChildExits, KillArrives, KillerKills, Kill, Reader,
           ReaderReads, ReaderPublishes, ReaderEof, ReaderReaps, ReaderExits, vars,
           paneVars, childVars, serverVars, clientVars
  <2> QED
    BY <2>1, <1>1
<1>3. ASSUME NEW c \in Conn, Writer(c) \/ ClientReads(c) \/ ClientCloses(c)
      PROVE  RequestsMove /\ TypedWas
  <2>1. UNCHANGED <<req, asked, srv, arg, typed>>
    BY <1>3, Zenon DEF Writer, WriterReceives, WriterBatches, WriterStopsBatching,
           WriterWrites, WriterFails, WriterEnds, ClientReads, ClientCloses,
           paneVars, childVars, serverVars, clientVars
  <2> QED
    BY <2>1, <1>1
<1>4. ASSUME NEW c \in Conn, ClientConnects(c) PROVE RequestsMove /\ TypedWas
  <2>1. UNCHANGED <<req, asked, arg, typed>> /\ srv' = [srv EXCEPT ![c] = "attach"]
    BY <1>4 DEF ClientConnects, childVars
  <2> QED
    BY <1>0, <2>1 DEF RequestsMove, TypedWas
<1>5. ASSUME NEW c \in Conn, ClientSends(c) PROVE RequestsMove /\ TypedWas
  <2>1. Sends(c) /\ UNCHANGED <<srv, arg, typed>>
    BY <1>5 DEF ClientSends, Sends, childVars, serverVars
  <2> QED
    BY <2>1 DEF RequestsMove, TypedWas
<1>6. ASSUME NEW c \in Conn, ServerReadsResize(c) PROVE RequestsMove /\ TypedWas
  <2>1. /\ Takes(c) /\ Head(req[c]).kind # "INPUT" /\ UNCHANGED typed
        /\ srv[c] = "serve"
        /\ \/ arg' = [arg EXCEPT ![c] = Head(req[c])] /\ srv' = [srv EXCEPT ![c] = "ioctl"]
           \/ UNCHANGED <<arg, srv>>
    BY <1>6 DEF ServerReadsResize, Takes, childVars
  <2>2. TypedWas
    BY <1>0, <2>1 DEF TypedWas
  <2> QED
    BY <2>1, <2>2 DEF RequestsMove
<1>7. ASSUME NEW c \in Conn, ServerReadsDetach(c) \/ ServerReadsKill(c)
      PROVE  RequestsMove /\ TypedWas
  <2>1. /\ Takes(c) /\ Head(req[c]).kind # "INPUT" /\ UNCHANGED <<arg, typed>>
        /\ srv' = [srv EXCEPT ![c] = "detach"] \/ srv' = [srv EXCEPT ![c] = "kill"]
    BY <1>7 DEF ServerReadsDetach, ServerReadsKill, Takes, childVars
  <2>2. TypedWas
    BY <1>0, <2>1 DEF TypedWas
  <2> QED
    BY <2>1, <2>2 DEF RequestsMove
<1>8. ASSUME NEW c \in Conn, ServerWritesInput(c) PROVE RequestsMove /\ TypedWas
  <2>1. /\ UNCHANGED <<req, asked, arg>> /\ srv[c] = "write"
        /\ typed' = Append(typed, arg[c].id) /\ srv' = [srv EXCEPT ![c] = "serve"]
    BY <1>8 DEF ServerWritesInput, clientVars
  <2> QED
    BY <1>0, <2>1 DEF RequestsMove, TypedWas
<1>9. ASSUME NEW c \in Conn,
             \/ ServerAttaches(c) \/ ServerSpawnsWriter(c) \/ ServerCannotSpawn(c)
             \/ ServerResizesPty(c) \/ ServerKills(c) \/ ServerReadsEof(c)
             \/ ServerDetaches(c) \/ ServerShutsDown(c) \/ ServerJoinsWriter(c)
      PROVE  RequestsMove /\ TypedWas
  <2>1. UNCHANGED <<req, asked, arg, typed>>
    BY <1>9, Zenon DEF ServerAttaches, ServerSpawnsWriter, ServerCannotSpawn, ServerResizesPty,
           ServerKills, Kill, ServerReadsEof, ServerDetaches, ServerShutsDown,
           ServerJoinsWriter, childVars, clientVars
  <2>2. \E to \in {"spawn", "serve", "done", "detach", "shutdown", "join"} :
            srv' = [srv EXCEPT ![c] = to]
    BY <1>9 DEF ServerAttaches, ServerSpawnsWriter, ServerCannotSpawn, ServerResizesPty,
           ServerKills, ServerReadsEof, ServerDetaches, ServerShutsDown, ServerJoinsWriter
  <2> QED
    BY <1>0, <2>1, <2>2 DEF RequestsMove, TypedWas
<1> QED
  BY <1>2, <1>3, <1>4, <1>5, <1>6, <1>7, <1>8, <1>9 DEF Next, Server, Client

(* More numbers were given out. *)
LEMMA GivenMore ==
    ASSUME NEW bytes, NEW p \in Nat, NEW q \in Nat, NEW p2 \in Nat, NEW q2 \in Nat,
           p <= p2, q <= q2, Given(bytes, p, q)
    PROVE  Given(bytes, p2, q2)
<1> SUFFICES ASSUME NEW i \in 1 .. Len(bytes)
             PROVE  bytes[i].id \in IF bytes[i].src = "out" THEN 1 .. p2 ELSE 1 .. q2
  BY DEF Given
<1>1. bytes[i].id \in IF bytes[i].src = "out" THEN 1 .. p ELSE 1 .. q
  BY DEF Given
<1> QED
  BY <1>1

(* A ring gets a byte with a new number among those given out now: it      *)
(* keeps what it held, if it can hold as many as were given out.           *)
LEMMA PushGiven ==
    ASSUME NEW r, RingOK(r, Byte), RingExact(r), NEW b \in Byte,
           Apart(RingBytes(r)), ~Holds(RingBytes(r), b.src, b.id),
           NEW p \in Nat, NEW q \in Nat, NEW p2 \in Nat, NEW q2 \in Nat,
           p <= p2, q <= q2, Given(RingBytes(r), p, q),
           b.id \in IF b.src = "out" THEN 1 .. p2 ELSE 1 .. q2
    PROVE  /\ Apart(RingBytes(RingPush(r, b)))
           /\ Given(RingBytes(RingPush(r, b)), p2, q2)
           /\ \A src, n : Holds(RingBytes(RingPush(r, b)), src, n) =>
                 Holds(RingBytes(r), src, n) \/ (src = b.src /\ n = b.id)
           /\ p2 + q2 <= RingCap =>
                 /\ Holds(RingBytes(RingPush(r, b)), b.src, b.id)
                 /\ \A src, n : Holds(RingBytes(r), src, n) =>
                                    Holds(RingBytes(RingPush(r, b)), src, n)
<1> DEFINE old == RingBytes(r)
           new == RingBytes(RingPush(r, b))
           all == Append(old, b)
<1>1. old \in Seq(Byte)
  BY RingBytesType DEF RingOK, Ring
<1>2. /\ Apart(new)
      /\ \A src, n : Holds(new, src, n) => Holds(old, src, n) \/ (src = b.src /\ n = b.id)
      /\ Len(old) < RingCap =>
            /\ Holds(new, b.src, b.id)
            /\ \A src, n : Holds(old, src, n) => Holds(new, src, n)
  BY PushApart
<1>3. Given(old, p2, q2) /\ Apart(old) /\ ~Holds(old, b.src, b.id)
  BY GivenMore
<1> HIDE DEF old, new
<1>4. all \in Seq(Byte) /\ Len(all) = Len(old) + 1 /\ Apart(all)
  BY <1>1, <1>3, AppendApart, AppendProperties
<1>5. \A i \in 1 .. Len(old) : all[i] = old[i]
  BY <1>1, AppendProperties
<1>6. all[Len(old) + 1] = b
  BY <1>1, AppendProperties
<1>7. Given(all, p2, q2)
  <2> HIDE DEF all
  <2> SUFFICES ASSUME NEW i \in 1 .. Len(all)
               PROVE  all[i].id \in IF all[i].src = "out" THEN 1 .. p2 ELSE 1 .. q2
    BY DEF Given
  <2>1. CASE i \in 1 .. Len(old)
    BY <1>3, <1>5, <2>1 DEF Given
  <2>2. CASE i = Len(old) + 1
    BY <1>6, <2>2
  <2> QED
    BY <1>1, <1>4, <2>1, <2>2
<1>8. Len(all) <= p2 + q2
  <2> HIDE DEF all
  <2> QED
    BY <1>4, <1>7, NoMoreThanGiven
<1>9. p2 + q2 <= RingCap => Len(old) < RingCap
  <2>1. Len(old) \in Nat /\ RingCap \in Nat
    BY <1>1, RingAssumption
  <2> QED
    BY <1>4, <1>8, <2>1
<1>10. Given(new, p2, q2)
  <2> SUFFICES ASSUME NEW i \in 1 .. Len(new)
               PROVE  new[i].id \in IF new[i].src = "out" THEN 1 .. p2 ELSE 1 .. q2
    BY DEF Given
  <2>1. Holds(new, new[i].src, new[i].id)
    BY DEF Holds
  <2>2. CASE Holds(old, new[i].src, new[i].id)
    <3>1. PICK j \in 1 .. Len(old) : old[j].src = new[i].src /\ old[j].id = new[i].id
      BY <2>2 DEF Holds
    <3> QED
      BY <1>3, <3>1 DEF Given
  <2>3. CASE new[i].src = b.src /\ new[i].id = b.id
    BY <2>3
  <2> QED
    BY <1>2, <2>1, <2>2, <2>3
<1> QED
  BY <1>2, <1>9, <1>10 DEF new, old

Fits == Replay /\ RingInput /\ Published + asked <= RingCap

(* The ring's part: its bytes are apart, and their numbers were given out. *)
RingApart ==
    Apart(RingBytes(ring)) /\ Given(RingBytes(ring), Published, asked)

(* The ring after a step that rings nothing: as it should be, with the     *)
(* inputs it had, all of them as long as everything fits.                  *)
LEMMA RingApartOtherwise ==
    ASSUME OutputInv, RingApart, OtherKind, asked \in Nat, asked' \in Nat, asked <= asked'
    PROVE  /\ RingApart'
           /\ Published \in Nat /\ Published' \in Nat /\ Published <= Published'
           /\ \A n : Holds(RingBytes(ring'), "in", n) => Holds(RingBytes(ring), "in", n)
           /\ \A n : Fits' /\ Holds(RingBytes(ring), "in", n) => Holds(RingBytes(ring'), "in", n)
<1>1. /\ TypeInv /\ RingOK(ring, Byte) /\ RingExact(ring) /\ Published \in Nat
      /\ rd = "have" => chunk.id = Published + 1
  BY PublishedType DEF OutputInv, StreamInv, TypeInv, RingOutput
<1>2. Apart(RingBytes(ring)) /\ Given(RingBytes(ring), Published, asked)
  BY DEF RingApart
<1>3. RingBytes(ring)' = RingBytes(ring')
  BY DEF RingBytes, BytesIn
<1>4. ASSUME RingBytes(ring') = RingBytes(ring), Published' \in {Published, Published + 1}
      PROVE  /\ RingApart'
             /\ Published' \in Nat /\ Published <= Published'
             /\ \A n : Holds(RingBytes(ring'), "in", n) => Holds(RingBytes(ring), "in", n)
             /\ \A n : Fits' /\ Holds(RingBytes(ring), "in", n) => Holds(RingBytes(ring'), "in", n)
  <2>1. Published' \in Nat /\ Published <= Published'
    BY <1>1, <1>4
  <2>2. Given(RingBytes(ring'), Published', asked')
    BY <1>1, <1>2, <1>4, <2>1, GivenMore
  <2> QED
    BY <1>2, <1>3, <1>4, <2>1, <2>2 DEF RingApart
<1>5. CASE BytePublished /\ Replay
  <2> DEFINE b == OutByte
             old == RingBytes(ring)
             new == RingBytes(RingPush(ring, b))
  <2>1. ring' = RingPush(ring, b) /\ Published' = Published + 1 /\ rd = "have"
    BY <1>5 DEF BytePublished
  <2>2. b \in Byte /\ b.src = "out" /\ b.id = Published + 1
    BY <1>1, <2>1, PushedBytes
  <2>3. Published' \in Nat /\ Published <= Published'
    BY <1>1, <2>1
  <2>4. b.id \in 1 .. Published'
    BY <1>1, <2>1, <2>2
  <2> HIDE DEF b
  <2>5. ~Holds(old, b.src, b.id)
    <3> SUFFICES ASSUME NEW i \in 1 .. Len(old), old[i].src = b.src, old[i].id = b.id
                 PROVE  FALSE
      BY DEF Holds
    <3>1. old[i].id \in 1 .. Published
      BY <1>2, <2>2 DEF Given
    <3> QED
      BY <1>1, <2>2, <3>1
  <2>6. /\ Apart(new) /\ Given(new, Published', asked')
        /\ \A src, n : Holds(new, src, n) => Holds(old, src, n) \/ (src = b.src /\ n = b.id)
        /\ Published' + asked' <= RingCap =>
              \A src, n : Holds(old, src, n) => Holds(new, src, n)
    <3>1. b.id \in IF b.src = "out" THEN 1 .. Published' ELSE 1 .. asked'
      BY <2>2, <2>4
    <3> QED
      BY <1>1, <1>2, <2>2, <2>3, <2>5, <3>1, PushGiven
  <2>7. RingBytes(ring') = new
    BY <2>1
  <2> HIDE DEF old, new
  <2>8. RingApart'
    BY <1>3, <2>6, <2>7 DEF RingApart
  <2>9. \A n : Holds(new, "in", n) => Holds(old, "in", n)
    BY <2>2, <2>6
  <2>10. Fits' => \A n : Holds(old, "in", n) => Holds(new, "in", n)
    BY <2>6 DEF Fits
  <2> QED
    BY <1>1, <2>3, <2>7, <2>8, <2>9, <2>10 DEF old
<1>6. CASE BytePublished /\ ~Replay
  BY <1>1, <1>4, <1>6 DEF BytePublished
<1>7. ASSUME NEW s \in Size, SizePublished(s)
      PROVE  RingBytes(ring') = RingBytes(ring) /\ Published' = Published
  BY <1>1, <1>7, ResizeBytes DEF SizePublished
<1>8. CASE \E s \in Size : SizePublished(s)
  BY <1>1, <1>4, <1>7, <1>8
<1>9. CASE Unnoticed \/ ExitPublished \/ \E c \in Conn : Attaches(c)
  <2>1. UNCHANGED ring /\ Published' = Published
    BY <1>9 DEF Unnoticed, ExitPublished, Attaches
  <2> QED
    BY <1>1, <1>4, <2>1
<1> QED
  BY <1>5, <1>6, <1>8, <1>9 DEF OtherKind

(* And after a step that rings an input. *)
LEMMA RingApartInput ==
    ASSUME OutputInv, RingApart, NEW m \in Nat, InputRung(m), asked \in Nat, asked' = asked,
           m \in 1 .. asked, ~Holds(RingBytes(ring), "in", m)
    PROVE  /\ RingApart'
           /\ Published \in Nat /\ Published' = Published
           /\ \A n : Holds(RingBytes(ring'), "in", n) =>
                 Holds(RingBytes(ring), "in", n) \/ n = m
           /\ Fits' => /\ Holds(RingBytes(ring'), "in", m)
                       /\ \A n : Holds(RingBytes(ring), "in", n) =>
                                     Holds(RingBytes(ring'), "in", n)
<1>1. /\ TypeInv /\ RingOK(ring, Byte) /\ RingExact(ring) /\ Published \in Nat
  BY PublishedType DEF OutputInv, StreamInv, TypeInv, RingOutput
<1>2. Apart(RingBytes(ring)) /\ Given(RingBytes(ring), Published, asked)
  BY DEF RingApart
<1> DEFINE b == InByte(m)
           old == RingBytes(ring)
           new == RingBytes(RingPush(ring, b))
<1>3. ring' = RingPush(ring, b) /\ Published' = Published
  BY DEF InputRung
<1>4. b \in Byte /\ b.src = "in" /\ b.id = m
  BY <1>1, PushedBytes DEF InByte
<1> HIDE DEF b
<1>5. ~Holds(old, b.src, b.id)
  BY <1>4
<1>6. /\ Apart(new) /\ Given(new, Published, asked)
      /\ \A src, n : Holds(new, src, n) => Holds(old, src, n) \/ (src = b.src /\ n = b.id)
      /\ Published + asked <= RingCap =>
            /\ Holds(new, b.src, b.id)
            /\ \A src, n : Holds(old, src, n) => Holds(new, src, n)
  <2>1. b.id \in IF b.src = "out" THEN 1 .. Published ELSE 1 .. asked
    BY <1>4
  <2>2. Published <= Published /\ asked <= asked
    BY <1>1
  <2> QED
    BY <1>1, <1>2, <1>4, <1>5, <2>1, <2>2, PushGiven
<1>7. RingBytes(ring') = new /\ RingBytes(ring)' = new
  BY <1>3 DEF RingBytes, BytesIn
<1> HIDE DEF old, new
<1>8. RingApart'
  BY <1>3, <1>6, <1>7 DEF RingApart
<1>9. \A n : Holds(new, "in", n) => Holds(old, "in", n) \/ n = m
  BY <1>4, <1>6
<1>10. Fits' => Holds(new, "in", m) /\ \A n : Holds(old, "in", n) => Holds(new, "in", n)
  BY <1>3, <1>4, <1>6 DEF Fits
<1> QED
  BY <1>1, <1>3, <1>7, <1>8, <1>9, <1>10 DEF old

(* What was typed, and what a server is about to type, is held. *)
TypedIn(bytes) ==
    /\ \A k \in 1 .. Len(typed) : Holds(bytes, "in", typed[k])
    /\ \A c \in Conn : srv[c] = "write" => Holds(bytes, "in", arg[c].id)

RungInv ==
    /\ OutputInv
    /\ UnreadApart
    /\ RingApart
    /\ UnreadNotIn(RingBytes(ring))
    /\ Fits => TypedIn(RingBytes(ring))

(* Typing appends one number at most. *)
LEMMA TypedOne ==
    ASSUME TypeInv, NEW n \in Nat, typed' = typed \/ typed' = Append(typed, n),
           NEW k \in 1 .. Len(typed')
    PROVE  (k \in 1 .. Len(typed) /\ typed'[k] = typed[k]) \/ typed'[k] = n
<1>1. typed \in Seq(Nat)
  BY DEF TypeInv, TypeOK
<1>2. CASE typed' = typed
  BY <1>2
<1>3. CASE typed' = Append(typed, n)
  <2>1. /\ Len(typed') = Len(typed) + 1 /\ Len(typed) \in Nat
        /\ \A i \in 1 .. Len(typed) : typed'[i] = typed[i]
        /\ typed'[Len(typed) + 1] = n
    BY <1>1, <1>3, AppendProperties
  <2> QED
    BY <2>1
<1> QED
  BY <1>2, <1>3

(* A server reads an input: rung at once, and no other has its number. *)
LEMMA RungInputStep ==
    ASSUME RungInv, OutputInv', NEW c \in Conn, ServerReadsInput(c)
    PROVE  RungInv'
<1>1. /\ TypeInv /\ StreamInv /\ StreamInv' /\ OutputInv /\ RingApart /\ UnreadApart
      /\ UnreadNotIn(RingBytes(ring)) /\ (Fits => TypedIn(RingBytes(ring)))
      /\ req \in [Conn -> Seq(Request)] /\ asked \in Nat
      /\ srv \in [Conn -> {"idle", "attach", "spawn", "serve", "write", "ioctl",
                           "kill", "detach", "shutdown", "join", "done"}]
      /\ arg \in [Conn -> Request]
  BY DEF RungInv, OutputInv, StreamInv, TypeInv, TypeOK
<1> DEFINE n == Head(req[c]).id
<1>2. /\ req[c] # <<>> /\ Head(req[c]).kind = "INPUT" /\ asked' = asked
      /\ req' = [req EXCEPT ![c] = Tail(@)]
      /\ arg' = [arg EXCEPT ![c] = Head(req[c])] /\ srv' = [srv EXCEPT ![c] = "write"]
      /\ UNCHANGED typed
  BY DEF ServerReadsInput, childVars
<1>3. 1 \in Unread(c) /\ req[c][1].id = n
  <2>1. Head(req[c]) = req[c][1] /\ 1 \in 1 .. Len(req[c])
    BY <1>1, <1>2, EmptySeq
  <2> QED
    BY <1>2, <2>1 DEF Unread
<1>4. n \in 1 .. asked /\ n \in Nat /\ ~Holds(RingBytes(ring), "in", n)
  BY <1>1, <1>3 DEF UnreadApart, UnreadNotIn
<1>5. /\ UnreadApart'
      /\ \A d \in Conn : \A k \in Unread(d)' : \E l \in Unread(d) :
            req'[d][k] = req[d][l] /\ (d = c => l # 1)
  <2>1. Takes(c)
    BY <1>2 DEF Takes
  <2> QED
    BY <1>1, <2>1, TakesApart
<1>6. IF RingInput /\ Replay THEN InputRung(n) ELSE Unnoticed
  BY <1>1, InputKind
<1> HIDE DEF n
<1>7. /\ RingApart' /\ Published \in Nat /\ Published' = Published
      /\ \A m : Holds(RingBytes(ring'), "in", m) => Holds(RingBytes(ring), "in", m) \/ m = n
      /\ Fits' => /\ Holds(RingBytes(ring'), "in", n)
                  /\ \A m : Holds(RingBytes(ring), "in", m) =>
                                Holds(RingBytes(ring'), "in", m)
  <2>1. CASE RingInput /\ Replay
    BY <1>1, <1>2, <1>4, <1>6, <2>1, RingApartInput
  <2>2. CASE ~(RingInput /\ Replay)
    <3>1. Published' = Published /\ ~Fits'
      BY <1>6, <2>2 DEF Unnoticed, Fits
    <3>2. OtherKind /\ asked <= asked'
      BY <1>1, <1>2, <1>6, <2>2 DEF OtherKind
    <3> QED
      BY <1>1, <1>2, <3>1, <3>2, RingApartOtherwise
  <2> QED
    BY <2>1, <2>2
<1>8. UnreadNotIn(RingBytes(ring))'
  <2> SUFFICES ASSUME NEW d \in Conn, NEW k \in Unread(d)'
               PROVE  ~Holds(RingBytes(ring'), "in", req'[d][k].id)
    BY DEF UnreadNotIn, RingBytes, BytesIn
  <2>1. PICK l \in Unread(d) : req'[d][k] = req[d][l] /\ (d = c => l # 1)
    BY <1>5
  <2>2. ~Holds(RingBytes(ring), "in", req[d][l].id)
    BY <1>1 DEF UnreadNotIn
  <2>3. req[d][l].id # n
    BY <1>1, <1>3, <2>1 DEF UnreadApart
  <2> QED
    BY <1>7, <2>1, <2>2, <2>3
<1>9. Fits' => TypedIn(RingBytes(ring))'
  <2> SUFFICES ASSUME Fits' PROVE TypedIn(RingBytes(ring))'
    OBVIOUS
  <2>1. Fits
    BY <1>2, <1>7 DEF Fits
  <2>2. TypedIn(RingBytes(ring))
    BY <1>1, <2>1
  <2>3. \A k \in 1 .. Len(typed') : Holds(RingBytes(ring'), "in", typed'[k])
    BY <1>2, <1>7, <2>2 DEF TypedIn
  <2>4. \A d \in Conn : srv'[d] = "write" => Holds(RingBytes(ring'), "in", arg'[d].id)
    <3> SUFFICES ASSUME NEW d \in Conn, srv'[d] = "write"
                 PROVE  Holds(RingBytes(ring'), "in", arg'[d].id)
      OBVIOUS
    <3>1. CASE d = c
      BY <1>1, <1>2, <1>7, <3>1 DEF n
    <3>2. CASE d # c
      <4>1. srv[d] = "write" /\ arg'[d] = arg[d]
        BY <1>1, <1>2, <3>2
      <4> QED
        BY <1>7, <2>2, <4>1 DEF TypedIn
    <3> QED
      BY <3>1, <3>2
  <2>5. RingBytes(ring)' = RingBytes(ring')
    BY DEF RingBytes, BytesIn
  <2> QED
    BY <2>3, <2>4, <2>5 DEF TypedIn
<1> QED
  BY <1>5, <1>7, <1>8, <1>9 DEF RungInv

(* Every other step keeps what is held, and types only what a server read. *)
LEMMA RungOtherStep ==
    ASSUME RungInv, OutputInv', [Next]_vars, \A c \in Conn : ~ServerReadsInput(c)
    PROVE  RungInv'
<1>1. /\ TypeInv /\ StreamInv /\ StreamInv' /\ OutputInv /\ RingApart /\ UnreadApart
      /\ UnreadNotIn(RingBytes(ring)) /\ (Fits => TypedIn(RingBytes(ring)))
      /\ asked \in Nat /\ arg \in [Conn -> Request]
  BY DEF RungInv, OutputInv, StreamInv, TypeInv, TypeOK
<1>2. OtherKind
  BY <1>1, OtherKinds DEF OutputInv, ReaderHand
<1>3. RequestsMove /\ TypedWas
  BY <1>1, RequestsOtherwise
<1>4. /\ asked' \in Nat /\ asked <= asked'
      /\ UnreadApart'
      /\ \A d \in Conn : \A k \in Unread(d)' :
            \/ \E l \in Unread(d) : req'[d][k] = req[d][l]
            \/ req'[d][k].id = asked + 1
  <2>1. CASE UNCHANGED <<req, asked>>
    <3>1. UnreadApart' /\ \A d \in Conn : Unread(d)' = Unread(d)
      BY <1>1, <2>1 DEF UnreadApart, Unread
    <3> QED
      BY <1>1, <2>1, <3>1
  <2>2. ASSUME NEW c \in Conn, Sends(c)
        PROVE  /\ asked' = asked + 1 /\ UnreadApart'
               /\ \A d \in Conn : \A k \in Unread(d)' :
                     \/ \E l \in Unread(d) : req'[d][k] = req[d][l]
                     \/ req'[d][k].id = asked + 1
    <3>1. asked' = asked + 1
      BY <2>2 DEF Sends
    <3>2. /\ UnreadApart'
          /\ \A d \in Conn : \A k \in Unread(d)' :
                \/ k \in Unread(d) /\ req'[d][k] = req[d][k]
                \/ req'[d][k].id = asked + 1
      BY <1>1, <2>2, SendsApart
    <3> QED
      BY <3>1, <3>2
  <2>3. ASSUME NEW c \in Conn, Takes(c)
        PROVE  /\ asked' = asked /\ UnreadApart'
               /\ \A d \in Conn : \A k \in Unread(d)' :
                     \E l \in Unread(d) : req'[d][k] = req[d][l]
    <3>1. asked' = asked
      BY <2>3 DEF Takes
    <3>2. /\ UnreadApart'
          /\ \A d \in Conn : \A k \in Unread(d)' : \E l \in Unread(d) :
                req'[d][k] = req[d][l] /\ (d = c => l # 1)
      BY <1>1, <2>3, TakesApart
    <3> QED
      BY <3>1, <3>2
  <2>4. CASE \E c \in Conn : Sends(c)
    BY <1>1, <2>2, <2>4
  <2>5. CASE \E c \in Conn : Takes(c)
    BY <1>1, <2>3, <2>5
  <2> QED
    BY <1>3, <2>1, <2>4, <2>5 DEF RequestsMove
<1>5. /\ RingApart'
      /\ Published \in Nat /\ Published' \in Nat /\ Published <= Published'
      /\ \A n : Holds(RingBytes(ring'), "in", n) => Holds(RingBytes(ring), "in", n)
      /\ \A n : Fits' /\ Holds(RingBytes(ring), "in", n) => Holds(RingBytes(ring'), "in", n)
  BY <1>1, <1>2, <1>4, RingApartOtherwise
<1>6. ~Holds(RingBytes(ring), "in", asked + 1)
  <2> SUFFICES ASSUME NEW i \in 1 .. Len(RingBytes(ring)), RingBytes(ring)[i].src = "in",
                      RingBytes(ring)[i].id = asked + 1
               PROVE  FALSE
    BY DEF Holds
  <2>1. RingBytes(ring)[i].id \in 1 .. asked
    BY <1>1 DEF RingApart, Given
  <2> QED
    BY <1>1, <2>1
<1>7. UnreadNotIn(RingBytes(ring))'
  <2> SUFFICES ASSUME NEW d \in Conn, NEW k \in Unread(d)'
               PROVE  ~Holds(RingBytes(ring'), "in", req'[d][k].id)
    BY DEF UnreadNotIn, RingBytes, BytesIn
  <2>1. ~Holds(RingBytes(ring), "in", req'[d][k].id)
    BY <1>1, <1>4, <1>6 DEF UnreadNotIn
  <2> QED
    BY <1>5, <2>1
<1>8. Fits' => TypedIn(RingBytes(ring))'
  <2> SUFFICES ASSUME Fits' PROVE TypedIn(RingBytes(ring))'
    OBVIOUS
  <2>1. Fits
    <3>1. Published' + asked' <= RingCap /\ Replay /\ RingInput
      BY DEF Fits
    <3>2. RingCap \in Nat
      BY RingAssumption
    <3>3. Published + asked <= RingCap
      <4>1. \A i, j, x, y \in Nat : i <= x /\ j <= y /\ x + y <= RingCap => i + j <= RingCap
        BY <3>2
      <4>2. /\ Published \in Nat /\ Published' \in Nat /\ asked \in Nat /\ asked' \in Nat
            /\ Published <= Published' /\ asked <= asked'
        BY <1>1, <1>4, <1>5
      <4> QED
        BY <3>1, <4>1, <4>2
    <3> QED
      BY <3>1, <3>3 DEF Fits
  <2>2. TypedIn(RingBytes(ring))
    BY <1>1, <2>1
  <2>3. \A k \in 1 .. Len(typed') : Holds(RingBytes(ring'), "in", typed'[k])
    <3>1. CASE typed' = typed
      BY <1>5, <2>2, <3>1 DEF TypedIn
    <3>2. ASSUME NEW c \in Conn, srv[c] = "write", typed' = Append(typed, arg[c].id)
          PROVE  \A k \in 1 .. Len(typed') : Holds(RingBytes(ring'), "in", typed'[k])
      <4> SUFFICES ASSUME NEW k \in 1 .. Len(typed')
                   PROVE  Holds(RingBytes(ring'), "in", typed'[k])
        OBVIOUS
      <4>1. arg[c].id \in Nat
        BY <1>1 DEF Request
      <4>2. (k \in 1 .. Len(typed) /\ typed'[k] = typed[k]) \/ typed'[k] = arg[c].id
        <5> DEFINE n == arg[c].id
        <5>1. n \in Nat /\ typed' = Append(typed, n)
          BY <3>2, <4>1
        <5> HIDE DEF n
        <5>2. (k \in 1 .. Len(typed) /\ typed'[k] = typed[k]) \/ typed'[k] = n
          BY <1>1, <5>1, TypedOne
        <5> QED
          BY <5>2 DEF n
      <4> QED
        BY <1>5, <2>2, <3>2, <4>2 DEF TypedIn
    <3> QED
      BY <1>3, <3>1, <3>2 DEF TypedWas
  <2>4. \A d \in Conn : srv'[d] = "write" => Holds(RingBytes(ring'), "in", arg'[d].id)
    BY <1>3, <1>5, <2>2 DEF TypedWas, TypedIn
  <2>5. RingBytes(ring)' = RingBytes(ring')
    BY DEF RingBytes, BytesIn
  <2> QED
    BY <2>3, <2>4, <2>5 DEF TypedIn
<1> QED
  BY <1>4, <1>5, <1>7, <1>8 DEF RungInv

(* RungInv is inductive. *)
LEMMA RungInvariant == Spec => []RungInv
<1>1. Init => RungInv
  <2> SUFFICES ASSUME Init PROVE RungInv
    OBVIOUS
  <2>1. OutputInv
    BY OutputInit
  <2>2. /\ RingBytes(ring) = <<>> /\ typed = <<>> /\ Len(<<>>) = 0
        /\ \A c \in Conn : req[c] = <<>> /\ srv[c] = "idle"
    BY NewBytes, PaneAssumption, EmptySeq DEF Init
  <2>3. \A c \in Conn : Unread(c) = {}
    BY <2>2 DEF Unread
  <2>4. RingApart /\ TypedIn(RingBytes(ring))
    BY <2>2 DEF RingApart, Apart, Given, TypedIn
  <2> QED
    BY <2>1, <2>3, <2>4 DEF RungInv, UnreadApart, UnreadNotIn
<1>2. RungInv /\ OutputInv' /\ [Next]_vars => RungInv'
  <2> SUFFICES ASSUME RungInv, OutputInv', [Next]_vars PROVE RungInv'
    OBVIOUS
  <2>1. CASE \A c \in Conn : ~ServerReadsInput(c)
    BY <2>1, RungOtherStep
  <2>2. CASE \E c \in Conn : ServerReadsInput(c)
    BY <2>2, RungInputStep
  <2> QED
    BY <2>1, <2>2
<1> QED
  BY <1>1, <1>2, OutputInvariant, PTL DEF Spec

(* An input reaches the child only after it was rung (input rings it       *)
(* before it takes the writer's mutex): as long as the ring can hold all   *)
(* that was published and asked, what was typed is in the replay.          *)
THEOREM InputsAreRungFirst == Spec => []RungBeforeTyped
<1>1. RungInv => RungBeforeTyped
  <2> SUFFICES ASSUME RungInv, Fits, NEW n \in ToSet(typed)
               PROVE  n \in Rung
    BY DEF RungBeforeTyped, Fits
  <2>1. TypedIn(RingBytes(ring)) /\ RingOK(ring, Byte) /\ typed \in Seq(Nat)
    BY DEF RungInv, OutputInv, StreamInv, TypeInv, TypeOK
  <2>2. PICK k \in 1 .. Len(typed) : typed[k] = n
    BY <2>1 DEF ToSet
  <2>3. Holds(RingBytes(ring), "in", n)
    BY <2>1, <2>2 DEF TypedIn
  <2>4. PICK i \in 1 .. Len(RingBytes(ring)) :
            RingBytes(ring)[i].src = "in" /\ RingBytes(ring)[i].id = n
    BY <2>3 DEF Holds
  <2>5. BytesOf(RingReplay(ring)) = RingBytes(ring)
    BY <2>1, ReplayBytes
  <2>6. RingBytes(ring)[i] \in ToSet(BytesOf(RingReplay(ring)))
    <3>1. RingBytes(ring) \in Seq(Byte)
      BY <2>1, RingBytesType DEF RingOK, Ring
    <3> QED
      BY <2>5, <3>1 DEF ToSet
  <2> QED
    BY <2>4, <2>6 DEF Rung
<1> QED
  BY <1>1, RungInvariant, PTL

=============================================================================
