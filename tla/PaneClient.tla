------------------------------ MODULE PaneClient ------------------------------
(***************************************************************************)
(* One pane in the GUI: PaneHost of TerminalViews.swift with its           *)
(* PaneSession of SessionDaemon.swift.  Four threads work on it: the main  *)
(* queue, the background block that opens a connection, the session's      *)
(* reader, and the pane's serial stream queue, which alone feeds the       *)
(* terminal core.  An action is one block of a queue or one frame of the   *)
(* reader.                                                                 *)
(*                                                                         *)
(* The daemon is what SessionPane shows of it: an attach answers with SIZE,*)
(* SNAPSHOT and ATTACHED, live frames follow, a resize that changes the    *)
(* size answers with SIZE.  A host has one connection at a time, so the    *)
(* session's fields are not indexed by it; frames carry its number.  That  *)
(* the reader closes its descriptor again behind close() is not seen here: *)
(* numbers of descriptors are not kept.                                    *)
(* Abstracted: the sanitizer (pieces of a chunk), presenting, agent        *)
(* detection, and frames that precede the surface (a session is started    *)
(* with a grid, and the grid is the surface's).                            *)
(***************************************************************************)
EXTENDS Naturals, Sequences, Functions

CONSTANTS
    Grid, NoGrid,
    MaxEnds,        \* bound: connections lost, and the child's exit
    MaxFrames,      \* bound: chunks sent when the daemon may send one more
    MaxLayouts,     \* bound: layouts that change the grid
    MaxBacklog      \* bound: blocks queued when the main queue adds some

ASSUME ClientAssumption ==
    /\ Grid # {} /\ NoGrid \notin Grid
    /\ MaxEnds \in Nat /\ MaxFrames \in Nat /\ MaxLayouts \in Nat
    /\ MaxBacklog \in Nat

VARIABLES
    (* main queue *)
    session,        \* session # nil
    opening,        \* sessionStarting and how far it got
    retry,          \* a start in 1 s is scheduled
    mainQueue,      \* blocks to run: "gone" (onDisconnect), "exited"
    retired,
    layoutGrid,     \* lastLayoutGrid
    (* PaneSession *)
    fdOpen,         \* fd >= 0
    stopped,
    reader,
    (* stream queue *)
    blocks,         \* what is queued
    parked,         \* the drain block waits for the hold to pass
    attached,       \* the connection whose ATTACHED was the last; 0 for FALSE
    gate,           \* suppressParserWrites
    coalesced,      \* coalescedOutput
    drainScheduled, \* coalesceDrainScheduled
    hold,           \* is holdDrainUntil in the future?
    streamGrid, requestedGrid, installedGrid,
    fed,            \* history: the chunks the terminal core was given
    amiss,          \* history: what the core should not have met
    (* the daemon and the connection *)
    up,             \* daemonTarget # nil
    peer,           \* is the other end of the connection there?
    conn,           \* number of the newest connection
    onWire,         \* frames to be read
    asked,          \* RESIZE frames on their way
    crossed,        \* history: one was sent before the connection was ATTACHED
    ptyGrid,
    childExited,
    frames,         \* chunks sent so far
    lost,           \* chunks lost with their connection
    ends, layouts

mainVars == <<session, opening, retry, mainQueue, retired, layoutGrid>>
fdVars == <<fdOpen, stopped, reader>>
gridVars == <<streamGrid, requestedGrid, installedGrid>>
coreVars == <<fed, amiss>>
drainVars == <<parked, coalesced, drainScheduled, hold>>
streamVars == <<attached, gate, drainVars, gridVars, coreVars>>
daemonVars == <<up, peer, conn, onWire, asked, crossed, ptyGrid, childExited,
                frames, lost, ends>>
clientVars == <<mainVars, fdVars, blocks, streamVars, daemonVars, layouts>>

ClientInit ==
    /\ session = FALSE /\ opening = "no" /\ retry = FALSE
    /\ mainQueue = <<>> /\ retired = FALSE /\ layoutGrid = NoGrid
    /\ fdOpen = FALSE /\ stopped = FALSE /\ reader = "off"
    /\ blocks = <<>>
    /\ attached = 0 /\ gate = TRUE
    /\ parked = FALSE /\ coalesced = <<>>
    /\ drainScheduled = FALSE /\ hold = FALSE
    /\ streamGrid = NoGrid /\ requestedGrid = NoGrid /\ installedGrid = NoGrid
    /\ fed = <<>> /\ amiss = {}
    /\ up = TRUE /\ peer = FALSE /\ conn = 0 /\ onWire = <<>> /\ asked = <<>>
    /\ crossed = FALSE
    /\ ptyGrid = (CHOOSE g \in Grid : TRUE)
    /\ childExited = FALSE /\ frames = 0 /\ lost = {} /\ ends = 0
    /\ layouts = 0

-----------------------------------------------------------------------------
(* Frames and blocks are records of one shape: kind, grid, chunk number,   *)
(* connection, and whether the frame belongs to the replay.                *)
Block(kind, grid) ==
    [kind |-> kind, grid |-> grid, n |-> 0, conn |-> conn, replay |-> FALSE]
SizeOf(g, isReplay, c) ==
    [kind |-> "SIZE", grid |-> g, n |-> 0, conn |-> c, replay |-> isReplay]
Chunk(kind, n, c) ==
    [kind |-> kind, grid |-> NoGrid, n |-> n, conn |-> c,
     replay |-> kind = "SNAPSHOT"]
Marker(kind, c) ==
    [kind |-> kind, grid |-> NoGrid, n |-> 0, conn |-> c,
     replay |-> kind = "ATTACHED"]

Numbers(fs) == [i \in DOMAIN fs |-> fs[i].n]

-----------------------------------------------------------------------------
(* Main queue: startSessionIfNeeded, called by layout and by the retry.    *)

CanStart == ~retired /\ opening = "no" /\ ~session /\ up

StartsSession ==
    IF CanStart THEN opening' = "asked" ELSE UNCHANGED opening

(* The first block is queued by the start, the second by the layout. *)
GateBlocks(g) == IF CanStart THEN <<Block("gate", g)>> ELSE <<>>

(* A layout pass with a new grid, *)
LayoutChanges(g) ==
    /\ ~retired
    /\ g # layoutGrid /\ layouts < MaxLayouts /\ Len(blocks) <= MaxBacklog
    /\ layouts' = layouts + 1
    /\ StartsSession
    /\ layoutGrid' = g
    /\ blocks' = blocks \o GateBlocks(g) \o <<Block("resize", g)>>
    /\ UNCHANGED <<session, retry, mainQueue, retired, fdVars, streamVars,
                   daemonVars>>

(* and one with the same: it matters only where it starts a session. *)
LayoutAgain ==
    /\ layoutGrid # NoGrid /\ CanStart /\ Len(blocks) <= MaxBacklog
    /\ StartsSession
    /\ blocks' = blocks \o GateBlocks(layoutGrid) \o <<Block("resize", layoutGrid)>>
    /\ UNCHANGED <<session, retry, mainQueue, retired, layoutGrid, fdVars,
                   streamVars, daemonVars, layouts>>

RetryStarts ==
    /\ retry /\ Len(blocks) <= MaxBacklog
    /\ retry' = FALSE
    /\ StartsSession
    /\ blocks' = blocks \o GateBlocks(layoutGrid)
    /\ UNCHANGED <<session, mainQueue, retired, layoutGrid, fdVars, streamVars,
                   daemonVars, layouts>>

-----------------------------------------------------------------------------
(* The background block: openPane. *)

OpenConnects ==
    /\ opening = "asked" /\ up
    /\ opening' = "opened"
    /\ fdOpen' = TRUE
    /\ stopped' = FALSE /\ reader' = "off"
    /\ conn' = conn + 1
    /\ peer' = TRUE
    /\ frames' = frames + 1
    /\ crossed' = (asked # <<>>)
    /\ onWire' = <<SizeOf(ptyGrid, TRUE, conn + 1),
                   Chunk("SNAPSHOT", frames + 1, conn + 1),
                   Marker("ATTACHED", conn + 1)>>
    /\ UNCHANGED <<session, retry, mainQueue, retired, layoutGrid, blocks,
                   streamVars, up, asked, ptyGrid, childExited, lost, ends,
                   layouts>>

OpenFails ==
    /\ opening = "asked"
    /\ opening' = "failed"
    /\ UNCHANGED <<session, retry, mainQueue, retired, layoutGrid, fdVars,
                   blocks, streamVars, daemonVars, layouts>>

(* close: nothing when the session has stopped; else the number is freed,  *)
(* and what was under way is gone with the connection.                     *)
Closes ==
    IF stopped \/ ~fdOpen
    THEN UNCHANGED <<fdOpen, stopped, peer, onWire>>
    ELSE /\ stopped' = TRUE
         /\ fdOpen' = FALSE
         /\ peer' = FALSE /\ onWire' = <<>>

(* The result, back on the main queue. *)
OpenReturns ==
    /\ opening \in {"opened", "failed"}
    /\ opening' = "no"
    /\ IF opening = "failed"
       THEN /\ retry' = (retry \/ ~retired)
            /\ UNCHANGED <<session, reader, fdOpen, stopped, peer, onWire>>
       ELSE IF retired
       THEN Closes /\ UNCHANGED <<session, reader, retry>>
       ELSE /\ session' = TRUE /\ reader' = "reads"
            /\ UNCHANGED <<retry, fdOpen, stopped, peer, onWire>>
    /\ UNCHANGED <<mainQueue, retired, layoutGrid, blocks, streamVars, up,
                   conn, asked, crossed, ptyGrid, childExited, frames, lost,
                   ends, layouts>>

-----------------------------------------------------------------------------
(* Main queue: what the other threads hop to it. *)

(* Every block of the stream queue finds `retired` set from then on, and   *)
(* does nothing that is seen: they are dropped here.                       *)
Retires ==
    /\ retired' = TRUE
    /\ blocks' = <<>>
    /\ session' = FALSE
    /\ IF session THEN Closes ELSE UNCHANGED <<fdOpen, stopped, peer, onWire>>

(* retire: the tab is closed, or its workspace reconnects. *)
UserRetires ==
    /\ ~retired
    /\ Retires
    /\ UNCHANGED <<opening, retry, mainQueue, layoutGrid, reader,
                   streamVars, up, conn, asked, crossed, ptyGrid, childExited,
                   frames, lost, ends, layouts>>

(* sessionDisconnected *)
MainHearsGone ==
    /\ mainQueue # <<>> /\ Head(mainQueue) = "gone"
    /\ mainQueue' = Tail(mainQueue)
    /\ IF retired
       THEN UNCHANGED <<session, blocks>>
       ELSE /\ session' = FALSE
            /\ blocks' = Append(blocks, Block("lost", NoGrid))
    /\ UNCHANGED <<opening, retry, retired, layoutGrid, fdVars, streamVars,
                   daemonVars, layouts>>

(* onExited: the coordinator retires the host and kills the pane. *)
MainHearsExit ==
    /\ mainQueue # <<>> /\ Head(mainQueue) = "exited"
    /\ mainQueue' = Tail(mainQueue)
    /\ Retires
    /\ UNCHANGED <<opening, retry, layoutGrid, reader,
                   streamVars, up, conn, asked, crossed, ptyGrid, childExited,
                   frames, lost, ends, layouts>>

-----------------------------------------------------------------------------
(* The reader thread. *)

ReaderDelivers ==
    /\ reader = "reads" /\ onWire # <<>> /\ fdOpen
    /\ blocks' = IF retired THEN blocks ELSE Append(blocks, Head(onWire))
    /\ onWire' = Tail(onWire)
    /\ UNCHANGED <<mainVars, fdVars, streamVars, up, peer, conn, asked,
                   crossed, ptyGrid, childExited, frames, lost, ends, layouts>>

(* Mutant: the end is announced only to a session that was stopped. *)
ReaderEndsSilently ==
    /\ reader = "reads" /\ ~peer /\ (onWire = <<>> \/ ~fdOpen)
    /\ reader' = "done"
    /\ fdOpen' = FALSE
    /\ mainQueue' = IF stopped THEN Append(mainQueue, "gone") ELSE mainQueue
    /\ UNCHANGED <<session, opening, retry, retired, layoutGrid, stopped,
                   blocks, streamVars, daemonVars, layouts>>

(* EOF: the number it read from is closed, whoever holds it by now.        *)
ReaderEnds ==
    /\ reader = "reads" /\ ~peer /\ (onWire = <<>> \/ ~fdOpen)
    /\ reader' = "done"
    /\ fdOpen' = FALSE
    /\ mainQueue' = IF stopped THEN mainQueue ELSE Append(mainQueue, "gone")
    /\ UNCHANGED <<session, opening, retry, retired, layoutGrid, stopped,
                   blocks, streamVars, daemonVars, layouts>>

-----------------------------------------------------------------------------
(* send: a write that fails stops the session.                             *)
Sends(g, on) ==
    IF session /\ ~stopped /\ fdOpen
    THEN /\ stopped' = ~peer
         /\ asked' = IF peer THEN Append(asked, g) ELSE asked
         /\ crossed' = (crossed \/ on # conn)
    ELSE UNCHANGED <<stopped, asked, crossed>>

(* Input of the user: of interest where it meets a connection that is gone.*)
UserTypes ==
    /\ ~gate /\ session /\ ~stopped /\ fdOpen /\ ~peer
    /\ stopped' = TRUE
    /\ UNCHANGED <<mainVars, fdOpen, reader, blocks,
                   streamVars, daemonVars, layouts>>

-----------------------------------------------------------------------------
(* The stream queue. *)

HeadIs(kind) == blocks # <<>> /\ Head(blocks).kind = kind

(* The core is given chunks, and told markers behind them, with the gate   *)
(* and the grid it finds.  Amiss are: a replay that could be answered,     *)
(* live output that could not, a chunk under another grid than the         *)
(* stream's.                                                               *)
Lives(f) == f.conn = conn /\ reader = "reads"

GivenTo(chunks, markers, closed, grid) ==
    LET met == Range(chunks) \cup markers
    IN  /\ fed' = fed \o Numbers(chunks)
        /\ amiss' = amiss
             \cup {"answered" : f \in {g \in met : g.replay /\ ~closed}}
             \cup {"muted" : f \in {g \in met :
                                   g.kind = "OUTPUT" /\ Lives(g) /\ closed}}
             \cup {"misfit" : f \in {g \in met :
                                   g.kind = "SNAPSHOT" /\ grid # streamGrid}}

Given(chunks, markers) == GivenTo(chunks, markers, gate, installedGrid)

(* flushCoalescedOutput before a marker *)
Flushed ==
    /\ coalesced' = <<>>
    /\ UNCHANGED <<parked, drainScheduled, hold>>

RunGate ==
    /\ HeadIs("gate")
    /\ blocks' = Tail(blocks)
    /\ gate' = TRUE
    /\ UNCHANGED <<mainVars, fdVars, attached, drainVars, gridVars, coreVars,
                   daemonVars, layouts>>

(* Mutant: output that waits to be drained goes with its connection. *)
LostDropsOutput ==
    /\ HeadIs("lost")
    /\ blocks' = Tail(blocks)
    /\ attached' = 0
    /\ gate' = TRUE
    /\ coalesced' = <<>>
    /\ UNCHANGED <<mainVars, fdVars, parked, drainScheduled, hold, gridVars,
                   coreVars, daemonVars, layouts>>

RunLost ==
    /\ HeadIs("lost")
    /\ blocks' = Tail(blocks)
    /\ attached' = 0
    /\ gate' = TRUE
    /\ UNCHANGED <<mainVars, fdVars, drainVars, gridVars, coreVars,
                   daemonVars, layouts>>

(* streamResizeIfNeeded *)
RunResize ==
    /\ HeadIs("resize")
    /\ blocks' = Tail(blocks)
    /\ LET g == Head(blocks).grid
       IN  IF attached # 0 /\ g # requestedGrid
           THEN /\ requestedGrid' = g
                /\ hold' = TRUE
                /\ Sends(g, attached)
           ELSE UNCHANGED <<requestedGrid, hold, stopped, asked, crossed>>
    /\ UNCHANGED <<mainVars, fdOpen, reader, attached, gate, parked,
                   coalesced, drainScheduled, streamGrid, installedGrid,
                   coreVars, up, peer, conn, onWire, ptyGrid, childExited,
                   frames, lost, ends, layouts>>

ReceiveSize ==
    /\ HeadIs("SIZE")
    /\ blocks' = Tail(blocks)
    /\ Flushed
    /\ streamGrid' = Head(blocks).grid
    /\ installedGrid' = Head(blocks).grid
    /\ Given(coalesced, {Head(blocks)})
    /\ UNCHANGED <<mainVars, fdVars, attached, gate, requestedGrid,
                   daemonVars, layouts>>

ReceiveSnapshot ==
    /\ HeadIs("SNAPSHOT")
    /\ blocks' = Tail(blocks)
    /\ Flushed
    /\ Given(Append(coalesced, Head(blocks)), {})
    /\ UNCHANGED <<mainVars, fdVars, attached, gate, gridVars, daemonVars,
                   layouts>>

ReceiveOutput ==
    /\ HeadIs("OUTPUT")
    /\ coalesced' = Append(coalesced, Head(blocks))
    /\ drainScheduled' = TRUE
    /\ blocks' = IF drainScheduled THEN Tail(blocks)
                 ELSE Append(Tail(blocks), Block("drain", NoGrid))
    /\ UNCHANGED <<mainVars, fdVars, attached, gate, parked, hold, gridVars,
                   coreVars, daemonVars, layouts>>

(* Mutant: the gate is opened before the final grid is installed. *)
AttachedOpensFirst ==
    /\ HeadIs("ATTACHED")
    /\ blocks' = Tail(blocks)
    /\ Flushed
    /\ attached' = Head(blocks).conn
    /\ gate' = FALSE
    /\ requestedGrid' = layoutGrid
    /\ installedGrid' = layoutGrid
    /\ GivenTo(coalesced, {Head(blocks)}, FALSE, layoutGrid)
    /\ IF layoutGrid # streamGrid
       THEN Sends(layoutGrid, Head(blocks).conn)
       ELSE UNCHANGED <<stopped, asked, crossed>>
    /\ UNCHANGED <<mainVars, fdOpen, reader, streamGrid, up, peer, conn,
                   onWire, ptyGrid, childExited, frames, lost, ends, layouts>>

(* Mutant: the daemon's size is taken to be what the layout asked for. *)
AttachedKeepsSize ==
    /\ HeadIs("ATTACHED")
    /\ blocks' = Tail(blocks)
    /\ Flushed
    /\ attached' = Head(blocks).conn
    /\ gate' = FALSE
    /\ requestedGrid' = layoutGrid
    /\ installedGrid' = layoutGrid
    /\ Given(coalesced, {Head(blocks)})
    /\ UNCHANGED <<mainVars, fdVars, streamGrid, daemonVars, layouts>>

(* A session starts with a grid, so lastLayoutGrid is set by now. *)
ReceiveAttached ==
    /\ HeadIs("ATTACHED")
    /\ blocks' = Tail(blocks)
    /\ Flushed
    /\ attached' = Head(blocks).conn
    /\ gate' = FALSE
    /\ requestedGrid' = layoutGrid
    /\ installedGrid' = layoutGrid
    /\ Given(coalesced, {Head(blocks)})
    /\ IF layoutGrid # streamGrid
       THEN Sends(layoutGrid, Head(blocks).conn)
       ELSE UNCHANGED <<stopped, asked, crossed>>
    /\ UNCHANGED <<mainVars, fdOpen, reader, streamGrid, up, peer, conn,
                   onWire, ptyGrid, childExited, frames, lost, ends, layouts>>

ReceiveExited ==
    /\ HeadIs("EXITED")
    /\ blocks' = Tail(blocks)
    /\ Flushed
    /\ Given(coalesced, {})
    /\ mainQueue' = Append(mainQueue, "exited")
    /\ UNCHANGED <<session, opening, retry, retired, layoutGrid, fdVars,
                   attached, gate, gridVars, daemonVars, layouts>>

(* runCoalescedDrain: inside the hold it comes back later. *)
RunDrain ==
    /\ HeadIs("drain")
    /\ blocks' = Tail(blocks)
    /\ IF hold
       THEN parked' = TRUE /\ UNCHANGED <<drainScheduled, coalesced, coreVars>>
       ELSE /\ drainScheduled' = FALSE
            /\ coalesced' = <<>>
            /\ Given(coalesced, {})
            /\ UNCHANGED parked
    /\ UNCHANGED <<mainVars, fdVars, attached, gate, hold, gridVars, daemonVars,
                   layouts>>

HoldPasses ==
    /\ hold /\ ~retired
    /\ hold' = FALSE
    /\ UNCHANGED <<mainVars, fdVars, blocks, attached, gate, parked, coalesced,
                   drainScheduled, gridVars, coreVars, daemonVars, layouts>>

DrainReturns ==
    /\ parked /\ ~retired
    /\ parked' = FALSE
    /\ blocks' = Append(blocks, Block("drain", NoGrid))
    /\ UNCHANGED <<mainVars, fdVars, attached, gate, coalesced, drainScheduled,
                   hold, gridVars, coreVars, daemonVars, layouts>>

-----------------------------------------------------------------------------
(* The daemon and the way to it. *)

DaemonOutputs ==
    /\ peer /\ ~childExited /\ ~retired /\ frames < MaxFrames
    /\ frames' = frames + 1
    /\ onWire' = Append(onWire, Chunk("OUTPUT", frames + 1, conn))
    /\ UNCHANGED <<mainVars, fdVars, blocks, streamVars, up, peer, conn,
                   asked, crossed, ptyGrid, childExited, lost, ends, layouts>>

DaemonResizes ==
    /\ asked # <<>> /\ ~retired
    /\ asked' = Tail(asked)
    /\ ptyGrid' = Head(asked)
    /\ onWire' = IF peer /\ Head(asked) # ptyGrid
               THEN Append(onWire, SizeOf(Head(asked), FALSE, conn)) ELSE onWire
    /\ UNCHANGED <<mainVars, fdVars, blocks, streamVars, up, peer, conn,
                   crossed, childExited, frames, lost, ends, layouts>>

(* The channel ends behind EXITED and the daemon closes the connection. *)
ChildExits ==
    /\ ~childExited /\ conn > 0 /\ ~retired /\ ends < MaxEnds
    /\ ends' = ends + 1
    /\ childExited' = TRUE
    /\ peer' = FALSE
    /\ onWire' = IF peer THEN Append(onWire, Marker("EXITED", conn)) ELSE onWire
    /\ UNCHANGED <<mainVars, fdVars, blocks, streamVars, up, conn, asked,
                   crossed, ptyGrid, frames, lost, layouts>>

(* The connection is lost, alone or with the link: what had not arrived is *)
(* lost in both directions.                                                *)
ConnBreaks ==
    /\ peer /\ ~retired /\ ends < MaxEnds
    /\ ends' = ends + 1
    /\ peer' = FALSE
    /\ up' \in {up, FALSE}
    /\ \E i \in 0 .. Len(onWire) :
           /\ onWire' = SubSeq(onWire, 1, i)
           /\ lost' = lost \cup ({onWire[k].n : k \in i + 1 .. Len(onWire)} \ {0})
    /\ \E i \in 0 .. Len(asked) : asked' = SubSeq(asked, 1, i)
    /\ UNCHANGED <<mainVars, fdVars, blocks, streamVars, conn, crossed,
                   ptyGrid, childExited, frames, layouts>>

LinkReturns ==
    /\ ~up /\ ~retired
    /\ up' = TRUE
    /\ UNCHANGED <<mainVars, fdVars, blocks, streamVars, peer, conn, onWire,
                   asked, crossed, ptyGrid, childExited, frames, lost, ends,
                   layouts>>

-----------------------------------------------------------------------------
MainRuns ==
    \/ LayoutAgain \/ RetryStarts \/ OpenReturns \/ MainHearsGone \/ MainHearsExit

StreamRuns ==
    \/ RunGate \/ RunLost \/ RunResize \/ RunDrain
    \/ ReceiveSize \/ ReceiveSnapshot \/ ReceiveOutput
    \/ ReceiveAttached \/ ReceiveExited

ReaderRuns == ReaderDelivers \/ ReaderEnds

ClientUser == UserRetires \/ UserTypes \/ \E g \in Grid : LayoutChanges(g)

ClientWorld ==
    \/ DaemonOutputs \/ DaemonResizes \/ ChildExits \/ ConnBreaks \/ LinkReturns

ClientNext ==
    \/ MainRuns \/ StreamRuns \/ ReaderRuns \/ ClientUser \/ ClientWorld
    \/ OpenConnects \/ OpenFails \/ HoldPasses \/ DrainReturns

ClientSpec == ClientInit /\ [][ClientNext]_clientVars

(* Queues and threads run, timers fire, a pane without a session is laid   *)
(* out again (a link that comes up refreshes the window), the link comes   *)
(* back, and a connection tried for ever is accepted once.                 *)
ClientFairness ==
    /\ WF_clientVars(LayoutAgain) /\ WF_clientVars(RetryStarts)
    /\ WF_clientVars(OpenReturns)
    /\ WF_clientVars(MainHearsGone \/ MainHearsExit)
    /\ WF_clientVars(OpenConnects \/ OpenFails) /\ SF_clientVars(OpenConnects)
    /\ WF_clientVars(ReaderRuns) /\ WF_clientVars(StreamRuns)
    /\ WF_clientVars(HoldPasses) /\ WF_clientVars(DrainReturns)
    /\ WF_clientVars(LinkReturns)

ClientFairSpec == ClientSpec /\ ClientFairness

-----------------------------------------------------------------------------
ClientTypeOK ==
    /\ session \in BOOLEAN /\ opening \in {"no", "asked", "opened", "failed"}
    /\ retry \in BOOLEAN /\ retired \in BOOLEAN
    /\ mainQueue \in Seq({"gone", "exited"})
    /\ {layoutGrid, streamGrid, requestedGrid, installedGrid}
           \subseteq Grid \cup {NoGrid}
    /\ fdOpen \in BOOLEAN /\ stopped \in BOOLEAN /\ reader \in {"off", "reads", "done"}
    /\ attached \in 0 .. conn /\ gate \in BOOLEAN
    /\ parked \in BOOLEAN /\ drainScheduled \in BOOLEAN /\ hold \in BOOLEAN
    /\ up \in BOOLEAN /\ peer \in BOOLEAN /\ childExited \in BOOLEAN
    /\ crossed \in BOOLEAN
    /\ ptyGrid \in Grid /\ asked \in Seq(Grid)
    /\ lost \subseteq 1 .. frames

(* Chunks are numbered as they are sent; what is no chunk has the number 0. *)
Rising(s) == \A i, j \in DOMAIN s : i < j /\ s[i] # 0 /\ s[j] # 0 => s[i] < s[j]

(***************************************************************************)
(* "Byte order across stream markers is absolute": the terminal core gets  *)
(* every chunk that reached the GUI once and in the order of the wire,     *)
(* through coalescing, held drains, lost connections and replays.          *)
(***************************************************************************)
FedInOrder ==
    LET all == fed \o Numbers(coalesced) \o Numbers(blocks) \o Numbers(onWire)
    IN  ~retired => Rising(all) /\ Range(all) \ {0} = 1 .. frames \ lost

(***************************************************************************)
(* "No parser-generated write may escape before ATTACHED", and none is     *)
(* swallowed after it: what the core is given of a replay -- chunks, sizes *)
(* and the final grid -- finds the gate closed, chunks of a replay find    *)
(* the grid they were streamed under, and live output finds the gate open  *)
(* as long as its connection lives.                                        *)
(***************************************************************************)
ReplayIsQuiet == amiss = {}

(***************************************************************************)
(* When everything has been delivered, the layout, the terminal core and   *)
(* the PTY agree about the size, however layouts met the attach -- unless  *)
(* a resize crossed it: sent by a block of the connection before, or       *)
(* served late.                                                            *)
(***************************************************************************)
Delivered ==
    /\ session /\ peer /\ attached = conn /\ ~stopped /\ ~childExited
    /\ blocks = <<>> /\ onWire = <<>> /\ asked = <<>>

GeometryAgrees ==
    Delivered /\ ~crossed => installedGrid = layoutGrid /\ ptyGrid = layoutGrid

(***************************************************************************)
(* A pane whose connection was lost shows its session again, or is retired *)
(* and has given its descriptor back, whatever its session, its reader and *)
(* an open under way were doing -- unless a write met the lost connection  *)
(* first (`stopped`).                                                      *)
(***************************************************************************)
Shown == session /\ peer /\ attached = conn

LetGo == retired /\ ~fdOpen

QuietPaneComesBack ==
    (conn > 0 /\ ~peer) ~> (Shown \/ LetGo \/ (session /\ stopped))

(***************************************************************************)
(* "Panes re-attach with replay once the new forward is up -- no manual    *)
(* reconnect": violated, as a write that fails stops the session and a     *)
(* stopped session does not announce its end.                              *)
(***************************************************************************)
PaneComesBack == (conn > 0 /\ ~peer) ~> (Shown \/ retired)
=============================================================================
