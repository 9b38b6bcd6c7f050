-------------------------- MODULE PaneClientProofs --------------------------
(***************************************************************************)
(* PaneClient proved: its types, that nothing is amiss, that chunks stay   *)
(* in order, and that sizes agree (the last two at the end, with their own *)
(* invariants).  The queue of the pane is its blocks followed by the       *)
(* frames that the reader has not read.  Behind the head of that queue the *)
(* gate is what the markers in front of an item make of it, so the         *)
(* invariant says of every frame of a replay that a block which closes the *)
(* gate comes in front of it, behind every ATTACHED; of every SNAPSHOT the *)
(* same with SIZE and the grid; and of live output that an ATTACHED comes  *)
(* in front of it and no block that closes the gate behind that.  It rests *)
(* on the turns that main queue, opener and reader take: a connection is   *)
(* opened behind the block of its start, and when the reader of the last   *)
(* one is done.                                                            *)
(***************************************************************************)
EXTENDS PaneClient, SequenceFacts, TLAPS

Kind == {"gate", "resize", "lost", "drain",
         "SIZE", "SNAPSHOT", "OUTPUT", "ATTACHED", "EXITED"}

Item == [kind : Kind, grid : Grid \cup {NoGrid}, n : Nat, conn : Nat,
         replay : BOOLEAN]

(* What can be queued when `f` chunks were sent over `c` connections. *)
Items(f, c) ==
    {x \in Item : /\ x.n <= f /\ x.conn <= c
                  /\ x.kind \in {"resize", "SIZE"} => x.grid \in Grid
                  /\ x.kind = "ATTACHED" => x.conn > 0
                  /\ x.kind = "OUTPUT" => ~x.replay
                  /\ x.kind \notin {"SNAPSHOT", "OUTPUT"} => x.n = 0}

(* A session is started with a grid, and the grid is kept from then on. *)
LaidOut == conn > 0 \/ opening # "no" \/ retry => layoutGrid \in Grid

Queued == Items(frames, conn)

Bounded ==
    /\ conn \in Nat /\ frames \in Nat
    /\ {blocks, onWire, coalesced} \subseteq Seq(Queued)

(* The types again, Booleans apart. *)
Flags ==
    /\ session \in BOOLEAN /\ retry \in BOOLEAN /\ retired \in BOOLEAN
    /\ fdOpen \in BOOLEAN /\ stopped \in BOOLEAN /\ gate \in BOOLEAN
    /\ parked \in BOOLEAN /\ drainScheduled \in BOOLEAN /\ hold \in BOOLEAN
    /\ up \in BOOLEAN /\ peer \in BOOLEAN /\ childExited \in BOOLEAN
    /\ crossed \in BOOLEAN

Modes ==
    /\ opening \in {"no", "asked", "opened", "failed"}
    /\ reader \in {"off", "reads", "done"}

Sizes ==
    /\ {layoutGrid, streamGrid, requestedGrid, installedGrid}
           \subseteq Grid \cup {NoGrid}
    /\ ptyGrid \in Grid /\ asked \in Seq(Grid)
    /\ LaidOut

Counters ==
    /\ mainQueue \in Seq({"gone", "exited"})
    /\ attached \in 0 .. conn
    /\ lost \subseteq 1 .. frames

TypeInv == Flags /\ Modes /\ Sizes /\ Counters /\ Bounded

-----------------------------------------------------------------------------
(* More frames and connections only make room for more. *)
LEMMA ItemsGrow ==
    ASSUME NEW f \in Nat, NEW c \in Nat, NEW g \in Nat, NEW d \in Nat,
           f <= g, c <= d
    PROVE  /\ Items(f, c) \subseteq Items(g, d)
           /\ Seq(Items(f, c)) \subseteq Seq(Items(g, d))
<1>1. ASSUME NEW x \in Items(f, c) PROVE x \in Items(g, d)
  <2>1. x \in Item /\ x.n <= f /\ x.conn <= c
    BY DEF Items
  <2>2. x.n \in Nat /\ x.conn \in Nat
    BY <2>1 DEF Item
  <2>3. x.n <= g /\ x.conn <= d
    BY <2>1, <2>2
  <2> QED
    BY <2>1, <2>3 DEF Items
<1> QED
  BY <1>1

(* An attach opens with a size, a replay and the end of the replay, *)
LEMMA OpeningTypes ==
    ASSUME NEW f \in Nat, NEW c \in Nat \ {0}, NEW g \in Grid,
           NEW n \in Nat, n <= f
    PROVE  /\ SizeOf(g, TRUE, c) \in Items(f, c)
           /\ Chunk("SNAPSHOT", n, c) \in Items(f, c)
           /\ Marker("ATTACHED", c) \in Items(f, c)
BY DEF SizeOf, Chunk, Marker, Items, Item, Kind

(* and what follows is live. *)
LEMMA LiveTypes ==
    ASSUME NEW f \in Nat, NEW c \in Nat, NEW g \in Grid, NEW n \in Nat, n <= f
    PROVE  /\ SizeOf(g, FALSE, c) \in Items(f, c)
           /\ Chunk("OUTPUT", n, c) \in Items(f, c)
           /\ Marker("EXITED", c) \in Items(f, c)
<1>1. ~("OUTPUT" = "SNAPSHOT") /\ ~("EXITED" = "ATTACHED")
  OBVIOUS
<1>2. /\ Chunk("OUTPUT", n, c) =
             [kind |-> "OUTPUT", grid |-> NoGrid, n |-> n, conn |-> c,
              replay |-> FALSE]
      /\ Marker("EXITED", c) =
             [kind |-> "EXITED", grid |-> NoGrid, n |-> 0, conn |-> c,
              replay |-> FALSE]
  BY <1>1, Zenon DEF Chunk, Marker
<1>3. /\ [kind |-> "OUTPUT", grid |-> NoGrid, n |-> n, conn |-> c,
          replay |-> FALSE] \in Items(f, c)
      /\ [kind |-> "EXITED", grid |-> NoGrid, n |-> 0, conn |-> c,
          replay |-> FALSE] \in Items(f, c)
      /\ SizeOf(g, FALSE, c) \in Items(f, c)
  BY DEF SizeOf, Items, Item, Kind
<1> QED
  BY <1>2, <1>3, Zenon

(* The blocks of a layout, *)
LEMMA BlockTypes ==
    ASSUME conn \in Nat, frames \in Nat, NEW g \in Grid
    PROVE  /\ Block("gate", g) \in Queued /\ Block("resize", g) \in Queued
           /\ GateBlocks(g) \in Seq(Queued)
<1>1. Block("gate", g) \in Queued /\ Block("resize", g) \in Queued
  BY DEF Queued, Block, Items, Item, Kind
<1>2. GateBlocks(g) \in Seq(Queued)
  BY <1>1 DEF GateBlocks
<1> QED
  BY <1>1, <1>2

(* and those without a grid. *)
LEMMA PlainBlockTypes ==
    ASSUME conn \in Nat, frames \in Nat
    PROVE  Block("lost", NoGrid) \in Queued /\ Block("drain", NoGrid) \in Queued
BY DEF Queued, Block, Items, Item, Kind

(* The first state has these types. *)
LEMMA TypeInit ==
    ASSUME ClientInit
    PROVE  TypeInv
<1> USE ClientAssumption
<1>1. ptyGrid \in Grid
  BY DEF ClientInit
<1>2. Flags
  BY DEF ClientInit, Flags
<1>3. Sizes
  BY <1>1 DEF ClientInit, Sizes, LaidOut
<1>4. Counters /\ Bounded
  BY DEF ClientInit, Counters, Bounded
<1>5. Modes
  BY DEF ClientInit, Modes
<1> QED
  BY <1>2, <1>3, <1>4, <1>5 DEF TypeInv

(* The Booleans stay Booleans, *)
LEMMA FlagsStep ==
    ASSUME Flags, [ClientNext]_clientVars
    PROVE  Flags'
<1> USE DEF mainVars, fdVars, gridVars, coreVars, drainVars, streamVars,
            daemonVars
<1> USE DEF Flags
<1>1. ASSUME NEW g \in Grid, LayoutChanges(g) PROVE Flags'
  BY <1>1 DEF LayoutChanges, StartsSession
<1>2. CASE LayoutAgain
  BY <1>2 DEF LayoutAgain, StartsSession
<1>3. CASE RetryStarts
  BY <1>3, ZenonT(60) DEF RetryStarts, StartsSession
<1>4. CASE OpenConnects
  BY <1>4 DEF OpenConnects
<1>5. CASE OpenFails
  BY <1>5 DEF OpenFails
<1>6. CASE OpenReturns
  <2>1. CASE opening = "failed"
    BY <1>6, <2>1 DEF OpenReturns
  <2>2. CASE opening # "failed" /\ retired
    BY <1>6, <2>2, ZenonT(60) DEF OpenReturns, Closes
  <2>3. CASE opening # "failed" /\ ~retired
    BY <1>6, <2>3 DEF OpenReturns
  <2> QED
    BY <2>1, <2>2, <2>3
<1>7. CASE UserRetires
  BY <1>7, ZenonT(60) DEF UserRetires, Retires, Closes
<1>8. CASE MainHearsGone
  BY <1>8, ZenonT(60) DEF MainHearsGone
<1>9. CASE MainHearsExit
  BY <1>9, ZenonT(60) DEF MainHearsExit, Retires, Closes
<1>10. CASE ReaderDelivers
  BY <1>10 DEF ReaderDelivers
<1>11. CASE ReaderEnds
  BY <1>11 DEF ReaderEnds
<1>12. CASE UserTypes
  BY <1>12 DEF UserTypes
<1>13. CASE RunGate
  BY <1>13 DEF RunGate
<1>14. CASE RunLost
  BY <1>14 DEF RunLost
<1>15. CASE RunResize
  <2>1. UNCHANGED <<stopped, crossed>> \/ \E g, c : Sends(g, c)
    BY <1>15 DEF RunResize
  <2>2. stopped' \in BOOLEAN /\ crossed' \in BOOLEAN
    BY <2>1 DEF Sends
  <2>3. hold' \in BOOLEAN
    BY <1>15 DEF RunResize
  <2> QED
    BY <1>15, <2>2, <2>3 DEF RunResize
<1>16. CASE ReceiveSize
  BY <1>16 DEF ReceiveSize, Flushed
<1>17. CASE ReceiveSnapshot
  BY <1>17 DEF ReceiveSnapshot, Flushed
<1>18. CASE ReceiveOutput
  BY <1>18 DEF ReceiveOutput
<1>19. CASE ReceiveAttached
  BY <1>19, ZenonT(60) DEF ReceiveAttached, Sends, Flushed
<1>20. CASE ReceiveExited
  BY <1>20 DEF ReceiveExited, Flushed
<1>21. CASE RunDrain
  BY <1>21, ZenonT(60) DEF RunDrain
<1>22. CASE HoldPasses
  BY <1>22 DEF HoldPasses
<1>23. CASE DrainReturns
  BY <1>23 DEF DrainReturns
<1>24. CASE DaemonOutputs
  BY <1>24 DEF DaemonOutputs
<1>25. CASE DaemonResizes
  BY <1>25 DEF DaemonResizes
<1>26. CASE ChildExits
  BY <1>26 DEF ChildExits
<1>27. CASE ConnBreaks
  BY <1>27, ZenonT(60) DEF ConnBreaks
<1>28. CASE LinkReturns
  BY <1>28 DEF LinkReturns
<1>29. CASE UNCHANGED clientVars
  BY <1>29 DEF clientVars
<1> QED
  BY <1>1, <1>2, <1>3, <1>4, <1>5, <1>6, <1>7, <1>8, <1>9, <1>10, <1>11, <1>12,
     <1>13, <1>14, <1>15, <1>16, <1>17, <1>18, <1>19, <1>20, <1>21, <1>22,
     <1>23, <1>24, <1>25, <1>26, <1>27, <1>28, <1>29
     DEF ClientNext, MainRuns, StreamRuns, ReaderRuns, ClientUser, ClientWorld

(* and a start and a reader go from one mode to another. *)
LEMMA ModesStep ==
    ASSUME Modes, [ClientNext]_clientVars
    PROVE  Modes'
<1> USE DEF mainVars, fdVars, gridVars, coreVars, drainVars, streamVars,
            daemonVars
<1> USE DEF Modes
<1>1. ASSUME NEW g \in Grid, LayoutChanges(g) PROVE Modes'
  BY <1>1 DEF LayoutChanges, StartsSession
<1>2. CASE LayoutAgain
  BY <1>2 DEF LayoutAgain, StartsSession
<1>3. CASE RetryStarts
  BY <1>3 DEF RetryStarts, StartsSession
<1>4. CASE OpenConnects
  BY <1>4 DEF OpenConnects
<1>5. CASE OpenFails
  BY <1>5 DEF OpenFails
<1>6. CASE OpenReturns
  BY <1>6 DEF OpenReturns, Closes
<1>7. CASE UserRetires
  BY <1>7 DEF UserRetires, Retires, Closes
<1>8. CASE MainHearsGone
  BY <1>8 DEF MainHearsGone
<1>9. CASE MainHearsExit
  BY <1>9 DEF MainHearsExit, Retires, Closes
<1>10. CASE ReaderDelivers
  BY <1>10 DEF ReaderDelivers
<1>11. CASE ReaderEnds
  BY <1>11 DEF ReaderEnds
<1>12. CASE UserTypes
  BY <1>12 DEF UserTypes
<1>13. CASE RunGate
  BY <1>13 DEF RunGate
<1>14. CASE RunLost
  BY <1>14 DEF RunLost
<1>15. CASE RunResize
  BY <1>15 DEF RunResize, Sends
<1>16. CASE ReceiveSize
  BY <1>16 DEF ReceiveSize, Flushed
<1>17. CASE ReceiveSnapshot
  BY <1>17 DEF ReceiveSnapshot, Flushed
<1>18. CASE ReceiveOutput
  BY <1>18 DEF ReceiveOutput
<1>19. CASE ReceiveAttached
  BY <1>19 DEF ReceiveAttached, Sends, Flushed
<1>20. CASE ReceiveExited
  BY <1>20 DEF ReceiveExited, Flushed
<1>21. CASE RunDrain
  BY <1>21 DEF RunDrain
<1>22. CASE HoldPasses
  BY <1>22 DEF HoldPasses
<1>23. CASE DrainReturns
  BY <1>23 DEF DrainReturns
<1>24. CASE DaemonOutputs
  BY <1>24 DEF DaemonOutputs
<1>25. CASE DaemonResizes
  BY <1>25 DEF DaemonResizes
<1>26. CASE ChildExits
  BY <1>26 DEF ChildExits
<1>27. CASE ConnBreaks
  BY <1>27 DEF ConnBreaks
<1>28. CASE LinkReturns
  BY <1>28 DEF LinkReturns
<1>29. CASE UNCHANGED clientVars
  BY <1>29 DEF clientVars
<1> QED
  BY <1>1, <1>2, <1>3, <1>4, <1>5, <1>6, <1>7, <1>8, <1>9, <1>10, <1>11, <1>12,
     <1>13, <1>14, <1>15, <1>16, <1>17, <1>18, <1>19, <1>20, <1>21, <1>22,
     <1>23, <1>24, <1>25, <1>26, <1>27, <1>28, <1>29
     DEF ClientNext, MainRuns, StreamRuns, ReaderRuns, ClientUser, ClientWorld

(* What is at the head of the queue. *)
LEMMA HeadOfQueue ==
    ASSUME Bounded, blocks # <<>>
    PROVE  /\ Head(blocks) \in Queued
           /\ Tail(blocks) \in Seq(Queued)
           /\ Head(blocks).kind \in {"resize", "SIZE"} => Head(blocks).grid \in Grid
           /\ Head(blocks).kind = "ATTACHED" => conn > 0
<1>1. /\ Head(blocks) \in Queued
      /\ Tail(blocks) \in Seq(Queued)
  BY DEF Bounded
<1>2. ASSUME NEW x \in Queued
      PROVE  /\ x.kind \in {"resize", "SIZE"} => x.grid \in Grid
             /\ x.kind = "ATTACHED" => conn > 0
  BY DEF Queued, Items, Item, Bounded
<1> QED
  BY <1>1, <1>2

(* A grid is asked for, or nothing. *)
LEMMA SendsGrid ==
    ASSUME asked \in Seq(Grid), NEW g \in Grid, NEW c, Sends(g, c)
    PROVE  asked' \in Seq(Grid)
BY DEF Sends

(* Grids stay grids, and a pane that was started keeps one. *)
LEMMA SizesStep ==
    ASSUME TypeInv, [ClientNext]_clientVars
    PROVE  Sizes'
<1> USE DEF mainVars, fdVars, gridVars, coreVars, drainVars, streamVars,
            daemonVars
<1> USE ClientAssumption DEF Sizes, LaidOut
<1>0. Sizes /\ Bounded
  BY DEF TypeInv
<1>1. ASSUME NEW g \in Grid, LayoutChanges(g) PROVE Sizes'
  BY <1>1, <1>0 DEF LayoutChanges, StartsSession
<1>2. CASE LayoutAgain
  BY <1>2, <1>0 DEF LayoutAgain, StartsSession
<1>3. CASE RetryStarts
  BY <1>3, <1>0 DEF RetryStarts, StartsSession
<1>4. CASE OpenConnects
  BY <1>4, <1>0 DEF OpenConnects
<1>5. CASE OpenFails
  BY <1>5, <1>0 DEF OpenFails
<1>6. CASE OpenReturns
  BY <1>6, <1>0 DEF OpenReturns, Closes
<1>7. CASE UserRetires
  BY <1>7, <1>0 DEF UserRetires, Retires, Closes
<1>8. CASE MainHearsGone
  BY <1>8, <1>0 DEF MainHearsGone
<1>9. CASE MainHearsExit
  BY <1>9, <1>0 DEF MainHearsExit, Retires, Closes
<1>10. CASE ReaderDelivers
  BY <1>10, <1>0 DEF ReaderDelivers
<1>11. CASE ReaderEnds
  BY <1>11, <1>0 DEF ReaderEnds
<1>12. CASE UserTypes
  BY <1>12, <1>0 DEF UserTypes
<1>13. CASE RunGate
  BY <1>13, <1>0 DEF RunGate
<1>14. CASE RunLost
  BY <1>14, <1>0 DEF RunLost
<1>15. CASE RunResize
  <2>1. Head(blocks).grid \in Grid
    BY <1>15, <1>0, HeadOfQueue DEF RunResize, HeadIs
  <2>2. asked' \in Seq(Grid) /\ requestedGrid' \in Grid \cup {NoGrid}
    BY <1>15, <1>0, <2>1, SendsGrid DEF RunResize
  <2> QED
    BY <1>15, <1>0, <2>2 DEF RunResize
<1>16. CASE ReceiveSize
  <2>1. Head(blocks).grid \in Grid
    BY <1>16, <1>0, HeadOfQueue DEF ReceiveSize, HeadIs
  <2> QED
    BY <1>16, <1>0, <2>1 DEF ReceiveSize
<1>17. CASE ReceiveSnapshot
  BY <1>17, <1>0 DEF ReceiveSnapshot, Flushed
<1>18. CASE ReceiveOutput
  BY <1>18, <1>0 DEF ReceiveOutput
<1>19. CASE ReceiveAttached
  <2>1. layoutGrid \in Grid
    BY <1>19, <1>0, HeadOfQueue DEF ReceiveAttached, HeadIs
  <2>2. asked' \in Seq(Grid)
    BY <1>19, <1>0, <2>1, SendsGrid DEF ReceiveAttached
  <2> QED
    BY <1>19, <1>0, <2>1, <2>2 DEF ReceiveAttached
<1>20. CASE ReceiveExited
  BY <1>20, <1>0 DEF ReceiveExited, Flushed
<1>21. CASE RunDrain
  BY <1>21, <1>0 DEF RunDrain
<1>22. CASE HoldPasses
  BY <1>22, <1>0 DEF HoldPasses
<1>23. CASE DrainReturns
  BY <1>23, <1>0 DEF DrainReturns
<1>24. CASE DaemonOutputs
  BY <1>24, <1>0 DEF DaemonOutputs
<1>25. CASE DaemonResizes
  BY <1>25, <1>0 DEF DaemonResizes
<1>26. CASE ChildExits
  BY <1>26, <1>0 DEF ChildExits
<1>27. CASE ConnBreaks
  BY <1>27, <1>0 DEF ConnBreaks
<1>28. CASE LinkReturns
  BY <1>28, <1>0 DEF LinkReturns
<1>29. CASE UNCHANGED clientVars
  BY <1>29, <1>0 DEF clientVars
<1> QED
  BY <1>1, <1>2, <1>3, <1>4, <1>5, <1>6, <1>7, <1>8, <1>9, <1>10, <1>11, <1>12,
     <1>13, <1>14, <1>15, <1>16, <1>17, <1>18, <1>19, <1>20, <1>21, <1>22,
     <1>23, <1>24, <1>25, <1>26, <1>27, <1>28, <1>29
     DEF ClientNext, MainRuns, StreamRuns, ReaderRuns, ClientUser, ClientWorld

(* Connections and chunks are only counted up. *)
LEMMA Grows ==
    ASSUME Bounded, [ClientNext]_clientVars
    PROVE  /\ conn' \in Nat /\ frames' \in Nat
           /\ conn <= conn' /\ frames <= frames'
           /\ Queued \subseteq Queued' /\ Seq(Queued) \subseteq Seq(Queued')
<1> USE DEF mainVars, fdVars, gridVars, coreVars, drainVars, streamVars,
            daemonVars
<1>0. conn \in Nat /\ frames \in Nat
  BY DEF Bounded
<1>1. \/ UNCHANGED <<conn, frames>>
      \/ conn' = conn + 1 /\ frames' = frames + 1
      \/ conn' = conn /\ frames' = frames + 1
  <2>1. ASSUME NEW g \in Grid, LayoutChanges(g) PROVE UNCHANGED <<conn, frames>>
    BY <2>1 DEF LayoutChanges, StartsSession
  <2>2. CASE LayoutAgain
    BY <2>2 DEF LayoutAgain, StartsSession
  <2>3. CASE RetryStarts
    BY <2>3 DEF RetryStarts, StartsSession
  <2>4. CASE OpenConnects
    BY <2>4 DEF OpenConnects
  <2>5. CASE OpenFails
    BY <2>5 DEF OpenFails
  <2>6. CASE OpenReturns
    BY <2>6 DEF OpenReturns, Closes
  <2>7. CASE UserRetires
    BY <2>7 DEF UserRetires, Retires, Closes
  <2>8. CASE MainHearsGone
    BY <2>8 DEF MainHearsGone
  <2>9. CASE MainHearsExit
    BY <2>9 DEF MainHearsExit, Retires, Closes
  <2>10. CASE ReaderDelivers
    BY <2>10 DEF ReaderDelivers
  <2>11. CASE ReaderEnds
    BY <2>11 DEF ReaderEnds
  <2>12. CASE UserTypes
    BY <2>12 DEF UserTypes
  <2>13. CASE RunGate
    BY <2>13 DEF RunGate
  <2>14. CASE RunLost
    BY <2>14 DEF RunLost
  <2>15. CASE RunResize
    BY <2>15 DEF RunResize, Sends
  <2>16. CASE ReceiveSize
    BY <2>16 DEF ReceiveSize, Flushed
  <2>17. CASE ReceiveSnapshot
    BY <2>17 DEF ReceiveSnapshot, Flushed
  <2>18. CASE ReceiveOutput
    BY <2>18 DEF ReceiveOutput
  <2>19. CASE ReceiveAttached
    BY <2>19 DEF ReceiveAttached, Sends, Flushed
  <2>20. CASE ReceiveExited
    BY <2>20 DEF ReceiveExited, Flushed
  <2>21. CASE RunDrain
    BY <2>21 DEF RunDrain
  <2>22. CASE HoldPasses
    BY <2>22 DEF HoldPasses
  <2>23. CASE DrainReturns
    BY <2>23 DEF DrainReturns
  <2>24. CASE DaemonOutputs
    BY <2>24 DEF DaemonOutputs
  <2>25. CASE DaemonResizes
    BY <2>25 DEF DaemonResizes
  <2>26. CASE ChildExits
    BY <2>26 DEF ChildExits
  <2>27. CASE ConnBreaks
    BY <2>27 DEF ConnBreaks
  <2>28. CASE LinkReturns
    BY <2>28 DEF LinkReturns
  <2>29. CASE UNCHANGED clientVars
    BY <2>29 DEF clientVars
  <2> QED
    BY <2>1, <2>2, <2>3, <2>4, <2>5, <2>6, <2>7, <2>8, <2>9, <2>10, <2>11,
       <2>12, <2>13, <2>14, <2>15, <2>16, <2>17, <2>18, <2>19, <2>20, <2>21,
       <2>22, <2>23, <2>24, <2>25, <2>26, <2>27, <2>28, <2>29
       DEF ClientNext, MainRuns, StreamRuns, ReaderRuns, ClientUser, ClientWorld
<1>2. /\ conn' \in Nat /\ frames' \in Nat
      /\ conn <= conn' /\ frames <= frames'
  BY <1>0, <1>1
<1> QED
  BY <1>0, <1>2, ItemsGrow DEF Queued

(* What an attach puts on the wire. *)
LEMMA ThreeItems ==
    ASSUME NEW S, NEW a \in S, NEW b \in S, NEW c \in S
    PROVE  <<a, b, c>> \in Seq(S)
OBVIOUS

(* What is queued was sent: its chunk and its connection were counted. *)
LEMMA BoundedStep ==
    ASSUME TypeInv, [ClientNext]_clientVars
    PROVE  Bounded'
<1> USE DEF mainVars, fdVars, gridVars, coreVars, drainVars, streamVars,
            daemonVars
<1> USE ClientAssumption
<1>0. /\ conn \in Nat /\ frames \in Nat /\ LaidOut /\ Bounded
      /\ blocks \in Seq(Queued) /\ onWire \in Seq(Queued)
      /\ coalesced \in Seq(Queued)
      /\ ptyGrid \in Grid /\ asked \in Seq(Grid)
  BY DEF TypeInv, Bounded, Sizes
<1> DEFINE G == /\ blocks' \in Seq(Queued) /\ coalesced' \in Seq(Queued)
               /\ onWire' \in Seq(Queued')
<1>a. Seq(Queued) \subseteq Seq(Queued')
  BY <1>0, Grows
<1>b. <<>> \in Seq(Queued)
  BY EmptySeq
<1> SUFFICES G
  BY <1>0, <1>a, Grows DEF Bounded
<1>1. ASSUME NEW g \in Grid, LayoutChanges(g) PROVE G
  <2>1. blocks' \in Seq(Queued)
    BY <1>1, <1>0, BlockTypes DEF LayoutChanges
  <2> QED
    BY <1>1, <1>0, <1>a, <2>1 DEF LayoutChanges
<1>2. CASE LayoutAgain
  <2>1. layoutGrid \in Grid
    BY <1>2 DEF LayoutAgain, TypeInv, Sizes
  <2>2. blocks' \in Seq(Queued)
    BY <1>2, <1>0, <2>1, BlockTypes DEF LayoutAgain
  <2> QED
    BY <1>2, <1>0, <1>a, <2>2 DEF LayoutAgain
<1>3. CASE RetryStarts
  <2>1. layoutGrid \in Grid
    BY <1>3, <1>0 DEF RetryStarts, LaidOut
  <2>2. blocks' \in Seq(Queued)
    BY <1>3, <1>0, <2>1, BlockTypes DEF RetryStarts
  <2> QED
    BY <1>3, <1>0, <1>a, <2>2 DEF RetryStarts
<1>4. CASE OpenConnects
  <2>1. /\ conn + 1 \in Nat \ {0}
        /\ frames + 1 \in Nat /\ frames + 1 <= frames + 1 /\ frames <= frames
    BY <1>0
  <2>2. conn' = conn + 1 /\ frames' = frames + 1
    BY <1>4 DEF OpenConnects
  <2>3. /\ SizeOf(ptyGrid, TRUE, conn + 1) \in Queued'
        /\ Chunk("SNAPSHOT", frames + 1, conn + 1) \in Queued'
        /\ Marker("ATTACHED", conn + 1) \in Queued'
    BY <1>0, <2>1, <2>2, OpeningTypes DEF Queued
  <2>4. onWire' \in Seq(Queued')
    <3>1. onWire' = <<SizeOf(ptyGrid, TRUE, conn + 1),
                      Chunk("SNAPSHOT", frames + 1, conn + 1),
                      Marker("ATTACHED", conn + 1)>>
      BY <1>4, Zenon DEF OpenConnects
    <3> QED
      BY <2>3, <3>1, ThreeItems
  <2> QED
    BY <1>4, <1>0, <2>4 DEF OpenConnects
<1>5. CASE OpenFails
  BY <1>5, <1>0, <1>a DEF OpenFails
<1>6. CASE OpenReturns
  <2>1. onWire' \in {onWire, <<>>}
    BY <1>6, Zenon DEF OpenReturns, Closes
  <2>2. onWire' \in Seq(Queued)
    BY <1>0, <1>b, <2>1
  <2>3. coalesced' = coalesced /\ blocks' = blocks
    BY <1>6 DEF OpenReturns, streamVars, drainVars
  <2> QED
    BY <1>0, <1>a, <2>2, <2>3
<1>7. CASE UserRetires
  <2>1. blocks' = <<>> /\ onWire' \in {onWire, <<>>}
    BY <1>7, Zenon DEF UserRetires, Retires, Closes
  <2>2. onWire' \in Seq(Queued) /\ blocks' \in Seq(Queued)
    BY <1>0, <1>b, <2>1
  <2>3. coalesced' = coalesced
    BY <1>7 DEF UserRetires, streamVars, drainVars
  <2> QED
    BY <1>0, <1>a, <2>2, <2>3
<1>8. CASE MainHearsGone
  <2>1. blocks' \in Seq(Queued)
    <3>1. CASE retired
      BY <1>8, <1>0, <3>1 DEF MainHearsGone
    <3>2. CASE ~retired
      <4>1. Block("lost", NoGrid) \in Queued
        BY <1>0, PlainBlockTypes
      <4> QED
        <5>1. blocks' = Append(blocks, Block("lost", NoGrid))
          BY <1>8, <3>2, Zenon DEF MainHearsGone
        <5> QED
          BY <1>0, <4>1, <5>1, AppendProperties
    <3> QED
      BY <3>1, <3>2
  <2> QED
    BY <1>8, <1>0, <1>a, <2>1 DEF MainHearsGone
<1>9. CASE MainHearsExit
  <2>1. blocks' = <<>> /\ onWire' \in {onWire, <<>>}
    BY <1>9, Zenon DEF MainHearsExit, Retires, Closes
  <2>2. onWire' \in Seq(Queued) /\ blocks' \in Seq(Queued)
    BY <1>0, <1>b, <2>1
  <2>3. coalesced' = coalesced
    BY <1>9 DEF MainHearsExit, streamVars, drainVars
  <2> QED
    BY <1>0, <1>a, <2>2, <2>3
<1>10. CASE ReaderDelivers
  BY <1>10, <1>0, <1>a DEF ReaderDelivers
<1>11. CASE ReaderEnds
  BY <1>11, <1>0, <1>a DEF ReaderEnds
<1>12. CASE UserTypes
  BY <1>12, <1>0, <1>a DEF UserTypes
<1>13. CASE RunGate
  <2>1. blocks' \in Seq(Queued)
    BY <1>13, <1>0, HeadOfQueue DEF RunGate, HeadIs
  <2> QED
    BY <1>13, <1>0, <1>a, <2>1 DEF RunGate
<1>14. CASE RunLost
  <2>1. blocks' \in Seq(Queued)
    BY <1>14, <1>0, HeadOfQueue DEF RunLost, HeadIs
  <2> QED
    BY <1>14, <1>0, <1>a, <2>1 DEF RunLost
<1>15. CASE RunResize
  <2>1. blocks' \in Seq(Queued)
    BY <1>15, <1>0, HeadOfQueue DEF RunResize, HeadIs
  <2> QED
    BY <1>15, <1>0, <1>a, <2>1 DEF RunResize
<1>16. CASE ReceiveSize
  <2>1. blocks' \in Seq(Queued)
    BY <1>16, <1>0, HeadOfQueue DEF ReceiveSize, HeadIs
  <2> QED
    BY <1>16, <1>0, <1>a, <2>1 DEF ReceiveSize, Flushed
<1>17. CASE ReceiveSnapshot
  <2>1. blocks' \in Seq(Queued)
    BY <1>17, <1>0, HeadOfQueue DEF ReceiveSnapshot, HeadIs
  <2> QED
    BY <1>17, <1>0, <1>a, <2>1 DEF ReceiveSnapshot, Flushed
<1>18. CASE ReceiveOutput
  <2>1. /\ Head(blocks) \in Queued /\ Tail(blocks) \in Seq(Queued)
        /\ Block("drain", NoGrid) \in Queued
    BY <1>18, <1>0, HeadOfQueue, PlainBlockTypes DEF ReceiveOutput, HeadIs
  <2>2. blocks' \in Seq(Queued) /\ coalesced' \in Seq(Queued)
    BY <1>18, <1>0, <2>1 DEF ReceiveOutput
  <2> QED
    BY <1>18, <1>0, <1>a, <2>2 DEF ReceiveOutput
<1>19. CASE ReceiveAttached
  <2>1. blocks' \in Seq(Queued)
    BY <1>19, <1>0, HeadOfQueue DEF ReceiveAttached, HeadIs
  <2> QED
    BY <1>19, <1>0, <1>a, <2>1 DEF ReceiveAttached, Flushed
<1>20. CASE ReceiveExited
  <2>1. blocks' \in Seq(Queued)
    BY <1>20, <1>0, HeadOfQueue DEF ReceiveExited, HeadIs
  <2> QED
    BY <1>20, <1>0, <1>a, <2>1 DEF ReceiveExited, Flushed
<1>21. CASE RunDrain
  <2>1. blocks' \in Seq(Queued)
    BY <1>21, <1>0, HeadOfQueue DEF RunDrain, HeadIs
  <2>2. coalesced' \in {coalesced, <<>>}
    BY <1>21, Zenon DEF RunDrain
  <2>3. coalesced' \in Seq(Queued)
    BY <1>0, <1>b, <2>2
  <2>4. onWire' = onWire
    BY <1>21 DEF RunDrain, daemonVars
  <2> QED
    BY <1>0, <1>a, <2>1, <2>3, <2>4
<1>22. CASE HoldPasses
  BY <1>22, <1>0, <1>a DEF HoldPasses
<1>23. CASE DrainReturns
  BY <1>23, <1>0, <1>a, PlainBlockTypes DEF DrainReturns
<1>24. CASE DaemonOutputs
  <2>1. frames + 1 \in Nat /\ frames + 1 <= frames + 1 /\ conn' = conn /\ frames' = frames + 1
    BY <1>24, <1>0 DEF DaemonOutputs
  <2>2. Chunk("OUTPUT", frames + 1, conn) \in Queued'
    BY <1>0, <2>1, LiveTypes DEF Queued
  <2>3. onWire' \in Seq(Queued')
    BY <1>24, <1>0, <1>a, <2>2 DEF DaemonOutputs
  <2> QED
    BY <1>24, <1>0, <2>3 DEF DaemonOutputs
<1>25. CASE DaemonResizes
  <2>1. asked # <<>> => SizeOf(Head(asked), FALSE, conn) \in Queued
    <3>1. asked # <<>> => Head(asked) \in Grid
      BY <1>0
    <3>2. 0 <= frames /\ 0 \in Nat
      BY <1>0
    <3> QED
      BY <1>0, <3>1, <3>2, LiveTypes DEF Queued
  <2>2. onWire' \in Seq(Queued)
    BY <1>25, <1>0, <2>1, Zenon, AppendProperties DEF DaemonResizes
  <2> QED
    BY <1>25, <1>0, <1>a, <2>2 DEF DaemonResizes
<1>26. CASE ChildExits
  <2>1. Marker("EXITED", conn) \in Queued
    BY <1>0, LiveTypes, 0 <= frames DEF Queued
  <2>2. onWire' \in Seq(Queued)
    BY <1>26, <1>0, <2>1 DEF ChildExits
  <2> QED
    BY <1>26, <1>0, <1>a, <2>2 DEF ChildExits
<1>27. CASE ConnBreaks
  BY <1>27, <1>0, <1>a DEF ConnBreaks
<1>28. CASE LinkReturns
  BY <1>28, <1>0, <1>a DEF LinkReturns
<1>29. CASE UNCHANGED clientVars
  BY <1>29, <1>0, <1>a DEF clientVars
<1> QED
  BY <1>1, <1>2, <1>3, <1>4, <1>5, <1>6, <1>7, <1>8, <1>9, <1>10, <1>11, <1>12,
     <1>13, <1>14, <1>15, <1>16, <1>17, <1>18, <1>19, <1>20, <1>21, <1>22,
     <1>23, <1>24, <1>25, <1>26, <1>27, <1>28, <1>29
     DEF ClientNext, MainRuns, StreamRuns, ReaderRuns, ClientUser, ClientWorld

(* Chunks and connections are known once they were counted. *)
LEMMA CountersStep ==
    ASSUME TypeInv, [ClientNext]_clientVars
    PROVE  Counters'
<1> USE DEF mainVars, fdVars, gridVars, coreVars, drainVars, streamVars,
            daemonVars
<1> USE DEF Counters
<1>0. Counters /\ Bounded /\ conn \in Nat /\ frames \in Nat
  BY DEF TypeInv, Bounded
<1>a. /\ conn' \in Nat /\ frames' \in Nat
       /\ conn <= conn' /\ frames <= frames'
  BY <1>0, Grows
<1>b. \A x \in Queued : x.n \in 0 .. frames /\ x.conn \in 0 .. conn
  BY <1>0 DEF Queued, Items, Item
<1>1. ASSUME NEW g \in Grid, LayoutChanges(g) PROVE Counters'
  BY <1>1, <1>0 DEF LayoutChanges, StartsSession
<1>2. CASE LayoutAgain
  BY <1>2, <1>0 DEF LayoutAgain, StartsSession
<1>3. CASE RetryStarts
  BY <1>3, <1>0 DEF RetryStarts, StartsSession
<1>4. CASE OpenConnects
  BY <1>4, <1>0 DEF OpenConnects
<1>5. CASE OpenFails
  BY <1>5, <1>0 DEF OpenFails
<1>6. CASE OpenReturns
  BY <1>6, <1>0 DEF OpenReturns, Closes
<1>7. CASE UserRetires
  BY <1>7, <1>0 DEF UserRetires, Retires, Closes
<1>8. CASE MainHearsGone
  BY <1>8, <1>0 DEF MainHearsGone
<1>9. CASE MainHearsExit
  BY <1>9, <1>0 DEF MainHearsExit, Retires, Closes
<1>10. CASE ReaderDelivers
  BY <1>10, <1>0 DEF ReaderDelivers
<1>11. CASE ReaderEnds
  BY <1>11, <1>0 DEF ReaderEnds
<1>12. CASE UserTypes
  BY <1>12, <1>0 DEF UserTypes
<1>13. CASE RunGate
  BY <1>13, <1>0 DEF RunGate
<1>14. CASE RunLost
  BY <1>14, <1>0 DEF RunLost
<1>15. CASE RunResize
  BY <1>15, <1>0 DEF RunResize, Sends
<1>16. CASE ReceiveSize
  BY <1>16, <1>0 DEF ReceiveSize, Flushed
<1>17. CASE ReceiveSnapshot
  BY <1>17, <1>0 DEF ReceiveSnapshot, Flushed
<1>18. CASE ReceiveOutput
  BY <1>18, <1>0 DEF ReceiveOutput
<1>19. CASE ReceiveAttached
  <2>1. attached' \in 0 .. conn
    BY <1>19, <1>0, <1>b, HeadOfQueue DEF ReceiveAttached, HeadIs
  <2> QED
    BY <1>19, <1>0, <2>1 DEF ReceiveAttached
<1>20. CASE ReceiveExited
  BY <1>20, <1>0 DEF ReceiveExited, Flushed
<1>21. CASE RunDrain
  BY <1>21, <1>0 DEF RunDrain
<1>22. CASE HoldPasses
  BY <1>22, <1>0 DEF HoldPasses
<1>23. CASE DrainReturns
  BY <1>23, <1>0 DEF DrainReturns
<1>24. CASE DaemonOutputs
  BY <1>24, <1>0 DEF DaemonOutputs
<1>25. CASE DaemonResizes
  BY <1>25, <1>0 DEF DaemonResizes
<1>26. CASE ChildExits
  BY <1>26, <1>0 DEF ChildExits
<1>27. CASE ConnBreaks
  <2>1. PICK i \in 0 .. Len(onWire) :
             lost' = lost \cup ({onWire[k].n : k \in i + 1 .. Len(onWire)} \ {0})
    BY <1>27 DEF ConnBreaks
  <2>2. ASSUME NEW k \in i + 1 .. Len(onWire)
        PROVE  onWire[k].n \in 0 .. frames
    <3>1. onWire[k] \in Queued
      BY <1>0, <2>2 DEF Bounded
    <3> QED
      BY <3>1, <1>b
  <2>3. lost' \subseteq 1 .. frames
    <3>1. ASSUME NEW x \in lost' PROVE x \in 1 .. frames
      <4>1. x \in lost \/ (x # 0 /\ \E k \in i + 1 .. Len(onWire) : x = onWire[k].n)
        BY <2>1
      <4>2. x \in lost \/ (x # 0 /\ x \in 0 .. frames)
        BY <4>1, <2>2
      <4>3. lost \subseteq 1 .. frames /\ frames \in Nat
        BY <1>0
      <4>4. x \in 0 .. frames /\ x # 0 => x \in 1 .. frames
        BY <4>3
      <4> QED
        BY <4>2, <4>3, <4>4, Zenon
    <3> QED
      BY <3>1
  <2> QED
    BY <1>27, <1>0, <2>3 DEF ConnBreaks
<1>28. CASE LinkReturns
  BY <1>28, <1>0 DEF LinkReturns
<1>29. CASE UNCHANGED clientVars
  BY <1>29, <1>0 DEF clientVars
<1> QED
  BY <1>1, <1>2, <1>3, <1>4, <1>5, <1>6, <1>7, <1>8, <1>9, <1>10, <1>11, <1>12,
     <1>13, <1>14, <1>15, <1>16, <1>17, <1>18, <1>19, <1>20, <1>21, <1>22,
     <1>23, <1>24, <1>25, <1>26, <1>27, <1>28, <1>29
     DEF ClientNext, MainRuns, StreamRuns, ReaderRuns, ClientUser, ClientWorld

(* Every step keeps the types, *)
LEMMA TypeStep ==
    ASSUME TypeInv, [ClientNext]_clientVars
    PROVE  TypeInv'
BY FlagsStep, ModesStep, SizesStep, CountersStep, BoundedStep DEF TypeInv

(* so they hold always. *)
LEMMA ClientTypeInvariant == ClientSpec => []TypeInv
<1>1. ClientInit => TypeInv
  BY TypeInit
<1>2. TypeInv /\ [ClientNext]_clientVars => TypeInv'
  BY TypeStep
<1> QED
  BY <1>1, <1>2, PTL DEF ClientSpec

(* The types of PaneClient: whatever the queues hold, every grid that is   *)
(* asked for or installed is one, and what is lost was sent.               *)
THEOREM ClientTypeCorrect == ClientSpec => []ClientTypeOK
<1>1. TypeInv => ClientTypeOK
  BY DEF TypeInv, Flags, Modes, Sizes, Counters, ClientTypeOK
<1> QED
  BY <1>1, ClientTypeInvariant, PTL
-----------------------------------------------------------------------------
(* What waits for the stream queue, in the order it will be run. *)
Queue == blocks \o onWire

Shuts == {"gate", "lost"}
Fits == installedGrid = streamGrid

(* At position k of the queue `s` a fact holds that ATTACHED ends, that    *)
(* blocks of the kinds `set` begin, and that holds at the head if `now`.   *)
Guarded(s, now, set, k) ==
    /\ now \/ \E m \in 1 .. k - 1 : s[m].kind \in set
    /\ \A i \in 1 .. k - 1 : s[i].kind = "ATTACHED" =>
           \E m \in i + 1 .. k - 1 : s[m].kind \in set

(* Every item of `items` will find it so. *)
Finds(s, now, set, items) ==
    \A k \in DOMAIN s : s[k] \in items => Guarded(s, now, set, k)

Replays == {x \in Item : x.replay}
Snapshots == {x \in Item : x.kind = "SNAPSHOT"}

Live(x, c) == x.kind = "OUTPUT" /\ x.conn = c
NoneLive(s, c) == \A i \in DOMAIN s : ~Live(s[i], c)

(* Behind position j the gate is not closed again, and live output is      *)
(* behind it; position j opens the gate.                                   *)
OpenFrom(s, j, c) ==
    \A i \in DOMAIN s : /\ s[i].kind \in Shuts => i < j
                        /\ Live(s[i], c) => i > j
OpensAt(s, j, c) == s[j].kind = "ATTACHED" /\ OpenFrom(s, j, c)

(* Live output, held back or queued, will find the gate open.              *)
Opened(s, now, held, there, c) ==
    \/ now /\ OpenFrom(s, 0, c)
    \/ NoneLive(held, c) /\ \E j \in DOMAIN s : OpensAt(s, j, c)
    \/ NoneLive(held, c) /\ ~there /\ NoneLive(s, c)

Unread ==
    reader = "off" =>
        /\ NoneLive(blocks, conn)
        /\ Opened(onWire, FALSE, coalesced, peer, conn)
Reading ==
    reader = "reads" => Opened(Queue, ~gate, coalesced, peer, conn)

Asked == opening = "asked" => Guarded(blocks, gate, Shuts, Len(blocks) + 1)

(* Main queue, opener and reader take turns: a session has a reader, and   *)
(* a new one is asked for when the old one was heard to be gone, once.     *)
Turns ==
    /\ session => reader # "off" /\ opening = "no"
    /\ ~session => reader # "reads"
    /\ opening = "opened" => reader = "off"
    /\ \A i \in DOMAIN mainQueue : mainQueue[i] = "gone" =>
           /\ session /\ reader = "done"
           /\ \A k \in DOMAIN mainQueue : mainQueue[k] = "gone" => k = i

HeldIsOutput == \A i \in DOMAIN coalesced : coalesced[i].kind = "OUTPUT"

Ready ==
    /\ Finds(Queue, gate, Shuts, Replays)
    /\ Finds(Queue, Fits, {"SIZE"}, Snapshots)
    /\ Asked /\ Unread /\ Reading

QuietInv ==
    /\ HeldIsOutput
    /\ IF retired THEN blocks = <<>> ELSE Turns /\ Ready

(* One item more, at position p. *)
Inserted(s, t, p) ==
    /\ Len(t) = Len(s) + 1 /\ p \in 1 .. Len(t)
    /\ \A i \in 1 .. Len(s) : t[IF i < p THEN i ELSE i + 1] = s[i]

(* A queue that was cut off behind some item. *)
CutOff(s, t) ==
    Len(t) <= Len(s) /\ \A i \in 1 .. Len(t) : t[i] = s[i]

-----------------------------------------------------------------------------
(* The head is run: what held for the items behind it holds still, when    *)

(* the fact is made true and false as the head says.                       *)
LEMMA GuardedTail ==
    ASSUME NEW S, NEW s \in Seq(S), s # <<>>, NEW now, NEW next, NEW set,
           NEW k \in 2 .. Len(s) + 1, Guarded(s, now, set, k),
           now /\ Head(s).kind # "ATTACHED" => next,
           Head(s).kind \in set => next
    PROVE  Guarded(Tail(s), next, set, k - 1)
<1>1. /\ Len(s) \in Nat /\ Len(s) > 0 /\ Len(Tail(s)) = Len(s) - 1
      /\ Head(s) = s[1]
      /\ \A i \in 1 .. Len(s) - 1 : Tail(s)[i] = s[i + 1]
  BY HeadTailProperties
<1>2. ASSUME NEW m \in 2 .. k - 1, s[m].kind \in set
      PROVE  m - 1 \in 1 .. k - 2 /\ Tail(s)[m - 1].kind \in set
  BY <1>1, <1>2
<1>3. next \/ \E m \in 1 .. k - 2 : Tail(s)[m].kind \in set
  <2>1. CASE \E m \in 2 .. k - 1 : s[m].kind \in set
    BY <1>2, <2>1
  <2>2. CASE ~ \E m \in 2 .. k - 1 : s[m].kind \in set
    <3>1. s[1].kind # "ATTACHED"
      BY <1>1, <2>2 DEF Guarded
    <3>2. now \/ s[1].kind \in set
      BY <1>1, <2>2 DEF Guarded
    <3> QED
      BY <1>1, <3>1, <3>2
  <2> QED
    BY <2>1, <2>2
<1>4. ASSUME NEW i \in 1 .. k - 2, Tail(s)[i].kind = "ATTACHED"
      PROVE  \E m \in i + 1 .. k - 2 : Tail(s)[m].kind \in set
  <2>1. i + 1 \in 1 .. k - 1 /\ s[i + 1].kind = "ATTACHED"
    BY <1>1, <1>4
  <2>2. PICK m \in i + 2 .. k - 1 : s[m].kind \in set
    BY <2>1 DEF Guarded
  <2> QED
    BY <1>1, <2>2, SMTT(30)
<1> QED
  BY <1>1, <1>3, <1>4 DEF Guarded

(* So every item behind the head still finds what it needs. *)
LEMMA FindsTail ==
    ASSUME NEW S, NEW s \in Seq(S), s # <<>>, NEW now, NEW next, NEW set,
           NEW items, Finds(s, now, set, items),
           now /\ Head(s).kind # "ATTACHED" => next,
           Head(s).kind \in set => next
    PROVE  Finds(Tail(s), next, set, items)
<1>1. /\ Len(s) \in Nat /\ Len(s) > 0 /\ Len(Tail(s)) = Len(s) - 1
      /\ DOMAIN s = 1 .. Len(s) /\ DOMAIN Tail(s) = 1 .. Len(s) - 1
      /\ \A i \in 1 .. Len(s) - 1 : Tail(s)[i] = s[i + 1]
  BY HeadTailProperties
<1>2. ASSUME NEW k \in DOMAIN Tail(s), Tail(s)[k] \in items
      PROVE  Guarded(Tail(s), next, set, k)
  <2>1. k + 1 \in 2 .. Len(s) + 1 /\ k + 1 \in DOMAIN s /\ s[k + 1] \in items
    BY <1>1, <1>2
  <2>2. Guarded(s, now, set, k + 1)
    BY <2>1 DEF Finds
  <2>3. Guarded(Tail(s), next, set, (k + 1) - 1)
    BY <2>1, <2>2, GuardedTail
  <2> QED
    BY <1>1, <2>3
<1> QED
  BY <1>2 DEF Finds

(* An item is queued in the middle that does not end the fact.             *)
LEMMA GuardedInsert ==
    ASSUME NEW S, NEW s \in Seq(S), NEW t \in Seq(S), NEW p, Inserted(s, t, p),
           t[p].kind # "ATTACHED", NEW now, NEW set,
           NEW k \in 1 .. Len(s) + 1, Guarded(s, now, set, k)
    PROVE  Guarded(t, now, set, IF k < p THEN k ELSE k + 1)
<1> DEFINE at(i) == IF i < p THEN i ELSE i + 1
<1>1. /\ Len(s) \in Nat /\ Len(t) = Len(s) + 1 /\ p \in 1 .. Len(s) + 1
      /\ \A i \in 1 .. Len(s) : t[at(i)] = s[i]
  BY DEF Inserted
<1>2. ASSUME NEW m \in 1 .. k - 1
      PROVE  at(m) \in 1 .. at(k) - 1 /\ t[at(m)] = s[m]
  <2>1. m \in 1 .. Len(s) /\ m < k
    BY <1>1
  <2>2. at(m) \in 1 .. at(k) - 1
    BY <1>1, <2>1
  <2> QED
    BY <1>1, <2>1, <2>2
<1>3. now \/ \E m \in 1 .. at(k) - 1 : t[m].kind \in set
  <2>1. now \/ \E m \in 1 .. k - 1 : s[m].kind \in set
    BY DEF Guarded
  <2> QED
    BY <1>2, <2>1
<1>4. ASSUME NEW i \in 1 .. at(k) - 1, t[i].kind = "ATTACHED"
      PROVE  \E m \in i + 1 .. at(k) - 1 : t[m].kind \in set
  <2>1. i # p
    BY <1>4
  <2>2. PICK j \in 1 .. k - 1 : i = at(j)
    <3>1. CASE i < p
      BY <1>1, <3>1, SMTT(30)
    <3>2. CASE i > p
      <4>1. i - 1 \in 1 .. k - 1 /\ i = at(i - 1)
        BY <1>1, <3>2
      <4> QED
        BY <4>1
    <3> QED
      BY <1>1, <2>1, <3>1, <3>2
  <2>3. s[j].kind = "ATTACHED"
    BY <1>2, <1>4, <2>2
  <2>4. PICK m \in j + 1 .. k - 1 : s[m].kind \in set
    BY <2>3 DEF Guarded
  <2>5. at(m) \in i + 1 .. at(k) - 1 /\ t[at(m)].kind \in set
    BY <1>1, <1>2, <2>2, <2>4
  <2> QED
    BY <2>5
<1> QED
  BY <1>3, <1>4 DEF Guarded

(* An item that needs nothing keeps the others from nothing either. *)
LEMMA FindsInsert ==
    ASSUME NEW S, NEW s \in Seq(S), NEW t \in Seq(S), NEW p, Inserted(s, t, p),
           t[p].kind # "ATTACHED", NEW now, NEW set,
           NEW items, t[p] \notin items, Finds(s, now, set, items)
    PROVE  Finds(t, now, set, items)
<1>1. /\ Len(s) \in Nat /\ Len(t) = Len(s) + 1 /\ p \in 1 .. Len(s) + 1
      /\ \A i \in 1 .. Len(s) : t[IF i < p THEN i ELSE i + 1] = s[i]
      /\ DOMAIN s = 1 .. Len(s) /\ DOMAIN t = 1 .. Len(s) + 1
  BY DEF Inserted
<1>2. ASSUME NEW k \in DOMAIN t, t[k] \in items
      PROVE  Guarded(t, now, set, k)
  <2>1. PICK j \in 1 .. Len(s) : k = IF j < p THEN j ELSE j + 1
    <3>1. CASE k < p
      BY <1>1, <3>1
    <3>2. CASE k > p
      <4>1. k - 1 \in 1 .. Len(s) /\ k = (IF k - 1 < p THEN k - 1 ELSE k - 1 + 1)
        BY <1>1, <3>2
      <4> QED
        BY <4>1
    <3> QED
      BY <1>1, <1>2, <3>1, <3>2
  <2>2. j \in DOMAIN s /\ s[j] \in items
    BY <1>1, <1>2, <2>1
  <2>3. Guarded(s, now, set, j)
    BY <2>2 DEF Finds
  <2>4. j \in 1 .. Len(s) + 1
    BY <1>1
  <2> QED
    BY <2>1, <2>3, <2>4, GuardedInsert
<1> QED
  BY <1>2 DEF Finds

(* At the end of the queue: an item that begins the fact, *)
LEMMA GuardedBegins ==
    ASSUME NEW S, NEW s \in Seq(S), NEW x \in S, NEW now, NEW set,
           x.kind \in set, "ATTACHED" \notin set
    PROVE  Guarded(Append(s, x), now, set, Len(s) + 2)
<1>1. /\ Len(s) \in Nat /\ Append(s, x)[Len(s) + 1] = x
      /\ \A i \in 1 .. Len(s) : Append(s, x)[i] = s[i]
  BY AppendProperties
<1>2. Len(s) + 1 \in 1 .. Len(s) + 2 - 1
  BY <1>1
<1>3. ASSUME NEW i \in 1 .. Len(s) + 2 - 1, Append(s, x)[i].kind = "ATTACHED"
      PROVE  \E m \in i + 1 .. Len(s) + 2 - 1 : Append(s, x)[m].kind \in set
  <2>1. i # Len(s) + 1
    BY <1>1, <1>3
  <2> QED
    BY <1>1, <1>2, <2>1
<1> QED
  BY <1>1, <1>2, <1>3 DEF Guarded

(* and one that finds it so.                                               *)
LEMMA FindsAppend ==
    ASSUME NEW S, NEW s \in Seq(S), NEW x \in S, NEW now, NEW set, NEW items,
           Finds(s, now, set, items),
           x \in items => Guarded(s, now, set, Len(s) + 1)
    PROVE  Finds(Append(s, x), now, set, items)
<1>1. /\ Len(s) \in Nat /\ Append(s, x)[Len(s) + 1] = x
      /\ \A i \in 1 .. Len(s) : Append(s, x)[i] = s[i]
      /\ DOMAIN s = 1 .. Len(s) /\ DOMAIN Append(s, x) = 1 .. Len(s) + 1
  BY AppendProperties
<1>2. ASSUME NEW k \in 1 .. Len(s) + 1, Append(s, x)[k] \in items
      PROVE  Guarded(Append(s, x), now, set, k)
  <2>1. Guarded(s, now, set, k)
    BY <1>1, <1>2 DEF Finds
  <2> QED
    BY <1>1, <2>1 DEF Guarded
<1> QED
  BY <1>1, <1>2 DEF Finds

(* A queue that is cut off. *)
LEMMA FindsCutOff ==
    ASSUME NEW S, NEW s \in Seq(S), NEW t \in Seq(S), CutOff(s, t),
           NEW now, NEW set, NEW items, Finds(s, now, set, items)
    PROVE  Finds(t, now, set, items)
<1>1. /\ Len(s) \in Nat /\ Len(t) \in Nat /\ Len(t) <= Len(s)
      /\ \A i \in 1 .. Len(t) : t[i] = s[i]
      /\ DOMAIN s = 1 .. Len(s) /\ DOMAIN t = 1 .. Len(t)
  BY DEF CutOff
<1>2. ASSUME NEW k \in 1 .. Len(t), t[k] \in items
      PROVE  Guarded(t, now, set, k)
  <2>1. Guarded(s, now, set, k)
    BY <1>1, <1>2 DEF Finds
  <2> QED
    BY <1>1, <2>1 DEF Guarded
<1> QED
  BY <1>1, <1>2 DEF Finds

-----------------------------------------------------------------------------
(* What is held back: the same, nothing, or one item more. *)
LEMMA HeldKept ==
    ASSUME NEW S, NEW held \in Seq(S), NEW x \in S, NEW still,
           still \in {held, <<>>} \/ still = Append(held, x),
           NEW c, NoneLive(held, c), ~Live(x, c)
    PROVE  NoneLive(still, c)
<1>1. CASE still = held
  BY <1>1
<1>2. CASE still = <<>>
  BY <1>2 DEF NoneLive
<1>3. CASE still = Append(held, x)
  <2>1. /\ DOMAIN still = 1 .. Len(held) + 1 /\ Len(held) \in Nat
        /\ DOMAIN held = 1 .. Len(held)
        /\ still[Len(held) + 1] = x
        /\ \A i \in 1 .. Len(held) : still[i] = held[i]
    BY <1>3, AppendProperties
  <2> QED
    BY <2>1 DEF NoneLive
<1> QED
  BY <1>1, <1>2, <1>3

(* Live output and the gate: the head is run and either held back, or      *)

(* nothing is held any more.                                               *)
LEMMA OpenedTail ==
    ASSUME NEW S, NEW s \in Seq(S), s # <<>>, NEW held \in Seq(S),
           NEW now, NEW next, NEW there, NEW c, Opened(s, now, held, there, c),
           Head(s).kind = "ATTACHED" => next,
           now /\ Head(s).kind \notin Shuts => next,
           NEW still \in Seq(S),
           still \in {held, <<>>} \/ still = Append(held, Head(s))
    PROVE  Opened(Tail(s), next, still, there, c)
<1>1. /\ Len(s) \in Nat /\ Len(s) > 0 /\ Len(Tail(s)) = Len(s) - 1
      /\ DOMAIN s = 1 .. Len(s) /\ DOMAIN Tail(s) = 1 .. Len(s) - 1
      /\ Head(s) = s[1] /\ Head(s) \in S
      /\ \A i \in 1 .. Len(s) - 1 : Tail(s)[i] = s[i + 1]
  BY HeadTailProperties
<1>2. ASSUME NoneLive(held, c), ~Live(s[1], c) PROVE NoneLive(still, c)
  BY <1>1, <1>2, HeldKept
<1>3. ASSUME now, OpenFrom(s, 0, c)
      PROVE  next /\ OpenFrom(Tail(s), 0, c)
  BY <1>1, <1>3 DEF OpenFrom
<1>4. ASSUME NoneLive(held, c), NEW j \in DOMAIN s, OpensAt(s, j, c)
      PROVE  Opened(Tail(s), next, still, there, c)
  <2>1. CASE j = 1
    BY <1>1, <1>4, <2>1 DEF OpensAt, OpenFrom, Opened
  <2>2. CASE j # 1
    <3>1. j - 1 \in DOMAIN Tail(s) /\ OpensAt(Tail(s), j - 1, c)
      BY <1>1, <1>4, <2>2 DEF OpensAt, OpenFrom
    <3>2. ~Live(s[1], c)
      BY <1>1, <1>4, <2>2 DEF OpensAt, OpenFrom
    <3> QED
      BY <1>2, <1>4, <3>1, <3>2 DEF Opened
  <2> QED
    BY <2>1, <2>2
<1>5. ASSUME NoneLive(held, c), ~there, NoneLive(s, c)
      PROVE  Opened(Tail(s), next, still, there, c)
  <2>1. ~Live(s[1], c) /\ NoneLive(Tail(s), c)
    BY <1>1, <1>5 DEF NoneLive
  <2> QED
    BY <1>2, <1>5, <2>1 DEF Opened
<1> QED
  BY <1>3, <1>4, <1>5 DEF Opened

(* What is neither output nor closes the gate may be queued anywhere. *)
LEMMA OpenedInsert ==
    ASSUME NEW S, NEW s \in Seq(S), NEW t \in Seq(S), NEW p, Inserted(s, t, p),
           NEW now, NEW held, NEW there, NEW c, Opened(s, now, held, there, c),
           t[p].kind \notin Shuts, t[p].kind # "OUTPUT"
    PROVE  Opened(t, now, held, there, c)
<1>1. /\ Len(s) \in Nat /\ Len(t) = Len(s) + 1 /\ p \in 1 .. Len(s) + 1
      /\ \A i \in 1 .. Len(s) : t[IF i < p THEN i ELSE i + 1] = s[i]
      /\ DOMAIN s = 1 .. Len(s) /\ DOMAIN t = 1 .. Len(s) + 1
  BY DEF Inserted
<1>2. ASSUME NEW k \in 1 .. Len(s) + 1, k # p
      PROVE  \E j \in 1 .. Len(s) : /\ k = IF j < p THEN j ELSE j + 1
                                    /\ t[k] = s[j]
  <2>1. CASE k < p
    BY <1>1, <2>1
  <2>2. CASE k > p
    <3>1. k - 1 \in 1 .. Len(s) /\ k = (IF k - 1 < p THEN k - 1 ELSE k - 1 + 1)
      BY <1>1, <2>2
    <3> QED
      BY <1>1, <3>1
  <2> QED
    BY <1>1, <1>2, <2>1, <2>2
<1>3. ~Live(t[p], c)
  BY DEF Live
<1>4. ASSUME OpenFrom(s, 0, c) PROVE OpenFrom(t, 0, c)
  <2>1. ASSUME NEW k \in 1 .. Len(s) + 1
        PROVE  t[k].kind \notin Shuts
    <3>1. CASE k = p
      BY <3>1
    <3>2. CASE k # p
      <4>1. PICK m \in 1 .. Len(s) : t[k] = s[m]
        BY <1>2, <3>2
      <4> QED
        BY <1>1, <1>4, <4>1 DEF OpenFrom
    <3> QED
      BY <3>1, <3>2
  <2> QED
    BY <1>1, <2>1 DEF OpenFrom
<1>5. ASSUME NoneLive(s, c) PROVE NoneLive(t, c)
  BY <1>1, <1>2, <1>3, <1>5 DEF NoneLive
<1>6. ASSUME NEW j \in DOMAIN s, OpensAt(s, j, c)
      PROVE  \E i \in DOMAIN t : OpensAt(t, i, c)
  <2> DEFINE i == IF j < p THEN j ELSE j + 1
  <2>1. i \in DOMAIN t /\ t[i].kind = "ATTACHED"
    BY <1>1, <1>6 DEF OpensAt
  <2>2. ASSUME NEW k \in 1 .. Len(s) + 1
        PROVE  (t[k].kind \in Shuts => k < i) /\ (Live(t[k], c) => k > i)
    <3>1. CASE k = p
      BY <1>3, <3>1
    <3>2. CASE k # p
      <4>1. PICK m \in 1 .. Len(s) : /\ k = IF m < p THEN m ELSE m + 1
                                     /\ t[k] = s[m]
        BY <1>2, <3>2
      <4>2. (s[m].kind \in Shuts => m < j) /\ (Live(s[m], c) => m > j)
        BY <1>1, <1>6 DEF OpensAt, OpenFrom
      <4>3. (m < j => k < i) /\ (m > j => k > i)
        BY <1>1, <4>1
      <4> QED
        BY <4>1, <4>2, <4>3
    <3> QED
      BY <3>1, <3>2
  <2>3. OpensAt(t, i, c)
    BY <1>1, <2>1, <2>2 DEF OpensAt, OpenFrom
  <2> QED
    BY <2>1, <2>3
<1> QED
  BY <1>4, <1>5, <1>6 DEF Opened

(* Something arrives at the end: output only while the other end is there. *)
LEMMA OpenedAppend ==
    ASSUME NEW S, NEW s \in Seq(S), NEW x \in S, x.kind \notin Shuts,
           NEW now, NEW held, NEW there, NEW c, Opened(s, now, held, there, c),
           there \/ x.kind # "OUTPUT"
    PROVE  Opened(Append(s, x), now, held, there, c)
<1>1. /\ Len(s) \in Nat /\ Append(s, x)[Len(s) + 1] = x
      /\ \A i \in 1 .. Len(s) : Append(s, x)[i] = s[i]
      /\ DOMAIN s = 1 .. Len(s) /\ DOMAIN Append(s, x) = 1 .. Len(s) + 1
  BY AppendProperties
<1>2. ASSUME OpenFrom(s, 0, c) PROVE OpenFrom(Append(s, x), 0, c)
  BY <1>1, <1>2 DEF OpenFrom
<1>3. ASSUME NEW j \in DOMAIN s, OpensAt(s, j, c)
      PROVE  j \in DOMAIN Append(s, x) /\ OpensAt(Append(s, x), j, c)
  BY <1>1, <1>3 DEF OpensAt, OpenFrom
<1>4. ASSUME NoneLive(s, c), ~there PROVE NoneLive(Append(s, x), c)
  BY <1>1, <1>4 DEF NoneLive, Live
<1> QED
  BY <1>2, <1>3, <1>4 DEF Opened

(* The other end is lost, and some of what it sent. *)
LEMMA OpenedCutOff ==
    ASSUME NEW S, NEW s \in Seq(S), NEW t \in Seq(S), CutOff(s, t),
           NEW now, NEW held, NEW there, NEW c, Opened(s, now, held, there, c)
    PROVE  Opened(t, now, held, FALSE, c)
<1>1. /\ Len(s) \in Nat /\ Len(t) \in Nat /\ Len(t) <= Len(s)
      /\ \A i \in 1 .. Len(t) : t[i] = s[i]
      /\ DOMAIN s = 1 .. Len(s) /\ DOMAIN t = 1 .. Len(t)
  BY DEF CutOff
<1>2. ASSUME OpenFrom(s, 0, c) PROVE OpenFrom(t, 0, c)
  BY <1>1, <1>2 DEF OpenFrom
<1>3. ASSUME NoneLive(s, c) PROVE NoneLive(t, c)
  BY <1>1, <1>3 DEF NoneLive
<1>4. ASSUME NEW j \in DOMAIN s, OpensAt(s, j, c)
      PROVE  NoneLive(t, c) \/ \E i \in DOMAIN t : OpensAt(t, i, c)
  <2>1. CASE j <= Len(t)
    BY <1>1, <1>4, <2>1 DEF OpensAt, OpenFrom
  <2>2. CASE j > Len(t)
    BY <1>1, <1>4, <2>2 DEF OpensAt, OpenFrom, NoneLive
  <2> QED
    BY <1>1, <2>1, <2>2
<1> QED
  BY <1>2, <1>3, <1>4 DEF Opened

-----------------------------------------------------------------------------
(* What the actions do to the queue: a block is put between the blocks and *)

(* the wire, the head is taken, the end is lost.                           *)
LEMMA BlockInserted ==
    ASSUME NEW S, NEW b \in Seq(S), NEW w \in Seq(S), NEW x \in S
    PROVE  /\ Append(b, x) \o w \in Seq(S)
           /\ Inserted(b \o w, Append(b, x) \o w, Len(b) + 1)
           /\ (Append(b, x) \o w)[Len(b) + 1] = x
<1> DEFINE a == Append(b, x)
           s == b \o w
           t == a \o w
<1>1. /\ a \in Seq(S) /\ Len(a) = Len(b) + 1 /\ a[Len(b) + 1] = x
      /\ \A i \in 1 .. Len(b) : a[i] = b[i]
      /\ Len(b) \in Nat /\ Len(w) \in Nat
  BY AppendProperties
<1>2. /\ s \in Seq(S) /\ Len(s) = Len(b) + Len(w)
      /\ \A i \in 1 .. Len(b) + Len(w) :
             s[i] = IF i <= Len(b) THEN b[i] ELSE w[i - Len(b)]
  BY ConcatProperties
<1>3. /\ t \in Seq(S) /\ Len(t) = Len(b) + 1 + Len(w)
      /\ \A i \in 1 .. Len(b) + 1 + Len(w) :
             t[i] = IF i <= Len(b) + 1 THEN a[i] ELSE w[i - (Len(b) + 1)]
  <2> HIDE DEF a
  <2>1. /\ t \in Seq(S) /\ Len(t) = Len(a) + Len(w)
        /\ \A i \in 1 .. Len(a) + Len(w) :
               t[i] = IF i <= Len(a) THEN a[i] ELSE w[i - Len(a)]
    BY <1>1, ConcatProperties
  <2> QED
    BY <1>1, <2>1
<1> HIDE DEF a, s, t
<1>4. ASSUME NEW i \in 1 .. Len(s)
      PROVE  t[IF i < Len(b) + 1 THEN i ELSE i + 1] = s[i]
  <2>1. CASE i < Len(b) + 1
    <3>1. t[i] = a[i] /\ s[i] = b[i] /\ a[i] = b[i]
      BY <1>1, <1>2, <1>3, <2>1
    <3> QED
      BY <2>1, <3>1
  <2>2. CASE ~(i < Len(b) + 1)
    <3>1. /\ i + 1 \in 1 .. Len(b) + 1 + Len(w)
          /\ i + 1 - (Len(b) + 1) = i - Len(b)
      BY <1>1, <1>2, <2>2
    <3>2. t[i + 1] = w[i - Len(b)] /\ s[i] = w[i - Len(b)]
      BY <1>1, <1>2, <1>3, <2>2, <3>1
    <3> QED
      BY <2>2, <3>2
  <2> QED
    BY <2>1, <2>2
<1>5. Inserted(s, t, Len(b) + 1)
  BY <1>1, <1>2, <1>3, <1>4 DEF Inserted
<1>6. t[Len(b) + 1] = x
  BY <1>1, <1>3
<1> QED
  BY <1>3, <1>5, <1>6 DEF a, s, t

(* The head of the blocks is the head of the queue. *)
LEMMA HeadTaken ==
    ASSUME NEW S, NEW b \in Seq(S), NEW w \in Seq(S), b # <<>>
    PROVE  /\ b \o w \in Seq(S) /\ b \o w # <<>>
           /\ Head(b \o w) = Head(b) /\ Tail(b \o w) = Tail(b) \o w
<1> DEFINE s == b \o w
           t == Tail(b) \o w
<1>1. /\ Tail(b) \in Seq(S) /\ Len(Tail(b)) = Len(b) - 1 /\ Head(b) = b[1]
      /\ \A i \in 1 .. Len(b) - 1 : Tail(b)[i] = b[i + 1]
      /\ Len(b) \in Nat /\ Len(b) > 0 /\ Len(w) \in Nat
  BY HeadTailProperties
<1>2. /\ s \in Seq(S) /\ Len(s) = Len(b) + Len(w)
      /\ \A i \in 1 .. Len(b) + Len(w) :
             s[i] = IF i <= Len(b) THEN b[i] ELSE w[i - Len(b)]
  BY ConcatProperties
<1>3. /\ t \in Seq(S) /\ Len(t) = Len(b) - 1 + Len(w)
      /\ \A i \in 1 .. Len(b) - 1 + Len(w) :
             t[i] = IF i <= Len(b) - 1 THEN Tail(b)[i] ELSE w[i - (Len(b) - 1)]
  BY <1>1, ConcatProperties
<1> HIDE DEF s, t
<1>4. /\ s # <<>> /\ Head(s) = s[1] /\ Tail(s) \in Seq(S)
      /\ Len(Tail(s)) = Len(s) - 1
      /\ \A i \in 1 .. Len(s) - 1 : Tail(s)[i] = s[i + 1]
  <2>1. s # <<>>
    BY <1>1, <1>2
  <2> QED
    BY <1>2, <2>1, HeadTailProperties
<1>5. ASSUME NEW i \in 1 .. Len(s) - 1 PROVE Tail(s)[i] = t[i]
  <2>1. i \in 1 .. Len(b) - 1 + Len(w) /\ i + 1 \in 1 .. Len(b) + Len(w)
    BY <1>1, <1>2
  <2>2. CASE i <= Len(b) - 1
    <3>1. i \in 1 .. Len(b) - 1 /\ i + 1 <= Len(b)
      BY <1>1, <2>1, <2>2
    <3> QED
      BY <1>1, <1>2, <1>3, <1>4, <2>1, <3>1
  <2>3. CASE ~(i <= Len(b) - 1)
    <3>1. ~(i + 1 <= Len(b)) /\ i + 1 - Len(b) = i - (Len(b) - 1)
      BY <1>1, <2>1, <2>3
    <3> QED
      BY <1>2, <1>3, <1>4, <2>1, <2>3, <3>1
  <2> QED
    BY <2>2, <2>3
<1>6. Tail(s) = t
  <2>1. Len(Tail(s)) = Len(t)
    BY <1>1, <1>2, <1>3, <1>4
  <2>2. \A i \in 1 .. Len(Tail(s)) : Tail(s)[i] = t[i]
    BY <1>4, <1>5
  <2> QED
    BY <1>3, <1>4, <2>1, <2>2, SeqEqual
<1>7. Head(s) = Head(b)
  BY <1>1, <1>2, <1>4
<1> QED
  BY <1>2, <1>4, <1>6, <1>7 DEF s, t

(* The end of the wire, or all of it, is lost with a connection. *)
LEMMA EndLost ==
    ASSUME NEW S, NEW b \in Seq(S), NEW w \in Seq(S), NEW n \in 0 .. Len(w)
    PROVE  /\ CutOff(w, SubSeq(w, 1, n)) /\ SubSeq(w, 1, n) \in Seq(S)
           /\ CutOff(b \o w, b \o SubSeq(w, 1, n))
           /\ CutOff(b \o w, b)
<1> DEFINE v == SubSeq(w, 1, n)
           s == b \o w
           t == b \o v
<1>0. Len(b) \in Nat /\ Len(w) \in Nat /\ n \in Nat /\ n <= Len(w)
  OBVIOUS
<1>1. v \in Seq(S) /\ Len(v) = n /\ \A i \in 1 .. n : v[i] = w[i]
  BY <1>0, SubSeqProperties
<1>2. /\ s \in Seq(S) /\ Len(s) = Len(b) + Len(w)
      /\ \A i \in 1 .. Len(b) + Len(w) :
             s[i] = IF i <= Len(b) THEN b[i] ELSE w[i - Len(b)]
  BY ConcatProperties
<1> HIDE DEF v
<1>3. /\ t \in Seq(S) /\ Len(t) = Len(b) + n
      /\ \A i \in 1 .. Len(b) + n :
             t[i] = IF i <= Len(b) THEN b[i] ELSE v[i - Len(b)]
  BY <1>1, ConcatProperties
<1> HIDE DEF s, t
<1>4. ASSUME NEW i \in 1 .. Len(b) + n PROVE t[i] = s[i]
  <2>1. i \in 1 .. Len(b) + Len(w)
    BY <1>0
  <2>2. CASE i <= Len(b)
    BY <1>2, <1>3, <2>1, <2>2
  <2>3. CASE ~(i <= Len(b))
    <3>1. i - Len(b) \in 1 .. n
      BY <1>0, <2>3
    <3> QED
      BY <1>1, <1>2, <1>3, <2>1, <2>3, <3>1
  <2> QED
    BY <2>2, <2>3
<1>5. CutOff(s, t)
  BY <1>0, <1>2, <1>3, <1>4 DEF CutOff
<1>6. CutOff(s, b)
  BY <1>0, <1>2 DEF CutOff
<1>7. CutOff(w, v)
  BY <1>0, <1>1 DEF CutOff
<1> QED
  BY <1>1, <1>5, <1>6, <1>7 DEF s, t, v

-----------------------------------------------------------------------------
(* A block is queued behind the others.                                    *)
LEMMA BlockKeeps ==
    ASSUME NEW b \in Seq(Item), NEW w \in Seq(Item), NEW x \in Item,
           x.kind \in {"gate", "resize", "lost", "drain"}, ~x.replay,
           NEW now, NEW fit, NEW c
    PROVE  /\ Append(b, x) \in Seq(Item)
           /\ Finds(b \o w, now, Shuts, Replays) =>
                  Finds(Append(b, x) \o w, now, Shuts, Replays)
           /\ Finds(b \o w, fit, {"SIZE"}, Snapshots) =>
                  Finds(Append(b, x) \o w, fit, {"SIZE"}, Snapshots)
           /\ x.kind \in Shuts \/ Guarded(b, now, Shuts, Len(b) + 1) =>
                  Guarded(Append(b, x), now, Shuts, Len(Append(b, x)) + 1)
           /\ NoneLive(b, c) => NoneLive(Append(b, x), c)
<1> DEFINE t == Append(b, x) \o w
           p == Len(b) + 1
<1>1. /\ t \in Seq(Item) /\ Inserted(b \o w, t, p) /\ t[p] = x
      /\ b \o w \in Seq(Item)
  BY BlockInserted, ConcatProperties
<1>2. x.kind # "ATTACHED" /\ x \notin Replays /\ x \notin Snapshots
  BY DEF Replays, Snapshots
<1> HIDE DEF t, p
<1>3. ASSUME Finds(b \o w, now, Shuts, Replays)
      PROVE  Finds(t, now, Shuts, Replays)
  BY <1>1, <1>2, <1>3, FindsInsert
<1>4. ASSUME Finds(b \o w, fit, {"SIZE"}, Snapshots)
      PROVE  Finds(t, fit, {"SIZE"}, Snapshots)
  BY <1>1, <1>2, <1>4, FindsInsert
<1>5. /\ Append(b, x) \in Seq(Item) /\ Len(Append(b, x)) = Len(b) + 1
      /\ Append(b, x)[Len(b) + 1] = x /\ Len(b) \in Nat
      /\ \A i \in 1 .. Len(b) : Append(b, x)[i] = b[i]
      /\ DOMAIN b = 1 .. Len(b) /\ DOMAIN Append(b, x) = 1 .. Len(b) + 1
  BY AppendProperties
<1>6. ASSUME x.kind \in Shuts
      PROVE  Guarded(Append(b, x), now, Shuts, Len(b) + 2)
  BY <1>6, GuardedBegins DEF Shuts
<1>7. ASSUME Guarded(b, now, Shuts, Len(b) + 1)
      PROVE  Guarded(Append(b, x), now, Shuts, Len(b) + 2)
  BY <1>2, <1>5, <1>7 DEF Guarded
<1>8. ASSUME NoneLive(b, c) PROVE NoneLive(Append(b, x), c)
  BY <1>5, <1>8 DEF NoneLive, Live
<1>9. Len(Append(b, x)) + 1 = Len(b) + 2
  BY <1>5
<1> QED
  BY <1>3, <1>4, <1>5, <1>6, <1>7, <1>8, <1>9, Zenon DEF t

(* Nor does it keep live output from its gate. *)
LEMMA BlockOpened ==
    ASSUME NEW b \in Seq(Item), NEW w \in Seq(Item), NEW x \in Item,
           x.kind \in {"resize", "drain"},
           NEW now, NEW held, NEW there, NEW c,
           Opened(b \o w, now, held, there, c)
    PROVE  Opened(Append(b, x) \o w, now, held, there, c)
<1> DEFINE t == Append(b, x) \o w
           p == Len(b) + 1
<1>1. /\ t \in Seq(Item) /\ Inserted(b \o w, t, p) /\ t[p] = x
      /\ b \o w \in Seq(Item)
  BY BlockInserted, ConcatProperties
<1>2. x.kind \notin Shuts /\ x.kind # "OUTPUT"
  BY DEF Shuts
<1> HIDE DEF t, p
<1>3. Opened(t, now, held, there, c)
  BY <1>1, <1>2, OpenedInsert
<1> QED
  BY <1>3 DEF t

(* The head is run. *)
LEMMA HeadKeeps ==
    ASSUME NEW b \in Seq(Item), NEW w \in Seq(Item), b # <<>>,
           NEW now, NEW next, NEW fit, NEW fits, NEW c,
           now /\ Head(b).kind # "ATTACHED" => next,
           Head(b).kind \in Shuts => next,
           fit /\ Head(b).kind # "ATTACHED" => fits,
           Head(b).kind = "SIZE" => fits
    PROVE  /\ Tail(b) \in Seq(Item)
           /\ Finds(b \o w, now, Shuts, Replays) =>
                  Finds(Tail(b) \o w, next, Shuts, Replays)
           /\ Finds(b \o w, fit, {"SIZE"}, Snapshots) =>
                  Finds(Tail(b) \o w, fits, {"SIZE"}, Snapshots)
           /\ Guarded(b, now, Shuts, Len(b) + 1) =>
                  Guarded(Tail(b), next, Shuts, Len(Tail(b)) + 1)
           /\ NoneLive(b, c) => NoneLive(Tail(b), c) /\ ~Live(Head(b), c)
<1> DEFINE s == b \o w
<1>1. /\ s \in Seq(Item) /\ s # <<>> /\ Head(s) = Head(b)
      /\ Tail(s) = Tail(b) \o w
  BY HeadTaken
<1>2. /\ Tail(b) \in Seq(Item) /\ Len(b) \in Nat /\ Len(b) > 0
      /\ Len(Tail(b)) = Len(b) - 1 /\ Head(b) = b[1]
      /\ DOMAIN b = 1 .. Len(b) /\ DOMAIN Tail(b) = 1 .. Len(b) - 1
      /\ \A i \in 1 .. Len(b) - 1 : Tail(b)[i] = b[i + 1]
  BY HeadTailProperties
<1> HIDE DEF s
<1>3. ASSUME Finds(s, now, Shuts, Replays)
      PROVE  Finds(Tail(s), next, Shuts, Replays)
  BY <1>1, <1>3, FindsTail
<1>4. ASSUME Finds(s, fit, {"SIZE"}, Snapshots)
      PROVE  Finds(Tail(s), fits, {"SIZE"}, Snapshots)
  <2>1. Head(s).kind \in {"SIZE"} => fits
    BY <1>1
  <2>2. fit /\ Head(s).kind # "ATTACHED" => fits
    BY <1>1
  <2> HIDE DEF s
  <2> QED
    BY <1>1, <1>4, <2>1, <2>2, FindsTail
<1>5. ASSUME Guarded(b, now, Shuts, Len(b) + 1)
      PROVE  Guarded(Tail(b), next, Shuts, Len(Tail(b)) + 1)
  <2>1. \A k \in 2 .. Len(b) + 1 :
            Guarded(b, now, Shuts, k) => Guarded(Tail(b), next, Shuts, k - 1)
    BY GuardedTail
  <2>2. Len(b) + 1 \in 2 .. Len(b) + 1 /\ Len(b) + 1 - 1 = Len(Tail(b)) + 1
    BY <1>2
  <2> QED
    BY <1>5, <2>1, <2>2
<1>6. ASSUME NoneLive(b, c) PROVE NoneLive(Tail(b), c) /\ ~Live(Head(b), c)
  BY <1>2, <1>6 DEF NoneLive
<1> QED
  BY <1>1, <1>2, <1>3, <1>4, <1>5, <1>6, Zenon DEF s

(* Live output behind the head finds its gate open still. *)
LEMMA HeadOpened ==
    ASSUME NEW b \in Seq(Item), NEW w \in Seq(Item), b # <<>>,
           NEW held \in Seq(Item), NEW still \in Seq(Item),
           NEW now, NEW next, NEW there, NEW c,
           Head(b).kind = "ATTACHED" => next,
           now /\ Head(b).kind \notin Shuts => next,
           still \in {held, <<>>} \/ still = Append(held, Head(b)),
           Opened(b \o w, now, held, there, c)
    PROVE  Opened(Tail(b) \o w, next, still, there, c)
<1>1. /\ b \o w \in Seq(Item) /\ b \o w # <<>> /\ Head(b \o w) = Head(b)
      /\ Tail(b \o w) = Tail(b) \o w
  BY HeadTaken
<1> QED
  BY <1>1, OpenedTail

(* A connection is opened: behind the blocks comes its opening, and nothing*)

(* that was sent is live.                                                  *)
LEMMA OpeningKeeps ==
    ASSUME NEW b \in Seq(Item), NEW w \in Seq(Item),
           NEW x \in Item, NEW y \in Item, NEW z \in Item,
           x.kind = "SIZE", y.kind = "SNAPSHOT", z.kind = "ATTACHED",
           NEW now, NEW fit, Guarded(b, now, Shuts, Len(b) + 1),
           Finds(b \o w, now, Shuts, Replays),
           Finds(b \o w, fit, {"SIZE"}, Snapshots)
    PROVE  /\ Finds(b \o <<x, y, z>>, now, Shuts, Replays)
           /\ Finds(b \o <<x, y, z>>, fit, {"SIZE"}, Snapshots)
<1> DEFINE bx == Append(b, x)
           by == Append(bx, y)
           bz == Append(by, z)
<1>1. /\ bx \in Seq(Item) /\ Len(bx) = Len(b) + 1 /\ bx[Len(b) + 1] = x
      /\ Len(b) \in Nat
      /\ \A i \in 1 .. Len(b) : bx[i] = b[i]
  BY AppendProperties
<1>2. CutOff(b \o w, b) /\ b \o w \in Seq(Item)
  BY EndLost, 0 \in 0 .. Len(w), ConcatProperties
<1>3. Finds(b, now, Shuts, Replays) /\ Finds(b, fit, {"SIZE"}, Snapshots)
  BY <1>2, FindsCutOff
<1>4. x \notin Snapshots /\ z \notin Snapshots
  BY DEF Snapshots
<1>5. /\ Finds(bx, now, Shuts, Replays) /\ Finds(bx, fit, {"SIZE"}, Snapshots)
      /\ Guarded(bx, now, Shuts, Len(b) + 2)
      /\ Guarded(bx, fit, {"SIZE"}, Len(b) + 2)
  <2>1. Finds(bx, now, Shuts, Replays)
    BY <1>3, FindsAppend
  <2>2. Finds(bx, fit, {"SIZE"}, Snapshots)
    BY <1>3, <1>4, FindsAppend
  <2>3. Guarded(bx, fit, {"SIZE"}, Len(b) + 2)
    BY GuardedBegins
  <2>4. Guarded(bx, now, Shuts, Len(b) + 2)
    BY <1>1 DEF Guarded
  <2> QED
    BY <2>1, <2>2, <2>3, <2>4
<1> HIDE DEF bx
<1>6. /\ by \in Seq(Item) /\ Len(by) = Len(b) + 2 /\ by[Len(b) + 2] = y
      /\ \A i \in 1 .. Len(b) + 1 : by[i] = bx[i]
  BY <1>1, AppendProperties
<1>7. /\ Finds(by, now, Shuts, Replays) /\ Finds(by, fit, {"SIZE"}, Snapshots)
      /\ Guarded(by, now, Shuts, Len(b) + 3)
  <2>0. Len(bx) + 1 = Len(b) + 2
    BY <1>1
  <2>1. Finds(by, now, Shuts, Replays)
    BY <1>1, <1>5, <2>0, FindsAppend
  <2>2. Finds(by, fit, {"SIZE"}, Snapshots)
    BY <1>1, <1>5, <2>0, FindsAppend
  <2>3. Guarded(by, now, Shuts, Len(b) + 3)
    BY <1>1, <1>5, <1>6 DEF Guarded
  <2> QED
    BY <2>1, <2>2, <2>3
<1> HIDE DEF by
<1>8. Finds(bz, now, Shuts, Replays) /\ Finds(bz, fit, {"SIZE"}, Snapshots)
  <2>0. Len(by) + 1 = Len(b) + 3
    BY <1>1, <1>6
  <2>1. Finds(bz, now, Shuts, Replays)
    BY <1>6, <1>7, <2>0, FindsAppend
  <2>2. Finds(bz, fit, {"SIZE"}, Snapshots)
    BY <1>4, <1>6, <1>7, FindsAppend
  <2> QED
    BY <2>1, <2>2
<1>9. bz = b \o <<x, y, z>>
  <2>1. <<x, y, z>> = Append(<<x, y>>, z) /\ <<x, y>> = Append(<<x>>, y)
    OBVIOUS
  <2>2. <<x>> \in Seq(Item) /\ <<x, y>> \in Seq(Item)
    OBVIOUS
  <2>3. b \o <<x>> = bx
    BY AppendIsConcat DEF bx
  <2>4. b \o <<x, y>> = by
    BY <2>1, <2>2, <2>3, ConcatAppend DEF by
  <2> QED
    BY <2>1, <2>2, <2>4, ConcatAppend
<1> QED
  BY <1>8, <1>9

-----------------------------------------------------------------------------
(* What is queued are items, none of them of a connection to come. *)
LEMMA QueuesAreItems ==
    ASSUME Bounded
    PROVE  /\ blocks \in Seq(Item) /\ onWire \in Seq(Item)
           /\ coalesced \in Seq(Item) /\ Queue \in Seq(Item)
           /\ NoneLive(blocks, conn + 1) /\ NoneLive(coalesced, conn + 1)
           /\ \A x \in Queued : x \in Item /\ (x.kind = "OUTPUT" => ~x.replay)
<1>1. conn \in Nat
  BY DEF Bounded
<1>2. \A x \in Queued :
          /\ x \in Item /\ x.conn \in Nat /\ x.conn <= conn
          /\ x.kind = "OUTPUT" => ~x.replay
  BY DEF Queued, Items, Item
<1>3. Queued \subseteq Item
  BY <1>2
<1>4. /\ blocks \in Seq(Queued) /\ onWire \in Seq(Queued)
      /\ coalesced \in Seq(Queued)
  BY DEF Bounded
<1>5. /\ blocks \in Seq(Item) /\ onWire \in Seq(Item)
      /\ coalesced \in Seq(Item)
  BY <1>3, <1>4
<1>6. ASSUME NEW s \in Seq(Queued) PROVE NoneLive(s, conn + 1)
  <2>1. ASSUME NEW i \in DOMAIN s PROVE s[i].conn # conn + 1
    <3>1. s[i] \in Queued
      BY <2>1
    <3>2. s[i].conn \in Nat /\ s[i].conn <= conn
      BY <1>2, <3>1
    <3> QED
      BY <1>1, <3>2
  <2> QED
    BY <2>1 DEF NoneLive, Live
<1>7. Queue \in Seq(Item)
  BY <1>5, ConcatProperties DEF Queue
<1>8. NoneLive(blocks, conn + 1) /\ NoneLive(coalesced, conn + 1)
  BY <1>4, <1>6
<1> QED
  BY <1>2, <1>5, <1>7, <1>8

(* The stream queue runs its head, and may queue a drain. *)
LEMMA HeadRuns ==
    ASSUME Bounded, Ready, blocks # <<>>,
           Head(blocks).kind = "ATTACHED" => ~gate',
           Head(blocks).kind \in Shuts => gate',
           Head(blocks).kind \notin Shuts /\ Head(blocks).kind # "ATTACHED"
               => (gate' <=> gate),
           Head(blocks).kind = "SIZE" => Fits',
           Head(blocks).kind # "ATTACHED" /\ Fits => Fits',
           coalesced' \in {coalesced, <<>>}
               \/ coalesced' = Append(coalesced, Head(blocks)),
           blocks' \in {Tail(blocks), Append(Tail(blocks), Block("drain", NoGrid))},
           UNCHANGED <<opening, reader, onWire, peer, conn>>
    PROVE  Ready'
<1> DEFINE b == Tail(blocks)
           x == Block("drain", NoGrid)
<1>1. /\ blocks \in Seq(Item) /\ onWire \in Seq(Item)
      /\ coalesced \in Seq(Item) /\ Head(blocks) \in Item
  BY QueuesAreItems, HeadTailProperties
<1>2. x \in Item /\ x.kind = "drain" /\ ~x.replay
  BY DEF Block, Item, Kind, Bounded
<1>3. coalesced' \in Seq(Item)
  <2>1. CASE coalesced' = coalesced
    BY <1>1, <2>1
  <2>2. CASE coalesced' = <<>>
    BY <2>2, EmptySeq
  <2>3. CASE coalesced' = Append(coalesced, Head(blocks))
    BY <1>1, <2>3, AppendProperties
  <2> QED
    BY <2>1, <2>2, <2>3
<1>4. /\ gate /\ Head(blocks).kind # "ATTACHED" => gate'
      /\ ~gate /\ Head(blocks).kind \notin Shuts => ~gate'
  BY Zenon
<1>5. /\ b \in Seq(Item)
      /\ Finds(b \o onWire, gate', Shuts, Replays)
      /\ Finds(b \o onWire, Fits', {"SIZE"}, Snapshots)
      /\ Guarded(blocks, gate, Shuts, Len(blocks) + 1)
             => Guarded(b, gate', Shuts, Len(b) + 1)
      /\ NoneLive(blocks, conn) => NoneLive(b, conn) /\ ~Live(Head(blocks), conn)
  BY <1>1, <1>4, HeadKeeps DEF Ready, Queue
<1>6. ASSUME Opened(blocks \o onWire, ~gate, coalesced, peer, conn)
      PROVE  Opened(b \o onWire, ~gate', coalesced', peer, conn)
  BY <1>1, <1>3, <1>4, <1>6, HeadOpened
<1> HIDE DEF b, x
<1>7. /\ Finds(blocks' \o onWire, gate', Shuts, Replays)
      /\ Finds(blocks' \o onWire, Fits', {"SIZE"}, Snapshots)
      /\ Guarded(blocks, gate, Shuts, Len(blocks) + 1)
             => Guarded(blocks', gate', Shuts, Len(blocks') + 1)
      /\ NoneLive(blocks, conn) => NoneLive(blocks', conn)
  <2>1. CASE blocks' = b
    BY <1>5, <2>1
  <2>2. CASE blocks' = Append(b, x)
    BY <1>1, <1>2, <1>5, <2>2, BlockKeeps
  <2> QED
    BY <2>1, <2>2 DEF b, x
<1>8. ASSUME Opened(b \o onWire, ~gate', coalesced', peer, conn)
      PROVE  Opened(blocks' \o onWire, ~gate', coalesced', peer, conn)
  <2>1. CASE blocks' = b
    BY <1>8, <2>1
  <2>2. CASE blocks' = Append(b, x)
    BY <1>1, <1>2, <1>5, <1>8, <2>2, BlockOpened
  <2> QED
    BY <2>1, <2>2 DEF b, x
<1>9. ASSUME NoneLive(coalesced, conn), ~Live(Head(blocks), conn)
      PROVE  NoneLive(coalesced', conn)
  BY <1>1, <1>9, HeldKept
<1>10. Asked'
  BY <1>7 DEF Asked, Ready
<1>11. Reading'
  BY <1>6, <1>8 DEF Reading, Ready, Queue
<1>12. Unread'
  BY <1>5, <1>7, <1>9 DEF Unread, Ready, Opened
<1> QED
  BY <1>7, <1>10, <1>11, <1>12 DEF Ready, Queue

(* A block is queued that does not touch the gate. *)
LEMMA BlockQueued ==
    ASSUME Bounded, Ready, NEW x \in Item, x.kind \in {"resize", "drain"},
           ~x.replay, blocks' = Append(blocks, x),
           UNCHANGED <<opening, reader, gate, installedGrid, streamGrid, onWire,
                       coalesced, peer, conn>>
    PROVE  Ready'
<1>1. /\ blocks \in Seq(Item) /\ onWire \in Seq(Item)
  BY QueuesAreItems
<1>2. /\ Finds(blocks' \o onWire, gate, Shuts, Replays)
      /\ Finds(blocks' \o onWire, Fits, {"SIZE"}, Snapshots)
      /\ Guarded(blocks, gate, Shuts, Len(blocks) + 1)
             => Guarded(blocks', gate, Shuts, Len(blocks') + 1)
      /\ NoneLive(blocks, conn) => NoneLive(blocks', conn)
  BY <1>1, BlockKeeps DEF Ready, Queue
<1>3. ASSUME Opened(blocks \o onWire, ~gate, coalesced, peer, conn)
      PROVE  Opened(blocks' \o onWire, ~gate, coalesced, peer, conn)
  BY <1>1, <1>3, BlockOpened
<1>4. Asked'
  BY <1>2 DEF Asked, Ready
<1>5. Reading' /\ Unread'
  BY <1>2, <1>3 DEF Reading, Unread, Ready, Queue
<1> QED
  BY <1>2, <1>4, <1>5 DEF Ready, Queue, Fits

(* One that closes it is queued while nobody reads; when it is the last    *)

(* one, a session may be asked for.                                        *)
LEMMA ShutQueued ==
    ASSUME Bounded, Ready, NEW x \in Item, x.kind \in Shuts,
           ~x.replay, blocks' = Append(blocks, x), reader # "reads",
           UNCHANGED <<reader, gate, installedGrid, streamGrid, onWire,
                       coalesced, peer, conn>>
    PROVE  Ready'
<1>1. /\ blocks \in Seq(Item) /\ onWire \in Seq(Item)
      /\ x.kind \in {"gate", "resize", "lost", "drain"}
  BY QueuesAreItems DEF Shuts
<1>2. /\ Finds(blocks' \o onWire, gate, Shuts, Replays)
      /\ Finds(blocks' \o onWire, Fits, {"SIZE"}, Snapshots)
      /\ Guarded(blocks', gate, Shuts, Len(blocks') + 1)
      /\ NoneLive(blocks, conn) => NoneLive(blocks', conn)
  BY <1>1, BlockKeeps DEF Ready, Queue
<1>3. Asked' /\ Reading' /\ Unread'
  BY <1>2 DEF Asked, Reading, Unread, Ready
<1> QED
  BY <1>2, <1>3 DEF Ready, Queue, Fits

(* The reader takes a frame from the wire: the queue is the same. *)
LEMMA FrameTaken ==
    ASSUME Bounded, Ready, reader = "reads", opening = "no", onWire # <<>>,
           blocks' = Append(blocks, Head(onWire)), onWire' = Tail(onWire),
           UNCHANGED <<opening, reader, gate, installedGrid, streamGrid,
                       coalesced, peer, conn>>
    PROVE  Ready'
<1>1. Queue' = Queue
  BY QueuesAreItems, HeadMoves DEF Queue
<1>2. Asked' /\ Unread'
  BY DEF Asked, Unread
<1>3. Reading'
  BY <1>1 DEF Ready, Reading
<1> QED
  BY <1>1, <1>2, <1>3 DEF Ready, Fits

(* A frame is sent, or the other end is gone. *)
LEMMA FrameSent ==
    ASSUME Bounded, Ready, NEW x \in Item, x.kind \notin Shuts, ~x.replay,
           x.kind # "SNAPSHOT", peer \/ x.kind # "OUTPUT",
           onWire' \in {onWire, Append(onWire, x)}, peer' => peer,
           UNCHANGED <<opening, reader, gate, installedGrid, streamGrid, blocks,
                       coalesced, conn>>
    PROVE  Ready'
<1>1. /\ blocks \in Seq(Item) /\ onWire \in Seq(Item) /\ Queue \in Seq(Item)
      /\ x \notin Replays /\ x \notin Snapshots
  BY QueuesAreItems DEF Replays, Snapshots
<1>2. Queue' \in {Queue, Append(Queue, x)}
  <2>1. blocks \o Append(onWire, x) = Append(blocks \o onWire, x)
    BY <1>1, ConcatAppend
  <2> QED
    BY <2>1 DEF Queue
<1>3. Finds(Queue', gate, Shuts, Replays) /\ Finds(Queue', Fits, {"SIZE"}, Snapshots)
  <2>1. Finds(Append(Queue, x), gate, Shuts, Replays)
    BY <1>1, FindsAppend DEF Ready
  <2>2. Finds(Append(Queue, x), Fits, {"SIZE"}, Snapshots)
    BY <1>1, FindsAppend DEF Ready
  <2> QED
    BY <1>2, <2>1, <2>2 DEF Ready
<1>4. ASSUME NEW s \in Seq(Item), NEW t, t \in {s, Append(s, x)},
             NEW now, Opened(s, now, coalesced, peer, conn)
      PROVE  Opened(t, now, coalesced, peer', conn)
  <2>1. Opened(Append(s, x), now, coalesced, peer, conn)
    BY <1>4, OpenedAppend
  <2>2. Opened(t, now, coalesced, peer, conn)
    BY <1>4, <2>1
  <2> QED
    BY <2>2 DEF Opened
<1>5. Asked'
  BY DEF Asked, Ready
<1>6. Reading'
  BY <1>1, <1>2, <1>4 DEF Reading, Ready
<1>7. Unread'
  BY <1>1, <1>4 DEF Unread, Ready
<1> QED
  BY <1>3, <1>5, <1>6, <1>7 DEF Ready, Fits

(* The connection is lost, with the end of what was sent. *)
LEMMA EndOfWireLost ==
    ASSUME Bounded, Ready, NEW n \in 0 .. Len(onWire),
           onWire' = SubSeq(onWire, 1, n), ~peer',
           UNCHANGED <<opening, reader, gate, installedGrid, streamGrid, blocks,
                       coalesced, conn>>
    PROVE  Ready'
<1>1. blocks \in Seq(Item) /\ onWire \in Seq(Item) /\ Queue \in Seq(Item)
  BY QueuesAreItems
<1>2. /\ onWire' \in Seq(Item) /\ CutOff(onWire, onWire')
      /\ Queue' \in Seq(Item) /\ CutOff(Queue, Queue')
  BY <1>1, EndLost, ConcatProperties DEF Queue
<1>3. Finds(Queue', gate, Shuts, Replays) /\ Finds(Queue', Fits, {"SIZE"}, Snapshots)
  BY <1>1, <1>2, FindsCutOff DEF Ready
<1>4. peer' <=> FALSE
  OBVIOUS
<1>5. Asked'
  BY DEF Asked, Ready
<1>6. Reading'
  <2>1. ASSUME Opened(Queue, ~gate, coalesced, peer, conn)
        PROVE  Opened(Queue', ~gate, coalesced, FALSE, conn)
    BY <1>1, <1>2, <2>1, OpenedCutOff
  <2> QED
    BY <1>4, <2>1 DEF Reading, Ready, Opened
<1>7. Unread'
  <2>1. ASSUME NEW now, Opened(onWire, now, coalesced, peer, conn)
        PROVE  Opened(onWire', now, coalesced, FALSE, conn)
    <3>1. \A s, t \in Seq(Item) :
              CutOff(s, t) /\ Opened(s, now, coalesced, peer, conn)
                  => Opened(t, now, coalesced, FALSE, conn)
      BY OpenedCutOff
    <3> QED
      BY <1>1, <1>2, <2>1, <3>1, Zenon
  <2> QED
    BY <1>4, <2>1 DEF Unread, Ready, Opened
<1> QED
  BY <1>3, <1>5, <1>6, <1>7 DEF Ready, Fits

(* A connection is opened. *)
LEMMA ConnectionOpens ==
    ASSUME Bounded, Ready, opening = "asked", opening' = "opened",
           reader' = "off", peer', conn' = conn + 1,
           NEW x \in Item, NEW y \in Item, NEW z \in Item,
           x.kind = "SIZE", y.kind = "SNAPSHOT", z.kind = "ATTACHED",
           onWire' = <<x, y, z>>,
           UNCHANGED <<gate, installedGrid, streamGrid, blocks, coalesced>>
    PROVE  Ready'
<1>1. /\ blocks \in Seq(Item) /\ onWire \in Seq(Item)
      /\ NoneLive(blocks, conn + 1) /\ NoneLive(coalesced, conn + 1)
  BY QueuesAreItems
<1>2. /\ Finds(blocks \o <<x, y, z>>, gate, Shuts, Replays)
      /\ Finds(blocks \o <<x, y, z>>, Fits, {"SIZE"}, Snapshots)
  BY <1>1, OpeningKeeps DEF Ready, Asked, Queue
<1>3. Asked' /\ Reading'
  BY DEF Asked, Reading
<1>4. Unread'
  <2>1. /\ DOMAIN onWire' = 1 .. 3
        /\ onWire'[1] = x /\ onWire'[2] = y /\ onWire'[3] = z
    OBVIOUS
  <2>2. 3 \in DOMAIN onWire' /\ OpensAt(onWire', 3, conn + 1)
    BY <2>1 DEF OpensAt, OpenFrom, Live, Shuts
  <2> QED
    BY <1>1, <2>2 DEF Unread, Opened
<1> QED
  BY <1>2, <1>3, <1>4 DEF Ready, Queue, Fits

(* The main queue takes the session, and its reader begins: live output    *)

(* will follow an ATTACHED that is on the wire.                            *)
LEMMA ReaderBegins ==
    ASSUME Bounded, Ready, reader = "off", reader' = "reads",
           opening' = "no",
           UNCHANGED <<gate, installedGrid, streamGrid, blocks, onWire,
                       coalesced, peer, conn>>
    PROVE  Ready'
<1>1. /\ blocks \in Seq(Item) /\ onWire \in Seq(Item)
      /\ NoneLive(blocks, conn)
      /\ Opened(onWire, FALSE, coalesced, peer, conn)
  BY QueuesAreItems DEF Ready, Unread
<1>2. /\ Len(blocks) \in Nat /\ Len(onWire) \in Nat
      /\ DOMAIN onWire = 1 .. Len(onWire) /\ DOMAIN blocks = 1 .. Len(blocks)
      /\ DOMAIN Queue = 1 .. Len(blocks) + Len(onWire)
      /\ \A i \in 1 .. Len(blocks) + Len(onWire) :
             Queue[i] = IF i <= Len(blocks) THEN blocks[i]
                                            ELSE onWire[i - Len(blocks)]
  BY <1>1, ConcatProperties DEF Queue
<1>3. ASSUME NEW j \in DOMAIN onWire, OpensAt(onWire, j, conn)
      PROVE  /\ Len(blocks) + j \in DOMAIN Queue
             /\ OpensAt(Queue, Len(blocks) + j, conn)
  <2>1. Len(blocks) + j \in DOMAIN Queue /\ Queue[Len(blocks) + j] = onWire[j]
    <3>1. /\ Len(blocks) + j \in 1 .. Len(blocks) + Len(onWire)
          /\ ~(Len(blocks) + j <= Len(blocks))
          /\ Len(blocks) + j - Len(blocks) = j
      BY <1>2
    <3> QED
      BY <1>2, <3>1
  <2>2. ASSUME NEW i \in DOMAIN Queue
        PROVE  /\ Queue[i].kind \in Shuts => i < Len(blocks) + j
               /\ Live(Queue[i], conn) => i > Len(blocks) + j
    <3>1. CASE i <= Len(blocks)
      <4>1. i \in DOMAIN blocks /\ Queue[i] = blocks[i] /\ i < Len(blocks) + j
        BY <1>2, <3>1
      <4> QED
        BY <1>1, <4>1 DEF NoneLive
    <3>2. CASE ~(i <= Len(blocks))
      <4>1. /\ i - Len(blocks) \in DOMAIN onWire
            /\ Queue[i] = onWire[i - Len(blocks)]
        BY <1>2, <3>2
      <4>2. /\ Queue[i].kind \in Shuts => i - Len(blocks) < j
            /\ Live(Queue[i], conn) => i - Len(blocks) > j
        BY <1>3, <4>1 DEF OpensAt, OpenFrom
      <4> QED
        BY <1>2, <4>2
    <3> QED
      BY <3>1, <3>2
  <2> QED
    BY <1>3, <2>1, <2>2 DEF OpensAt, OpenFrom
<1>4. ASSUME NoneLive(onWire, conn) PROVE NoneLive(Queue, conn)
  <2>1. ASSUME NEW i \in DOMAIN Queue PROVE ~Live(Queue[i], conn)
    <3>1. CASE i <= Len(blocks)
      BY <1>1, <1>2, <3>1 DEF NoneLive
    <3>2. CASE ~(i <= Len(blocks))
      <4>1. i - Len(blocks) \in DOMAIN onWire
        BY <1>2, <3>2
      <4> QED
        BY <1>2, <1>4, <3>2, <4>1 DEF NoneLive
    <3> QED
      BY <3>1, <3>2
  <2> QED
    BY <2>1 DEF NoneLive
<1>5. Opened(Queue, ~gate, coalesced, peer, conn)
  BY <1>1, <1>3, <1>4 DEF Opened
<1>6. Queue' = Queue /\ (Fits' <=> Fits)
  BY DEF Queue, Fits
<1>7. Reading' /\ Asked' /\ Unread'
  BY <1>5, <1>6 DEF Reading, Asked, Unread
<1> QED
  BY <1>6, <1>7 DEF Ready

(* Whatever else is done changes nothing here, and may give a start up. *)
LEMMA NothingQueued ==
    ASSUME Ready, opening' \in {opening, "no", "failed"},
           reader' \in {reader, "done"},
           UNCHANGED <<gate, installedGrid, streamGrid, blocks, onWire,
                       coalesced, peer, conn>>
    PROVE  Ready'
<1>1. Queue' = Queue /\ (Fits' <=> Fits)
  BY DEF Queue, Fits
<1>2. Asked' /\ Reading' /\ Unread'
  BY <1>1 DEF Asked, Reading, Unread, Ready
<1> QED
  BY <1>1, <1>2 DEF Ready

(* A layout or a retry queues its blocks, behind the gate if it starts a   *)

(* session.                                                                *)
LEMMA StartQueued ==
    ASSUME TypeInv, Turns, Ready, NEW g \in Grid, StartsSession,
           blocks' \in {blocks \o GateBlocks(g),
                        blocks \o GateBlocks(g) \o <<Block("resize", g)>>},
           UNCHANGED <<session, reader, gate, installedGrid, streamGrid, onWire,
                       coalesced, peer, conn>>
    PROVE  Ready'
<1> DEFINE x == Block("gate", g)
           y == Block("resize", g)
<1>1. /\ x \in Item /\ x.kind \in Shuts /\ ~x.replay
      /\ y \in Item /\ y.kind = "resize" /\ ~y.replay
  BY DEF Block, Item, Kind, TypeInv, Bounded, Shuts
<1>2. /\ Bounded /\ blocks \in Seq(Item) /\ onWire \in Seq(Item)
      /\ Append(blocks, x) \in Seq(Item)
  BY <1>1, QueuesAreItems, AppendProperties DEF TypeInv
<1> HIDE DEF x, y
<1>3. CASE CanStart
  <2>1. reader # "reads"
    BY <1>3 DEF CanStart, Turns
  <2>2. opening' = "asked"
    BY <1>3 DEF StartsSession
  <2>3. blocks' \in {Append(blocks, x), Append(Append(blocks, x), y)}
    <3>1. GateBlocks(g) = <<x>>
      BY <1>3 DEF GateBlocks, x
    <3>2. /\ blocks \o <<x>> = Append(blocks, x)
          /\ Append(blocks, x) \o <<y>> = Append(Append(blocks, x), y)
      BY <1>1, <1>2, AppendIsConcat
    <3> QED
      BY <3>1, <3>2 DEF y
  <2>4. CASE blocks' = Append(blocks, x)
    BY <1>1, <1>2, <2>1, <2>4, ShutQueued
  <2>5. CASE blocks' = Append(Append(blocks, x), y)
    <3> DEFINE b == Append(blocks, x)
    <3>1. /\ Finds(b \o onWire, gate, Shuts, Replays)
          /\ Finds(b \o onWire, Fits, {"SIZE"}, Snapshots)
          /\ Guarded(b, gate, Shuts, Len(b) + 1)
          /\ NoneLive(blocks, conn) => NoneLive(b, conn)
      BY <1>1, <1>2, BlockKeeps DEF Ready, Queue, Shuts
    <3> HIDE DEF b
    <3>2. /\ Finds(blocks' \o onWire, gate, Shuts, Replays)
          /\ Finds(blocks' \o onWire, Fits, {"SIZE"}, Snapshots)
          /\ Guarded(blocks', gate, Shuts, Len(blocks') + 1)
          /\ NoneLive(blocks, conn) => NoneLive(blocks', conn)
      <4>1. b \in Seq(Item) /\ blocks' = Append(b, y)
        BY <1>2, <2>5 DEF b
      <4> QED
        BY <1>1, <1>2, <3>1, <4>1, BlockKeeps
    <3>3. Asked' /\ Reading' /\ Unread'
      BY <2>1, <3>2 DEF Asked, Reading, Unread, Ready
    <3> QED
      BY <3>2, <3>3 DEF Ready, Queue, Fits
  <2> QED
    BY <2>3, <2>4, <2>5
<1>4. CASE ~CanStart
  <2>1. opening' = opening
    BY <1>4 DEF StartsSession
  <2>2. blocks' \in {blocks, Append(blocks, y)}
    <3>1. GateBlocks(g) = <<>>
      BY <1>4 DEF GateBlocks
    <3>2. blocks \o <<>> = blocks /\ blocks \o <<y>> = Append(blocks, y)
      BY <1>1, <1>2, AppendIsConcat, ConcatEmptySeq
    <3> QED
      BY <3>1, <3>2 DEF y
  <2>3. CASE blocks' = blocks
    BY <2>1, <2>3, NothingQueued
  <2>4. CASE blocks' = Append(blocks, y)
    BY <1>1, <1>2, <2>1, <2>4, BlockQueued
  <2> QED
    BY <2>2, <2>3, <2>4
<1> QED
  BY <1>3, <1>4

-----------------------------------------------------------------------------
(* Main queue, opener and reader keep taking turns. *)
LEMMA TurnsStep ==
    ASSUME TypeInv, Turns, ~retired, ~retired', [ClientNext]_clientVars
    PROVE  Turns'
<1> USE DEF mainVars, fdVars, gridVars, coreVars, drainVars, streamVars,
            daemonVars
<1> USE DEF Turns
<1>0. mainQueue \in Seq({"gone", "exited"})
  BY DEF TypeInv, Counters
<1>1. ASSUME NEW g \in Grid, LayoutChanges(g) PROVE Turns'
  BY <1>1, <1>0 DEF LayoutChanges, StartsSession, CanStart
<1>2. CASE LayoutAgain
  BY <1>2, <1>0 DEF LayoutAgain, StartsSession, CanStart
<1>3. CASE RetryStarts
  BY <1>3, <1>0 DEF RetryStarts, StartsSession, CanStart
<1>4. CASE OpenConnects
  BY <1>4, <1>0 DEF OpenConnects
<1>5. CASE OpenFails
  BY <1>5, <1>0 DEF OpenFails
<1>6. CASE OpenReturns
  BY <1>6, <1>0 DEF OpenReturns, Closes
<1>7. CASE UserRetires
  BY <1>7, <1>0 DEF UserRetires, Retires, Closes
<1>8. CASE MainHearsGone
  BY <1>8, <1>0 DEF MainHearsGone
<1>9. CASE MainHearsExit
  BY <1>9, <1>0 DEF MainHearsExit, Retires, Closes
<1>10. CASE ReaderDelivers
  BY <1>10, <1>0 DEF ReaderDelivers
<1>11. CASE ReaderEnds
  BY <1>11, <1>0 DEF ReaderEnds
<1>12. CASE UserTypes
  BY <1>12, <1>0 DEF UserTypes
<1>13. CASE RunGate
  BY <1>13, <1>0 DEF RunGate
<1>14. CASE RunLost
  BY <1>14, <1>0 DEF RunLost
<1>15. CASE RunResize
  BY <1>15, <1>0 DEF RunResize, Sends
<1>16. CASE ReceiveSize
  BY <1>16, <1>0 DEF ReceiveSize, Flushed
<1>17. CASE ReceiveSnapshot
  BY <1>17, <1>0 DEF ReceiveSnapshot, Flushed
<1>18. CASE ReceiveOutput
  BY <1>18, <1>0 DEF ReceiveOutput
<1>19. CASE ReceiveAttached
  BY <1>19, <1>0 DEF ReceiveAttached, Sends, Flushed
<1>20. CASE ReceiveExited
  BY <1>20, <1>0 DEF ReceiveExited, Flushed
<1>21. CASE RunDrain
  BY <1>21, <1>0 DEF RunDrain
<1>22. CASE HoldPasses
  BY <1>22, <1>0 DEF HoldPasses
<1>23. CASE DrainReturns
  BY <1>23, <1>0 DEF DrainReturns
<1>24. CASE DaemonOutputs
  BY <1>24, <1>0 DEF DaemonOutputs
<1>25. CASE DaemonResizes
  BY <1>25, <1>0 DEF DaemonResizes
<1>26. CASE ChildExits
  BY <1>26, <1>0 DEF ChildExits
<1>27. CASE ConnBreaks
  BY <1>27, <1>0 DEF ConnBreaks
<1>28. CASE LinkReturns
  BY <1>28, <1>0 DEF LinkReturns
<1>29. CASE UNCHANGED clientVars
  BY <1>29, <1>0 DEF clientVars
<1> QED
  BY <1>1, <1>2, <1>3, <1>4, <1>5, <1>6, <1>7, <1>8, <1>9, <1>10, <1>11, <1>12,
     <1>13, <1>14, <1>15, <1>16, <1>17, <1>18, <1>19, <1>20, <1>21, <1>22,
     <1>23, <1>24, <1>25, <1>26, <1>27, <1>28, <1>29
     DEF ClientNext, MainRuns, StreamRuns, ReaderRuns, ClientUser, ClientWorld

(* A host that is retired has no blocks, and gets none. *)
LEMMA RetiredStep ==
    ASSUME TypeInv, retired, blocks = <<>>, [ClientNext]_clientVars
    PROVE  retired' /\ blocks' = <<>>
<1> USE DEF mainVars, fdVars, gridVars, coreVars, drainVars, streamVars,
            daemonVars
<1>1. ASSUME NEW g \in Grid, LayoutChanges(g) PROVE retired' /\ blocks' = <<>>
  BY <1>1 DEF LayoutChanges, StartsSession, CanStart
<1>2. CASE LayoutAgain
  BY <1>2 DEF LayoutAgain, StartsSession, CanStart
<1>3. CASE RetryStarts
  <2>1. GateBlocks(layoutGrid) = <<>>
    BY DEF GateBlocks, CanStart
  <2>2. blocks' = <<>> \o <<>>
    BY <1>3, <2>1 DEF RetryStarts
  <2>3. <<>> \in Seq(Item)
    BY EmptySeq
  <2>4. blocks' = <<>>
    BY <2>2, <2>3, ConcatEmptySeq
  <2> QED
    BY <1>3, <2>4 DEF RetryStarts
<1>4. CASE OpenConnects
  BY <1>4 DEF OpenConnects
<1>5. CASE OpenFails
  BY <1>5 DEF OpenFails
<1>6. CASE OpenReturns
  BY <1>6 DEF OpenReturns, Closes
<1>7. CASE UserRetires
  BY <1>7 DEF UserRetires, Retires, Closes
<1>8. CASE MainHearsGone
  BY <1>8 DEF MainHearsGone
<1>9. CASE MainHearsExit
  BY <1>9 DEF MainHearsExit, Retires, Closes
<1>10. CASE ReaderDelivers
  BY <1>10 DEF ReaderDelivers
<1>11. CASE ReaderEnds
  BY <1>11 DEF ReaderEnds
<1>12. CASE UserTypes
  BY <1>12 DEF UserTypes
<1>13. CASE RunGate
  BY <1>13 DEF RunGate
<1>14. CASE RunLost
  BY <1>14 DEF RunLost
<1>15. CASE RunResize
  BY <1>15 DEF RunResize, Sends
<1>16. CASE ReceiveSize
  BY <1>16 DEF ReceiveSize, Flushed
<1>17. CASE ReceiveSnapshot
  BY <1>17 DEF ReceiveSnapshot, Flushed
<1>18. CASE ReceiveOutput
  BY <1>18 DEF ReceiveOutput, HeadIs
<1>19. CASE ReceiveAttached
  BY <1>19 DEF ReceiveAttached, Sends, Flushed
<1>20. CASE ReceiveExited
  BY <1>20 DEF ReceiveExited, Flushed
<1>21. CASE RunDrain
  BY <1>21 DEF RunDrain
<1>22. CASE HoldPasses
  BY <1>22 DEF HoldPasses
<1>23. CASE DrainReturns
  BY <1>23 DEF DrainReturns
<1>24. CASE DaemonOutputs
  BY <1>24 DEF DaemonOutputs
<1>25. CASE DaemonResizes
  BY <1>25 DEF DaemonResizes
<1>26. CASE ChildExits
  BY <1>26 DEF ChildExits
<1>27. CASE ConnBreaks
  BY <1>27 DEF ConnBreaks
<1>28. CASE LinkReturns
  BY <1>28 DEF LinkReturns
<1>29. CASE UNCHANGED clientVars
  BY <1>29 DEF clientVars
<1> QED
  BY <1>1, <1>2, <1>3, <1>4, <1>5, <1>6, <1>7, <1>8, <1>9, <1>10, <1>11, <1>12,
     <1>13, <1>14, <1>15, <1>16, <1>17, <1>18, <1>19, <1>20, <1>21, <1>22,
     <1>23, <1>24, <1>25, <1>26, <1>27, <1>28, <1>29
     DEF ClientNext, MainRuns, StreamRuns, ReaderRuns, ClientUser, ClientWorld

(* Only output is held back. *)
LEMMA HeldStep ==
    ASSUME TypeInv, HeldIsOutput, [ClientNext]_clientVars
    PROVE  HeldIsOutput'
<1> USE DEF mainVars, fdVars, gridVars, coreVars, drainVars, streamVars,
            daemonVars
<1> USE DEF HeldIsOutput
<1>0. Bounded
  BY DEF TypeInv
<1>1. ASSUME NEW g \in Grid, LayoutChanges(g) PROVE HeldIsOutput'
  BY <1>1, <1>0 DEF LayoutChanges, StartsSession, CanStart
<1>2. CASE LayoutAgain
  BY <1>2, <1>0 DEF LayoutAgain, StartsSession, CanStart
<1>3. CASE RetryStarts
  BY <1>3, <1>0 DEF RetryStarts, StartsSession, CanStart
<1>4. CASE OpenConnects
  BY <1>4, <1>0 DEF OpenConnects
<1>5. CASE OpenFails
  BY <1>5, <1>0 DEF OpenFails
<1>6. CASE OpenReturns
  BY <1>6, <1>0 DEF OpenReturns, Closes
<1>7. CASE UserRetires
  BY <1>7, <1>0 DEF UserRetires, Retires, Closes
<1>8. CASE MainHearsGone
  BY <1>8, <1>0 DEF MainHearsGone
<1>9. CASE MainHearsExit
  BY <1>9, <1>0 DEF MainHearsExit, Retires, Closes
<1>10. CASE ReaderDelivers
  BY <1>10, <1>0 DEF ReaderDelivers
<1>11. CASE ReaderEnds
  BY <1>11, <1>0 DEF ReaderEnds
<1>12. CASE UserTypes
  BY <1>12, <1>0 DEF UserTypes
<1>13. CASE RunGate
  BY <1>13, <1>0 DEF RunGate
<1>14. CASE RunLost
  BY <1>14, <1>0 DEF RunLost
<1>15. CASE RunResize
  BY <1>15, <1>0 DEF RunResize, Sends
<1>16. CASE ReceiveSize
  BY <1>16, <1>0 DEF ReceiveSize, Flushed
<1>17. CASE ReceiveSnapshot
  BY <1>17, <1>0 DEF ReceiveSnapshot, Flushed
<1>18. CASE ReceiveOutput
  <2>1. Head(blocks).kind = "OUTPUT" /\ coalesced' = Append(coalesced, Head(blocks))
    BY <1>18 DEF ReceiveOutput, HeadIs
  <2>2. coalesced \in Seq(Queued) /\ Head(blocks) \in Queued
    BY <1>18, <1>0, HeadOfQueue DEF Bounded, ReceiveOutput, HeadIs
  <2>3. /\ DOMAIN coalesced' = 1 .. Len(coalesced) + 1 /\ Len(coalesced) \in Nat
        /\ DOMAIN coalesced = 1 .. Len(coalesced)
        /\ coalesced'[Len(coalesced) + 1] = Head(blocks)
        /\ \A i \in 1 .. Len(coalesced) : coalesced'[i] = coalesced[i]
    BY <2>1, <2>2, AppendProperties
  <2> QED
    BY <2>1, <2>3
<1>19. CASE ReceiveAttached
  BY <1>19, <1>0 DEF ReceiveAttached, Sends, Flushed
<1>20. CASE ReceiveExited
  BY <1>20, <1>0 DEF ReceiveExited, Flushed
<1>21. CASE RunDrain
  BY <1>21, <1>0 DEF RunDrain
<1>22. CASE HoldPasses
  BY <1>22, <1>0 DEF HoldPasses
<1>23. CASE DrainReturns
  BY <1>23, <1>0 DEF DrainReturns
<1>24. CASE DaemonOutputs
  BY <1>24, <1>0 DEF DaemonOutputs
<1>25. CASE DaemonResizes
  BY <1>25, <1>0 DEF DaemonResizes
<1>26. CASE ChildExits
  BY <1>26, <1>0 DEF ChildExits
<1>27. CASE ConnBreaks
  BY <1>27, <1>0 DEF ConnBreaks
<1>28. CASE LinkReturns
  BY <1>28, <1>0 DEF LinkReturns
<1>29. CASE UNCHANGED clientVars
  BY <1>29, <1>0 DEF clientVars
<1> QED
  BY <1>1, <1>2, <1>3, <1>4, <1>5, <1>6, <1>7, <1>8, <1>9, <1>10, <1>11, <1>12,
     <1>13, <1>14, <1>15, <1>16, <1>17, <1>18, <1>19, <1>20, <1>21, <1>22,
     <1>23, <1>24, <1>25, <1>26, <1>27, <1>28, <1>29
     DEF ClientNext, MainRuns, StreamRuns, ReaderRuns, ClientUser, ClientWorld

(* What is queued keeps finding what it needs. *)
LEMMA ReadyStep ==
    ASSUME TypeInv, Turns, Ready, ~retired, ~retired', [ClientNext]_clientVars
    PROVE  Ready'
<1> USE DEF mainVars, fdVars, gridVars, coreVars, drainVars, streamVars,
            daemonVars
<1>0. Bounded /\ blocks \in Seq(Item) /\ onWire \in Seq(Item)
  BY QueuesAreItems DEF TypeInv
<1>a. Block("lost", NoGrid) \in Item /\ Block("drain", NoGrid) \in Item
  BY <1>0 DEF Block, Item, Kind, Bounded
<1>1. ASSUME NEW g \in Grid, LayoutChanges(g) PROVE Ready'
  <2>1. /\ StartsSession
        /\ blocks' = blocks \o GateBlocks(g) \o <<Block("resize", g)>>
        /\ UNCHANGED <<session, reader, gate, installedGrid, streamGrid, onWire,
                       coalesced, peer, conn>>
    BY <1>1 DEF LayoutChanges
  <2> QED
    BY <2>1, StartQueued
<1>2. CASE LayoutAgain
  <2>1. /\ StartsSession /\ layoutGrid \in Grid
        /\ blocks' = blocks \o GateBlocks(layoutGrid)
                           \o <<Block("resize", layoutGrid)>>
        /\ UNCHANGED <<session, reader, gate, installedGrid, streamGrid, onWire,
                       coalesced, peer, conn>>
    BY <1>2 DEF LayoutAgain, TypeInv, Sizes
  <2> QED
    BY <2>1, StartQueued
<1>3. CASE RetryStarts
  <2>1. /\ StartsSession /\ layoutGrid \in Grid
        /\ blocks' = blocks \o GateBlocks(layoutGrid)
        /\ UNCHANGED <<session, reader, gate, installedGrid, streamGrid, onWire,
                       coalesced, peer, conn>>
    BY <1>3 DEF RetryStarts, TypeInv, Sizes, LaidOut
  <2> QED
    BY <2>1, StartQueued
<1>4. CASE OpenConnects
  <2> DEFINE x == SizeOf(ptyGrid, TRUE, conn + 1)
             y == Chunk("SNAPSHOT", frames + 1, conn + 1)
             z == Marker("ATTACHED", conn + 1)
  <2>1. /\ x \in Item /\ y \in Item /\ z \in Item
        /\ x.kind = "SIZE" /\ y.kind = "SNAPSHOT" /\ z.kind = "ATTACHED"
    BY <1>0 DEF SizeOf, Chunk, Marker, Item, Kind, Bounded, TypeInv, Sizes
  <2>2. /\ opening = "asked" /\ opening' = "opened" /\ reader' = "off" /\ peer'
        /\ conn' = conn + 1 /\ onWire' = <<x, y, z>>
        /\ UNCHANGED <<gate, installedGrid, streamGrid, blocks, coalesced>>
    BY <1>4 DEF OpenConnects
  <2> HIDE DEF x, y, z
  <2> QED
    BY <1>0, <2>1, <2>2, ConnectionOpens
<1>5. CASE OpenFails
  <2>1. /\ opening' \in {opening, "no", "failed"} /\ reader' \in {reader, "done"}
        /\ UNCHANGED <<gate, installedGrid, streamGrid, blocks, onWire,
                       coalesced, peer, conn>>
    BY <1>5 DEF OpenFails
  <2> QED
    BY <2>1, NothingQueued
<1>11. CASE ReaderEnds
  <2>1. /\ opening' \in {opening, "no", "failed"} /\ reader' \in {reader, "done"}
        /\ UNCHANGED <<gate, installedGrid, streamGrid, blocks, onWire,
                       coalesced, peer, conn>>
    BY <1>11 DEF ReaderEnds
  <2> QED
    BY <2>1, NothingQueued
<1>12. CASE UserTypes
  <2>1. /\ opening' \in {opening, "no", "failed"} /\ reader' \in {reader, "done"}
        /\ UNCHANGED <<gate, installedGrid, streamGrid, blocks, onWire,
                       coalesced, peer, conn>>
    BY <1>12 DEF UserTypes
  <2> QED
    BY <2>1, NothingQueued
<1>22. CASE HoldPasses
  <2>1. /\ opening' \in {opening, "no", "failed"} /\ reader' \in {reader, "done"}
        /\ UNCHANGED <<gate, installedGrid, streamGrid, blocks, onWire,
                       coalesced, peer, conn>>
    BY <1>22 DEF HoldPasses
  <2> QED
    BY <2>1, NothingQueued
<1>28. CASE LinkReturns
  <2>1. /\ opening' \in {opening, "no", "failed"} /\ reader' \in {reader, "done"}
        /\ UNCHANGED <<gate, installedGrid, streamGrid, blocks, onWire,
                       coalesced, peer, conn>>
    BY <1>28 DEF LinkReturns
  <2> QED
    BY <2>1, NothingQueued
<1>6. CASE OpenReturns
  <2>1. /\ opening' = "no"
        /\ UNCHANGED <<gate, installedGrid, streamGrid, blocks, coalesced, conn>>
    BY <1>6 DEF OpenReturns
  <2>2. CASE opening = "failed"
    <3>1. UNCHANGED <<reader, onWire, peer>>
      BY <1>6, <2>2 DEF OpenReturns
    <3> QED
      BY <2>1, <3>1, NothingQueued
  <2>3. CASE opening # "failed"
    <3>1. reader = "off"
      BY <1>6, <2>3 DEF OpenReturns, Turns
    <3>2. reader' = "reads" /\ UNCHANGED <<onWire, peer>>
      BY <1>6, <2>3 DEF OpenReturns
    <3> QED
      BY <1>0, <2>1, <3>1, <3>2, ReaderBegins
  <2> QED
    BY <2>2, <2>3
<1>7. CASE UserRetires
  BY <1>7 DEF UserRetires, Retires
<1>9. CASE MainHearsExit
  BY <1>9 DEF MainHearsExit, Retires
<1>8. CASE MainHearsGone
  <2>1. /\ blocks' = Append(blocks, Block("lost", NoGrid))
        /\ UNCHANGED <<opening, reader, gate, installedGrid, streamGrid, onWire,
                       coalesced, peer, conn>>
    BY <1>8 DEF MainHearsGone
  <2>2. reader # "reads"
    <3>1. mainQueue # <<>> /\ Head(mainQueue) = "gone"
      BY <1>8 DEF MainHearsGone
    <3>2. 1 \in DOMAIN mainQueue /\ mainQueue[1] = "gone"
      BY <3>1 DEF TypeInv, Counters
    <3> QED
      BY <3>2 DEF Turns
  <2>3. Block("lost", NoGrid).kind \in Shuts /\ ~Block("lost", NoGrid).replay
    BY DEF Block, Shuts
  <2> QED
    BY <1>0, <1>a, <2>1, <2>2, <2>3, ShutQueued
<1>10. CASE ReaderDelivers
  <2>1. /\ reader = "reads" /\ onWire # <<>>
        /\ blocks' = Append(blocks, Head(onWire)) /\ onWire' = Tail(onWire)
        /\ UNCHANGED <<opening, reader, gate, installedGrid, streamGrid,
                       coalesced, peer, conn>>
    BY <1>10 DEF ReaderDelivers
  <2>2. opening = "no"
    BY <2>1 DEF Turns
  <2> QED
    BY <1>0, <2>1, <2>2, FrameTaken
<1>13. CASE RunGate
  <2>1. /\ blocks # <<>> /\ Head(blocks).kind = "gate"
    BY <1>13 DEF RunGate, HeadIs
  <2>2. gate' /\ (Fits' <=> Fits)
    BY <1>13 DEF RunGate, HeadIs, Fits
  <2>3. coalesced' \in {coalesced, <<>>}
            \/ coalesced' = Append(coalesced, Head(blocks))
    BY <1>13, Zenon DEF RunGate
  <2>4. blocks' \in {Tail(blocks), Append(Tail(blocks), Block("drain", NoGrid))}
    BY <1>13, Zenon DEF RunGate
  <2>5. UNCHANGED <<opening, reader, onWire, peer, conn>>
    BY <1>13 DEF RunGate
  <2> QED
    BY <1>0, <2>1, <2>2, <2>3, <2>4, <2>5, HeadRuns DEF Shuts
<1>14. CASE RunLost
  <2>1. /\ blocks # <<>> /\ Head(blocks).kind = "lost"
    BY <1>14 DEF RunLost, HeadIs
  <2>2. gate' /\ (Fits' <=> Fits)
    BY <1>14 DEF RunLost, HeadIs, Fits
  <2>3. coalesced' \in {coalesced, <<>>}
            \/ coalesced' = Append(coalesced, Head(blocks))
    BY <1>14, Zenon DEF RunLost
  <2>4. blocks' \in {Tail(blocks), Append(Tail(blocks), Block("drain", NoGrid))}
    BY <1>14, Zenon DEF RunLost
  <2>5. UNCHANGED <<opening, reader, onWire, peer, conn>>
    BY <1>14 DEF RunLost
  <2> QED
    BY <1>0, <2>1, <2>2, <2>3, <2>4, <2>5, HeadRuns DEF Shuts
<1>15. CASE RunResize
  <2>1. /\ blocks # <<>> /\ Head(blocks).kind = "resize"
    BY <1>15 DEF RunResize, HeadIs
  <2>2. (gate' <=> gate) /\ (Fits' <=> Fits)
    BY <1>15 DEF RunResize, HeadIs, Fits
  <2>3. coalesced' \in {coalesced, <<>>}
            \/ coalesced' = Append(coalesced, Head(blocks))
    BY <1>15, Zenon DEF RunResize
  <2>4. blocks' \in {Tail(blocks), Append(Tail(blocks), Block("drain", NoGrid))}
    BY <1>15, Zenon DEF RunResize
  <2>5. UNCHANGED <<opening, reader, onWire, peer, conn>>
    BY <1>15 DEF RunResize
  <2> QED
    BY <1>0, <2>1, <2>2, <2>3, <2>4, <2>5, HeadRuns DEF Shuts
<1>21. CASE RunDrain
  <2>1. /\ blocks # <<>> /\ Head(blocks).kind = "drain"
    BY <1>21 DEF RunDrain, HeadIs
  <2>2. (gate' <=> gate) /\ (Fits' <=> Fits)
    BY <1>21 DEF RunDrain, HeadIs, Fits
  <2>3. coalesced' \in {coalesced, <<>>}
            \/ coalesced' = Append(coalesced, Head(blocks))
    BY <1>21, Zenon DEF RunDrain
  <2>4. blocks' \in {Tail(blocks), Append(Tail(blocks), Block("drain", NoGrid))}
    BY <1>21, Zenon DEF RunDrain
  <2>5. UNCHANGED <<opening, reader, onWire, peer, conn>>
    BY <1>21 DEF RunDrain
  <2> QED
    BY <1>0, <2>1, <2>2, <2>3, <2>4, <2>5, HeadRuns DEF Shuts
<1>16. CASE ReceiveSize
  <2>1. /\ blocks # <<>> /\ Head(blocks).kind = "SIZE"
    BY <1>16 DEF ReceiveSize, HeadIs
  <2>2. (gate' <=> gate) /\ Fits'
    BY <1>16 DEF ReceiveSize, HeadIs, Flushed, Fits
  <2>3. coalesced' \in {coalesced, <<>>}
            \/ coalesced' = Append(coalesced, Head(blocks))
    BY <1>16, Zenon DEF ReceiveSize, Flushed
  <2>4. blocks' \in {Tail(blocks), Append(Tail(blocks), Block("drain", NoGrid))}
    BY <1>16, Zenon DEF ReceiveSize
  <2>5. UNCHANGED <<opening, reader, onWire, peer, conn>>
    BY <1>16 DEF ReceiveSize
  <2> QED
    BY <1>0, <2>1, <2>2, <2>3, <2>4, <2>5, HeadRuns DEF Shuts
<1>17. CASE ReceiveSnapshot
  <2>1. /\ blocks # <<>> /\ Head(blocks).kind = "SNAPSHOT"
    BY <1>17 DEF ReceiveSnapshot, HeadIs
  <2>2. (gate' <=> gate) /\ (Fits' <=> Fits)
    BY <1>17 DEF ReceiveSnapshot, HeadIs, Flushed, Fits
  <2>3. coalesced' \in {coalesced, <<>>}
            \/ coalesced' = Append(coalesced, Head(blocks))
    BY <1>17, Zenon DEF ReceiveSnapshot, Flushed
  <2>4. blocks' \in {Tail(blocks), Append(Tail(blocks), Block("drain", NoGrid))}
    BY <1>17, Zenon DEF ReceiveSnapshot
  <2>5. UNCHANGED <<opening, reader, onWire, peer, conn>>
    BY <1>17 DEF ReceiveSnapshot
  <2> QED
    BY <1>0, <2>1, <2>2, <2>3, <2>4, <2>5, HeadRuns DEF Shuts
<1>18. CASE ReceiveOutput
  <2>1. /\ blocks # <<>> /\ Head(blocks).kind = "OUTPUT"
    BY <1>18 DEF ReceiveOutput, HeadIs
  <2>2. (gate' <=> gate) /\ (Fits' <=> Fits)
    BY <1>18 DEF ReceiveOutput, HeadIs, Fits
  <2>3. coalesced' \in {coalesced, <<>>}
            \/ coalesced' = Append(coalesced, Head(blocks))
    BY <1>18, Zenon DEF ReceiveOutput
  <2>4. blocks' \in {Tail(blocks), Append(Tail(blocks), Block("drain", NoGrid))}
    BY <1>18, Zenon DEF ReceiveOutput
  <2>5. UNCHANGED <<opening, reader, onWire, peer, conn>>
    BY <1>18 DEF ReceiveOutput
  <2> QED
    BY <1>0, <2>1, <2>2, <2>3, <2>4, <2>5, HeadRuns DEF Shuts
<1>19. CASE ReceiveAttached
  <2>1. /\ blocks # <<>> /\ Head(blocks).kind = "ATTACHED"
    BY <1>19 DEF ReceiveAttached, HeadIs
  <2>2. ~gate'
    BY <1>19 DEF ReceiveAttached, HeadIs, Flushed, Fits
  <2>3. coalesced' \in {coalesced, <<>>}
            \/ coalesced' = Append(coalesced, Head(blocks))
    BY <1>19, Zenon DEF ReceiveAttached, Flushed
  <2>4. blocks' \in {Tail(blocks), Append(Tail(blocks), Block("drain", NoGrid))}
    BY <1>19, Zenon DEF ReceiveAttached
  <2>5. UNCHANGED <<opening, reader, onWire, peer, conn>>
    BY <1>19 DEF ReceiveAttached
  <2> QED
    BY <1>0, <2>1, <2>2, <2>3, <2>4, <2>5, HeadRuns DEF Shuts
<1>20. CASE ReceiveExited
  <2>1. /\ blocks # <<>> /\ Head(blocks).kind = "EXITED"
    BY <1>20 DEF ReceiveExited, HeadIs
  <2>2. (gate' <=> gate) /\ (Fits' <=> Fits)
    BY <1>20 DEF ReceiveExited, HeadIs, Flushed, Fits
  <2>3. coalesced' \in {coalesced, <<>>}
            \/ coalesced' = Append(coalesced, Head(blocks))
    BY <1>20, Zenon DEF ReceiveExited, Flushed
  <2>4. blocks' \in {Tail(blocks), Append(Tail(blocks), Block("drain", NoGrid))}
    BY <1>20, Zenon DEF ReceiveExited
  <2>5. UNCHANGED <<opening, reader, onWire, peer, conn>>
    BY <1>20 DEF ReceiveExited
  <2> QED
    BY <1>0, <2>1, <2>2, <2>3, <2>4, <2>5, HeadRuns DEF Shuts
<1>23. CASE DrainReturns
  <2>1. /\ blocks' = Append(blocks, Block("drain", NoGrid))
        /\ UNCHANGED <<opening, reader, gate, installedGrid, streamGrid, onWire,
                       coalesced, peer, conn>>
    BY <1>23 DEF DrainReturns
  <2>2. Block("drain", NoGrid).kind = "drain" /\ ~Block("drain", NoGrid).replay
    BY DEF Block
  <2> QED
    BY <1>0, <1>a, <2>1, <2>2, BlockQueued
<1>24. CASE DaemonOutputs
  <2> DEFINE x == Chunk("OUTPUT", frames + 1, conn)
  <2>1. /\ x \in Item /\ x.kind = "OUTPUT" /\ ~x.replay
        /\ x.kind \notin Shuts /\ x.kind # "SNAPSHOT"
    <3>1. x = [kind |-> "OUTPUT", grid |-> NoGrid, n |-> frames + 1,
               conn |-> conn, replay |-> FALSE]
      BY "OUTPUT" # "SNAPSHOT" DEF Chunk
    <3> HIDE DEF x
    <3>2. frames + 1 \in Nat /\ conn \in Nat
      BY <1>0 DEF Bounded
    <3>3. x \in Item
      BY <3>1, <3>2 DEF Item, Kind
    <3> QED
      BY <3>1, <3>3 DEF Shuts
  <2>2. /\ onWire' \in {onWire, Append(onWire, x)}
        /\ UNCHANGED <<opening, reader, gate, installedGrid, streamGrid, blocks,
                       coalesced, conn>>
    BY <1>24 DEF DaemonOutputs
  <2>3. peer /\ peer'
    BY <1>24 DEF DaemonOutputs
  <2> HIDE DEF x
  <2> QED
    BY <1>0, <2>1, <2>2, <2>3, FrameSent
<1>25. CASE DaemonResizes
  <2> DEFINE x == SizeOf(Head(asked), FALSE, conn)
  <2>1. /\ x \in Item /\ x.kind = "SIZE" /\ ~x.replay
        /\ x.kind \notin Shuts /\ x.kind # "SNAPSHOT"
    <3>1. Head(asked) \in Grid
      BY <1>25 DEF DaemonResizes, TypeInv, Sizes
    <3> QED
      BY <1>0, <3>1 DEF SizeOf, Item, Kind, Bounded, Shuts
  <2>2. /\ onWire' \in {onWire, Append(onWire, x)}
        /\ UNCHANGED <<opening, reader, gate, installedGrid, streamGrid, blocks,
                       coalesced, conn>>
    BY <1>25 DEF DaemonResizes
  <2>3. peer' => peer
    BY <1>25 DEF DaemonResizes
  <2> HIDE DEF x
  <2> QED
    BY <1>0, <2>1, <2>2, <2>3, FrameSent
<1>26. CASE ChildExits
  <2> DEFINE x == Marker("EXITED", conn)
  <2>1. /\ x \in Item /\ x.kind = "EXITED" /\ ~x.replay
        /\ x.kind \notin Shuts /\ x.kind # "SNAPSHOT"
    <3>1. x = [kind |-> "EXITED", grid |-> NoGrid, n |-> 0, conn |-> conn,
               replay |-> FALSE]
      BY "EXITED" # "ATTACHED" DEF Marker
    <3> HIDE DEF x
    <3>2. conn \in Nat
      BY <1>0 DEF Bounded
    <3>3. x \in Item
      BY <3>1, <3>2 DEF Item, Kind
    <3> QED
      BY <3>1, <3>3 DEF Shuts
  <2>2. /\ onWire' \in {onWire, Append(onWire, x)}
        /\ UNCHANGED <<opening, reader, gate, installedGrid, streamGrid, blocks,
                       coalesced, conn>>
    BY <1>26 DEF ChildExits
  <2>3. ~peer'
    BY <1>26 DEF ChildExits
  <2> HIDE DEF x
  <2> QED
    BY <1>0, <2>1, <2>2, <2>3, FrameSent
<1>27. CASE ConnBreaks
  <2>1. /\ ~peer' /\ \E n \in 0 .. Len(onWire) : onWire' = SubSeq(onWire, 1, n)
        /\ UNCHANGED <<opening, reader, gate, installedGrid, streamGrid, blocks,
                       coalesced, conn>>
    BY <1>27 DEF ConnBreaks
  <2> QED
    BY <1>0, <2>1, EndOfWireLost
<1>29. CASE UNCHANGED clientVars
  <2>1. /\ UNCHANGED <<opening, reader>>
        /\ UNCHANGED <<gate, installedGrid, streamGrid, blocks, onWire,
                       coalesced, peer, conn>>
    BY <1>29 DEF clientVars
  <2> QED
    BY <2>1, NothingQueued
<1> QED
  BY <1>1, <1>2, <1>3, <1>4, <1>5, <1>6, <1>7, <1>8, <1>9, <1>10, <1>11, <1>12,
     <1>13, <1>14, <1>15, <1>16, <1>17, <1>18, <1>19, <1>20, <1>21, <1>22,
     <1>23, <1>24, <1>25, <1>26, <1>27, <1>28, <1>29
     DEF ClientNext, MainRuns, StreamRuns, ReaderRuns, ClientUser, ClientWorld

-----------------------------------------------------------------------------
(* What the core is given, it meets as it should. *)
LEMMA NothingAmiss ==
    ASSUME Bounded, HeldIsOutput, Ready, blocks # <<>>,
           Head(blocks).kind # "OUTPUT",
           NEW chunks \in {coalesced, Append(coalesced, Head(blocks))},
           NEW markers \in {{}, {Head(blocks)}}, Given(chunks, markers)
    PROVE  amiss' = amiss
<1> DEFINE met == Range(chunks) \cup markers
<1>1. /\ blocks \in Seq(Item) /\ onWire \in Seq(Item) /\ Queue \in Seq(Item)
      /\ coalesced \in Seq(Queued)
      /\ \A x \in Queued : x \in Item /\ (x.kind = "OUTPUT" => ~x.replay)
  BY QueuesAreItems DEF Bounded
<1>2. /\ 1 \in DOMAIN Queue /\ Queue[1] = Head(blocks)
      /\ Head(blocks) \in Item
  BY <1>1 DEF Queue
<1>3. /\ Head(blocks).replay => gate
      /\ Head(blocks).kind = "SNAPSHOT" => Fits
  <2>1. /\ Guarded(Queue, gate, Shuts, 1) => gate
        /\ Guarded(Queue, Fits, {"SIZE"}, 1) => Fits
    BY DEF Guarded
  <2>2. /\ Head(blocks) \in Replays => Guarded(Queue, gate, Shuts, 1)
        /\ Head(blocks) \in Snapshots => Guarded(Queue, Fits, {"SIZE"}, 1)
    BY <1>2 DEF Ready, Finds
  <2>3. /\ Head(blocks).replay => Head(blocks) \in Replays
        /\ Head(blocks).kind = "SNAPSHOT" => Head(blocks) \in Snapshots
    BY <1>2 DEF Replays, Snapshots
  <2> QED
    BY <2>1, <2>2, <2>3
<1>4. ASSUME NEW i \in DOMAIN coalesced
      PROVE  /\ coalesced[i].kind = "OUTPUT" /\ ~coalesced[i].replay
             /\ ~(Lives(coalesced[i]) /\ gate)
  <2>1. coalesced[i].kind = "OUTPUT"
    BY DEF HeldIsOutput
  <2>2. ~coalesced[i].replay
    BY <1>1, <2>1
  <2>3. ASSUME Lives(coalesced[i]) PROVE ~gate
    <3>1. Opened(Queue, ~gate, coalesced, peer, conn)
      BY <2>3 DEF Lives, Ready, Reading
    <3>2. ~NoneLive(coalesced, conn)
      BY <2>1, <2>3 DEF NoneLive, Live, Lives
    <3> QED
      BY <3>1, <3>2 DEF Opened
  <2> QED
    BY <2>1, <2>2, <2>3
<1>5. ASSUME NEW f \in met
      PROVE  f = Head(blocks) \/ \E i \in DOMAIN coalesced : f = coalesced[i]
  <2>1. CASE chunks = coalesced
    BY <2>1 DEF Range
  <2>2. CASE chunks = Append(coalesced, Head(blocks))
    BY <1>1, <1>2, <2>2 DEF Range
  <2> QED
    BY <2>1, <2>2
<1>6. ASSUME NEW f \in met
      PROVE  /\ ~(f.replay /\ ~gate)
             /\ ~(f.kind = "OUTPUT" /\ Lives(f) /\ gate)
             /\ ~(f.kind = "SNAPSHOT" /\ installedGrid # streamGrid)
  <2>1. CASE f = Head(blocks)
    BY <2>1, <1>3 DEF Fits
  <2>2. CASE \E i \in DOMAIN coalesced : f = coalesced[i]
    BY <2>2, <1>4
  <2> QED
    BY <1>5, <2>1, <2>2
<1>7. /\ {"answered" : f \in {g \in met : g.replay /\ ~gate}} = {}
      /\ {"muted" : f \in {g \in met :
                               g.kind = "OUTPUT" /\ Lives(g) /\ gate}} = {}
      /\ {"misfit" : f \in {g \in met :
                               g.kind = "SNAPSHOT" /\ installedGrid # streamGrid}} = {}
  BY <1>6
<1> QED
  BY <1>7 DEF Given, GivenTo

(* So nothing is ever amiss. *)
LEMMA AmissStep ==
    ASSUME TypeInv, QuietInv, [ClientNext]_clientVars
    PROVE  amiss' = amiss
<1> USE DEF mainVars, fdVars, gridVars, coreVars, drainVars, streamVars,
            daemonVars
<1>0. Bounded /\ HeldIsOutput /\ (blocks # <<>> => Ready)
  BY DEF TypeInv, QuietInv
<1>1. ASSUME NEW g \in Grid, LayoutChanges(g) PROVE amiss' = amiss
  BY <1>1 DEF LayoutChanges
<1>2. CASE LayoutAgain
  BY <1>2 DEF LayoutAgain
<1>3. CASE RetryStarts
  BY <1>3 DEF RetryStarts
<1>4. CASE OpenConnects
  BY <1>4 DEF OpenConnects
<1>5. CASE OpenFails
  BY <1>5 DEF OpenFails
<1>6. CASE OpenReturns
  BY <1>6 DEF OpenReturns
<1>7. CASE UserRetires
  BY <1>7 DEF UserRetires
<1>8. CASE MainHearsGone
  BY <1>8 DEF MainHearsGone
<1>9. CASE MainHearsExit
  BY <1>9 DEF MainHearsExit
<1>10. CASE ReaderDelivers
  BY <1>10 DEF ReaderDelivers
<1>11. CASE ReaderEnds
  BY <1>11 DEF ReaderEnds
<1>12. CASE UserTypes
  BY <1>12 DEF UserTypes
<1>13. CASE RunGate
  BY <1>13 DEF RunGate
<1>14. CASE RunLost
  BY <1>14 DEF RunLost
<1>15. CASE RunResize
  BY <1>15 DEF RunResize
<1>16. CASE ReceiveSize
  <2>1. /\ blocks # <<>> /\ Head(blocks).kind = "SIZE"
        /\ Given(coalesced, {Head(blocks)})
    BY <1>16 DEF ReceiveSize, HeadIs
  <2> QED
    BY <1>0, <2>1, NothingAmiss
<1>17. CASE ReceiveSnapshot
  <2>1. /\ blocks # <<>> /\ Head(blocks).kind = "SNAPSHOT"
        /\ Given(Append(coalesced, Head(blocks)), {})
    BY <1>17 DEF ReceiveSnapshot, HeadIs
  <2> QED
    BY <1>0, <2>1, NothingAmiss
<1>18. CASE ReceiveOutput
  BY <1>18 DEF ReceiveOutput
<1>19. CASE ReceiveAttached
  <2>1. /\ blocks # <<>> /\ Head(blocks).kind = "ATTACHED"
        /\ Given(coalesced, {Head(blocks)})
    BY <1>19 DEF ReceiveAttached, HeadIs
  <2> QED
    BY <1>0, <2>1, NothingAmiss
<1>20. CASE ReceiveExited
  <2>1. /\ blocks # <<>> /\ Head(blocks).kind = "EXITED" /\ Given(coalesced, {})
    BY <1>20 DEF ReceiveExited, HeadIs
  <2> QED
    BY <1>0, <2>1, NothingAmiss
<1>21. CASE RunDrain
  <2>1. /\ blocks # <<>> /\ Head(blocks).kind = "drain"
        /\ UNCHANGED coreVars \/ Given(coalesced, {})
    BY <1>21 DEF RunDrain, HeadIs
  <2> QED
    BY <1>0, <2>1, NothingAmiss DEF coreVars
<1>22. CASE HoldPasses
  BY <1>22 DEF HoldPasses
<1>23. CASE DrainReturns
  BY <1>23 DEF DrainReturns
<1>24. CASE DaemonOutputs
  BY <1>24 DEF DaemonOutputs
<1>25. CASE DaemonResizes
  BY <1>25 DEF DaemonResizes
<1>26. CASE ChildExits
  BY <1>26 DEF ChildExits
<1>27. CASE ConnBreaks
  BY <1>27 DEF ConnBreaks
<1>28. CASE LinkReturns
  BY <1>28 DEF LinkReturns
<1>29. CASE UNCHANGED clientVars
  BY <1>29 DEF clientVars
<1> QED
  BY <1>1, <1>2, <1>3, <1>4, <1>5, <1>6, <1>7, <1>8, <1>9, <1>10, <1>11, <1>12,
     <1>13, <1>14, <1>15, <1>16, <1>17, <1>18, <1>19, <1>20, <1>21, <1>22,
     <1>23, <1>24, <1>25, <1>26, <1>27, <1>28, <1>29
     DEF ClientNext, MainRuns, StreamRuns, ReaderRuns, ClientUser, ClientWorld

-----------------------------------------------------------------------------
(* It is so in the beginning, *)
LEMMA QuietInit == ClientInit => QuietInv
<1> SUFFICES ASSUME ClientInit PROVE QuietInv
  OBVIOUS
<1>1. /\ session = FALSE /\ opening = "no" /\ mainQueue = <<>> /\ retired = FALSE
      /\ reader = "off" /\ blocks = <<>> /\ coalesced = <<>> /\ onWire = <<>>
      /\ peer = FALSE
  BY DEF ClientInit
<1>2. HeldIsOutput
  BY <1>1 DEF HeldIsOutput
<1>3. Turns
  BY <1>1 DEF Turns
<1>4. Queue = <<>>
  BY <1>1, EmptySeq DEF Queue
<1>5. \A now, set, items : Finds(Queue, now, set, items)
  BY <1>4 DEF Finds
<1>6. Asked /\ Reading
  BY <1>1 DEF Asked, Reading
<1>7. Unread
  BY <1>1 DEF Unread, NoneLive, Opened
<1> QED
  BY <1>1, <1>2, <1>3, <1>5, <1>6, <1>7 DEF QuietInv, Ready

(* a host that retires drops its blocks, *)
LEMMA RetiringStep ==
    ASSUME ~retired, retired', [ClientNext]_clientVars
    PROVE  blocks' = <<>>
<1> USE DEF mainVars, fdVars, gridVars, coreVars, drainVars, streamVars,
            daemonVars
<1>1. ASSUME NEW g \in Grid, LayoutChanges(g) PROVE blocks' = <<>>
  BY <1>1 DEF LayoutChanges
<1>2. CASE LayoutAgain
  BY <1>2 DEF LayoutAgain
<1>3. CASE RetryStarts
  BY <1>3 DEF RetryStarts
<1>4. CASE OpenConnects
  BY <1>4 DEF OpenConnects
<1>5. CASE OpenFails
  BY <1>5 DEF OpenFails
<1>6. CASE OpenReturns
  BY <1>6 DEF OpenReturns
<1>7. CASE UserRetires
  BY <1>7 DEF UserRetires, Retires
<1>8. CASE MainHearsGone
  BY <1>8 DEF MainHearsGone
<1>9. CASE MainHearsExit
  BY <1>9 DEF MainHearsExit, Retires
<1>10. CASE ReaderDelivers
  BY <1>10 DEF ReaderDelivers
<1>11. CASE ReaderEnds
  BY <1>11 DEF ReaderEnds
<1>12. CASE UserTypes
  BY <1>12 DEF UserTypes
<1>13. CASE RunGate
  BY <1>13 DEF RunGate
<1>14. CASE RunLost
  BY <1>14 DEF RunLost
<1>15. CASE RunResize
  BY <1>15 DEF RunResize
<1>16. CASE ReceiveSize
  BY <1>16 DEF ReceiveSize
<1>17. CASE ReceiveSnapshot
  BY <1>17 DEF ReceiveSnapshot
<1>18. CASE ReceiveOutput
  BY <1>18 DEF ReceiveOutput
<1>19. CASE ReceiveAttached
  BY <1>19 DEF ReceiveAttached
<1>20. CASE ReceiveExited
  BY <1>20 DEF ReceiveExited
<1>21. CASE RunDrain
  BY <1>21 DEF RunDrain
<1>22. CASE HoldPasses
  BY <1>22 DEF HoldPasses
<1>23. CASE DrainReturns
  BY <1>23 DEF DrainReturns
<1>24. CASE DaemonOutputs
  BY <1>24 DEF DaemonOutputs
<1>25. CASE DaemonResizes
  BY <1>25 DEF DaemonResizes
<1>26. CASE ChildExits
  BY <1>26 DEF ChildExits
<1>27. CASE ConnBreaks
  BY <1>27 DEF ConnBreaks
<1>28. CASE LinkReturns
  BY <1>28 DEF LinkReturns
<1>29. CASE UNCHANGED clientVars
  BY <1>29 DEF clientVars
<1> QED
  BY <1>1, <1>2, <1>3, <1>4, <1>5, <1>6, <1>7, <1>8, <1>9, <1>10, <1>11, <1>12,
     <1>13, <1>14, <1>15, <1>16, <1>17, <1>18, <1>19, <1>20, <1>21, <1>22,
     <1>23, <1>24, <1>25, <1>26, <1>27, <1>28, <1>29
     DEF ClientNext, MainRuns, StreamRuns, ReaderRuns, ClientUser, ClientWorld

(* and every step keeps it. *)
LEMMA QuietStep ==
    ASSUME TypeInv, QuietInv, [ClientNext]_clientVars
    PROVE  QuietInv'
<1>1. HeldIsOutput'
  BY HeldStep DEF QuietInv
<1>2. CASE retired
  <2>1. retired' /\ blocks' = <<>>
    BY <1>2, RetiredStep DEF QuietInv
  <2> QED
    BY <1>1, <2>1 DEF QuietInv
<1>3. CASE ~retired /\ retired'
  BY <1>1, <1>3, RetiringStep DEF QuietInv
<1>4. CASE ~retired /\ ~retired'
  <2>1. Turns /\ Ready
    BY <1>4 DEF QuietInv
  <2>2. Turns' /\ Ready'
    BY <1>4, <2>1, TurnsStep, ReadyStep
  <2> QED
    BY <1>1, <1>4, <2>2 DEF QuietInv
<1> QED
  BY <1>2, <1>3, <1>4

(***************************************************************************)

(* The gate of TerminalViews.swift, for every number of connections,       *)
(* chunks, layouts and sizes: no frame of a replay meets an open gate or   *)
(* another grid than its own, and no live output of a connection that is   *)
(* still read meets a closed one.                                          *)
(***************************************************************************)
THEOREM ReplayStaysQuiet == ClientSpec => []ReplayIsQuiet
<1>1. ClientInit => QuietInv /\ amiss = {}
  BY QuietInit DEF ClientInit
<1>2. TypeInv /\ QuietInv /\ amiss = {} /\ [ClientNext]_clientVars
          => (QuietInv /\ amiss = {})'
  BY QuietStep, AmissStep
<1>3. QuietInv /\ amiss = {} => ReplayIsQuiet
  BY DEF ReplayIsQuiet
<1> QED
  BY <1>1, <1>2, <1>3, ClientTypeInvariant, PTL DEF ClientSpec

-----------------------------------------------------------------------------
(* The order of chunks.  All chunks on their way to the core are in four   *)
(* sequences: fed, held back, queued, on the wire.                         *)

Nums(s) == Range(s) \ {0}
Below(A, B) == \A a \in A, b \in B : a < b

(* Four pieces of one rising sequence whose numbers are those of `all`.    *)
Ordered(f, c, b, w, all) ==
    /\ Rising(f) /\ Rising(c) /\ Rising(b) /\ Rising(w)
    /\ Below(Nums(f), Nums(c)) /\ Below(Nums(f), Nums(b)) /\ Below(Nums(f), Nums(w))
    /\ Below(Nums(c), Nums(b)) /\ Below(Nums(c), Nums(w)) /\ Below(Nums(b), Nums(w))
    /\ Nums(f) \cup Nums(c) \cup Nums(b) \cup Nums(w) = all

Arrived == 1 .. frames \ lost

InOrder ==
    Ordered(fed, Numbers(coalesced), Numbers(blocks), Numbers(onWire), Arrived)

(* A reader has its descriptor, and without one nothing is on the wire.    *)
Wired ==
    /\ reader = "reads" \/ opening = "opened" => fdOpen
    /\ reader # "reads" /\ opening # "opened" => ~peer /\ onWire = <<>>

OrderInv == ~retired => fed \in Seq(Nat) /\ Wired /\ InOrder

(* One number rises, *)
LEMMA OneRises ==
    ASSUME NEW n \in Nat
    PROVE  /\ Rising(<<n>>) /\ Nums(<<n>>) = {n} \ {0}
           /\ Rising(<<>>) /\ Nums(<<>>) = {}
<1>1. /\ <<n>>[1] = n /\ DOMAIN <<n>> = {1}
      /\ DOMAIN <<>> = {}
  OBVIOUS
<1>2. Range(<<n>>) = {n} /\ Range(<<>>) = {}
  BY <1>1 DEF Range
<1> QED
  BY <1>1, <1>2 DEF Rising, Nums

(* and two sequences do if the second begins above the first. *)
LEMMA ConcatRises ==
    ASSUME NEW s \in Seq(Nat), NEW t \in Seq(Nat)
    PROVE  /\ s \o t \in Seq(Nat)
           /\ Nums(s \o t) = Nums(s) \cup Nums(t)
           /\ Rising(s \o t) <=>
                  Rising(s) /\ Rising(t) /\ Below(Nums(s), Nums(t))
<1> DEFINE u == s \o t
<1>1. /\ u \in Seq(Nat) /\ Len(u) = Len(s) + Len(t)
      /\ Len(s) \in Nat /\ Len(t) \in Nat
      /\ DOMAIN s = 1 .. Len(s) /\ DOMAIN t = 1 .. Len(t)
      /\ DOMAIN u = 1 .. Len(s) + Len(t)
      /\ \A i \in 1 .. Len(s) + Len(t) :
             u[i] = IF i <= Len(s) THEN s[i] ELSE t[i - Len(s)]
  BY ConcatProperties
<1> HIDE DEF u
<1>2. ASSUME NEW i \in DOMAIN s PROVE i \in DOMAIN u /\ u[i] = s[i]
  BY <1>1
<1>3. ASSUME NEW i \in DOMAIN t
      PROVE  i + Len(s) \in DOMAIN u /\ u[i + Len(s)] = t[i]
  <2> DEFINE k == i + Len(s)
  <2>1. k \in 1 .. Len(s) + Len(t) /\ ~(k <= Len(s)) /\ k - Len(s) = i
    BY <1>1
  <2> HIDE DEF k
  <2>2. k \in DOMAIN u /\ u[k] = t[i]
    BY <1>1, <2>1
  <2> QED
    BY <2>2 DEF k
<1>4. ASSUME NEW i \in DOMAIN u
      PROVE  \/ i \in DOMAIN s /\ u[i] = s[i]
             \/ i - Len(s) \in DOMAIN t /\ i > Len(s) /\ u[i] = t[i - Len(s)]
  BY <1>1
<1>5. Range(u) = Range(s) \cup Range(t)
  <2>1. Range(u) \subseteq Range(s) \cup Range(t)
    BY <1>4 DEF Range
  <2>2. Range(s) \subseteq Range(u)
    BY <1>2 DEF Range
  <2>3. Range(t) \subseteq Range(u)
    BY <1>3 DEF Range
  <2> QED
    BY <2>1, <2>2, <2>3
<1>6. ASSUME Rising(u) PROVE Rising(s) /\ Rising(t) /\ Below(Nums(s), Nums(t))
  <2>1. Rising(s)
    BY <1>1, <1>2, <1>6 DEF Rising
  <2>2. Rising(t)
    <3> SUFFICES ASSUME NEW i \in DOMAIN t, NEW j \in DOMAIN t,
                        i < j, t[i] # 0, t[j] # 0
                 PROVE  t[i] < t[j]
      BY DEF Rising
    <3>1. i + Len(s) < j + Len(s)
      BY <1>1
    <3> QED
      BY <1>3, <1>6, <3>1 DEF Rising
  <2>3. ASSUME NEW a \in Nums(s), NEW b \in Nums(t) PROVE a < b
    <3>1. PICK i \in DOMAIN s : a = s[i]
      BY DEF Nums, Range
    <3>2. PICK j \in DOMAIN t : b = t[j]
      BY DEF Nums, Range
    <3>3. i < j + Len(s)
      BY <1>1
    <3>4. a # 0 /\ b # 0
      BY DEF Nums
    <3> QED
      BY <1>2, <1>3, <1>6, <3>1, <3>2, <3>3, <3>4 DEF Rising
  <2> QED
    BY <2>1, <2>2, <2>3 DEF Below
<1>7. ASSUME Rising(s), Rising(t), Below(Nums(s), Nums(t)) PROVE Rising(u)
  <2> SUFFICES ASSUME NEW i \in DOMAIN u, NEW j \in DOMAIN u,
                      i < j, u[i] # 0, u[j] # 0
               PROVE  u[i] < u[j]
    BY DEF Rising
  <2>1. CASE i \in DOMAIN s /\ j \in DOMAIN s
    BY <1>2, <1>7, <2>1 DEF Rising
  <2>2. CASE i \in DOMAIN s /\ j \notin DOMAIN s
    <3>1. u[i] = s[i] /\ j - Len(s) \in DOMAIN t /\ u[j] = t[j - Len(s)]
      BY <1>2, <1>4, <2>2
    <3>2. u[i] \in Nums(s) /\ u[j] \in Nums(t)
      BY <2>2, <3>1 DEF Nums, Range
    <3> QED
      BY <1>7, <3>2 DEF Below
  <2>3. CASE i \notin DOMAIN s
    <3>1. j \notin DOMAIN s
      BY <1>1, <2>3
    <3>2. /\ i - Len(s) \in DOMAIN t /\ u[i] = t[i - Len(s)]
          /\ j - Len(s) \in DOMAIN t /\ u[j] = t[j - Len(s)]
      BY <1>4, <2>3, <3>1
    <3>3. i - Len(s) < j - Len(s)
      BY <1>1
    <3> QED
      BY <1>7, <3>2, <3>3 DEF Rising
  <2> QED
    BY <2>1, <2>2, <2>3
<1>8. Rising(u) <=> Rising(s) /\ Rising(t) /\ Below(Nums(s), Nums(t))
  BY <1>6, <1>7
<1> QED
  BY <1>1, <1>5, <1>8 DEF u, Nums

(* The numbers of items. *)
LEMMA NumbersOf ==
    ASSUME NEW s \in Seq(Item), NEW t \in Seq(Item), NEW x \in Item
    PROVE  /\ Numbers(s) \in Seq(Nat) /\ x.n \in Nat
           /\ Numbers(<<>>) = <<>> /\ Numbers(<<x>>) = <<x.n>>
           /\ Numbers(s \o t) = Numbers(s) \o Numbers(t)
           /\ Numbers(Append(s, x)) = Numbers(s) \o <<x.n>>
<1>1. ASSUME NEW y \in Item PROVE y.n \in Nat
  BY DEF Item
<1>2. ASSUME NEW v \in Seq(Item)
      PROVE  /\ Numbers(v) \in Seq(Nat) /\ Len(Numbers(v)) = Len(v)
             /\ \A i \in 1 .. Len(v) : Numbers(v)[i] = v[i].n
  <2>1. Len(v) \in Nat /\ DOMAIN v = 1 .. Len(v)
    OBVIOUS
  <2>2. \A i \in 1 .. Len(v) : v[i].n \in Nat
    BY <1>1
  <2>3. Numbers(v) \in [1 .. Len(v) -> Nat]
    BY <2>1, <2>2 DEF Numbers
  <2>4. Numbers(v) \in Seq(Nat)
    <3>1. \A m \in Nat : [1 .. m -> Nat] \subseteq Seq(Nat)
      OBVIOUS
    <3> QED
      BY <2>1, <2>3, <3>1, Zenon
  <2>5. DOMAIN Numbers(v) = 1 .. Len(v)
    BY <2>3
  <2> QED
    BY <2>1, <2>4, <2>5 DEF Numbers
<1>3. <<>> \in Seq(Item) /\ <<x>> \in Seq(Item) /\ <<x.n>> \in Seq(Nat)
  BY <1>1, EmptySeq
<1>4. Numbers(<<>>) = <<>>
  BY <1>2, <1>3, EmptySeq
<1>5. Numbers(<<x>>) = <<x.n>>
  <2>1. Len(<<x>>) = 1 /\ <<x>>[1] = x /\ Len(<<x.n>>) = 1 /\ <<x.n>>[1] = x.n
    OBVIOUS
  <2>2. /\ Numbers(<<x>>) \in Seq(Nat) /\ Len(Numbers(<<x>>)) = 1
        /\ Numbers(<<x>>)[1] = x.n
    <3>1. ASSUME NEW v \in Seq(Item), Len(v) = 1, v[1] = x
          PROVE  /\ Numbers(v) \in Seq(Nat) /\ Len(Numbers(v)) = 1
                 /\ Numbers(v)[1] = x.n
      BY <1>2, <3>1
    <3> QED
      BY <1>3, <2>1, <3>1, Zenon
  <2>3. \A i \in 1 .. Len(Numbers(<<x>>)) : Numbers(<<x>>)[i] = <<x.n>>[i]
    BY <2>1, <2>2
  <2> QED
    BY <1>3, <2>1, <2>2, <2>3, SeqEqual
<1>6. ASSUME NEW v \in Seq(Item)
      PROVE  Numbers(s \o v) = Numbers(s) \o Numbers(v)
  <2> DEFINE a == s \o v
             p == Numbers(s)
             q == Numbers(v)
  <2>1. /\ a \in Seq(Item) /\ Len(a) = Len(s) + Len(v)
        /\ \A i \in 1 .. Len(s) + Len(v) :
               a[i] = IF i <= Len(s) THEN s[i] ELSE v[i - Len(s)]
        /\ Len(s) \in Nat /\ Len(v) \in Nat
    BY ConcatProperties
  <2>2. /\ p \in Seq(Nat) /\ q \in Seq(Nat) /\ Len(p) = Len(s) /\ Len(q) = Len(v)
        /\ \A i \in 1 .. Len(s) : p[i] = s[i].n
        /\ \A i \in 1 .. Len(v) : q[i] = v[i].n
    BY <1>2
  <2>3. /\ Numbers(a) \in Seq(Nat) /\ Len(Numbers(a)) = Len(s) + Len(v)
        /\ \A i \in 1 .. Len(s) + Len(v) : Numbers(a)[i] = a[i].n
    BY <1>2, <2>1
  <2>a. p \in Seq(Nat) /\ q \in Seq(Nat)
    BY <1>2
  <2> HIDE DEF a, p, q
  <2>b. /\ p \o q \in Seq(Nat) /\ Len(p \o q) = Len(p) + Len(q)
        /\ \A i \in 1 .. Len(p) + Len(q) :
               (p \o q)[i] = IF i <= Len(p) THEN p[i] ELSE q[i - Len(p)]
    BY <2>a, ConcatProperties
  <2>4. /\ p \o q \in Seq(Nat) /\ Len(p \o q) = Len(s) + Len(v)
        /\ \A i \in 1 .. Len(s) + Len(v) :
               (p \o q)[i] = IF i <= Len(s) THEN p[i] ELSE q[i - Len(s)]
    BY <2>2, <2>b
  <2>5. \A i \in 1 .. Len(s) + Len(v) : Numbers(a)[i] = (p \o q)[i]
    <3> TAKE i \in 1 .. Len(s) + Len(v)
    <3>1. CASE i <= Len(s)
      <4>1. i \in 1 .. Len(s)
        BY <2>1, <3>1
      <4> QED
        BY <2>1, <2>2, <2>3, <2>4, <3>1, <4>1
    <3>2. CASE ~(i <= Len(s))
      <4>1. i - Len(s) \in 1 .. Len(v)
        BY <2>1, <3>2
      <4> QED
        BY <2>1, <2>2, <2>3, <2>4, <3>2, <4>1
    <3> QED
      BY <3>1, <3>2
  <2>6. Numbers(a) = p \o q
    BY <2>3, <2>4, <2>5, SeqEqual
  <2> QED
    BY <2>6 DEF a, p, q
<1>7. Append(s, x) = s \o <<x>>
  BY AppendIsConcat
<1> QED
  BY <1>1, <1>2, <1>3, <1>4, <1>5, <1>6, <1>7

-----------------------------------------------------------------------------
(* Nothing but markers is queued behind the blocks. *)
LEMMA MarkersQueued ==
    ASSUME NEW f, NEW c, NEW b \in Seq(Nat), NEW w, NEW z \in Seq(Nat),
           NEW all, Ordered(f, c, b, w, all), Rising(z), Nums(z) = {}
    PROVE  Ordered(f, c, b \o z, w, all)
<1>1. /\ Nums(b \o z) = Nums(b) \cup Nums(z)
      /\ Rising(b) /\ Below(Nums(b), Nums(z)) => Rising(b \o z)
  BY ConcatRises
<1>2. Below(Nums(b), Nums(z))
  BY DEF Below
<1>3. Nums(b \o z) = Nums(b) /\ (Rising(b) => Rising(b \o z))
  BY <1>1, <1>2
<1> QED
  BY <1>3 DEF Ordered

(* The head is a marker, and what was held back may have been fed. *)
LEMMA MarkerTaken ==
    ASSUME NEW f \in Seq(Nat), NEW c \in Seq(Nat), NEW b \in Seq(Nat), NEW w,
           NEW all, Ordered(f, c, << 0 >> \o b, w, all)
    PROVE  Ordered(f, c, b, w, all) /\ Ordered(f \o c, <<>>, b, w, all)
<1>1. <<0>> \in Seq(Nat) /\ Nums(<<0>>) = {}
  BY OneRises
<1>2. Nums(<<0>> \o b) = Nums(b) /\ (Rising(<<0>> \o b) => Rising(b))
  <2>1. /\ Nums(<<0>> \o b) = Nums(<<0>>) \cup Nums(b)
        /\ Rising(<<0>> \o b) => Rising(b)
    BY <1>1, ConcatRises
  <2> QED
    BY <1>1, <2>1
<1>3. Ordered(f, c, b, w, all)
  BY <1>2 DEF Ordered
<1>4. /\ Nums(f \o c) = Nums(f) \cup Nums(c)
      /\ Rising(f) /\ Rising(c) /\ Below(Nums(f), Nums(c)) => Rising(f \o c)
  BY ConcatRises
<1>5. Rising(<<>>) /\ Nums(<<>>) = {}
  BY OneRises
<1> QED
  BY <1>3, <1>4, <1>5 DEF Ordered, Below

(* The head is a chunk: it is held back, or fed behind what was.  *)
LEMMA ChunkTaken ==
    ASSUME NEW f \in Seq(Nat), NEW c \in Seq(Nat), NEW b \in Seq(Nat), NEW w,
           NEW n \in Nat, NEW all, Ordered(f, c, <<n>> \o b, w, all)
    PROVE  /\ Ordered(f, c \o <<n>>, b, w, all)
           /\ Ordered(f \o (c \o <<n>>), <<>>, b, w, all)
<1> DEFINE d == c \o <<n>>
<1>1. <<n>> \in Seq(Nat) /\ Rising(<<n>>) /\ Nums(<<n>>) = {n} \ {0}
  BY OneRises
<1>2. /\ Nums(<<n>> \o b) = Nums(<<n>>) \cup Nums(b)
      /\ Rising(<<n>> \o b) =>
             Rising(<<n>>) /\ Rising(b) /\ Below(Nums(<<n>>), Nums(b))
  BY <1>1, ConcatRises
<1>3. /\ d \in Seq(Nat) /\ Nums(d) = Nums(c) \cup Nums(<<n>>)
      /\ Rising(c) /\ Below(Nums(c), Nums(<<n>>)) => Rising(d)
  BY <1>1, ConcatRises
<1> HIDE DEF d
<1>4. Ordered(f, d, b, w, all)
  BY <1>2, <1>3 DEF Ordered, Below
<1>5. /\ Nums(f \o d) = Nums(f) \cup Nums(d)
      /\ Rising(f) /\ Rising(d) /\ Below(Nums(f), Nums(d)) => Rising(f \o d)
  BY <1>3, ConcatRises
<1>6. Rising(<<>>) /\ Nums(<<>>) = {}
  BY OneRises
<1>7. Ordered(f \o d, <<>>, b, w, all)
  BY <1>4, <1>5, <1>6 DEF Ordered, Below
<1> QED
  BY <1>4, <1>7 DEF d

(* What is held back is fed. *)
LEMMA HeldFed ==
    ASSUME NEW f \in Seq(Nat), NEW c \in Seq(Nat), NEW b, NEW w, NEW all,
           Ordered(f, c, b, w, all)
    PROVE  Ordered(f \o c, <<>>, b, w, all)
<1>1. /\ Nums(f \o c) = Nums(f) \cup Nums(c)
      /\ Rising(f) /\ Rising(c) /\ Below(Nums(f), Nums(c)) => Rising(f \o c)
  BY ConcatRises
<1>2. Rising(<<>>) /\ Nums(<<>>) = {}
  BY OneRises
<1> QED
  BY <1>1, <1>2 DEF Ordered, Below

(* The reader takes a frame off the wire. *)
LEMMA FrameRead ==
    ASSUME NEW f, NEW c, NEW b \in Seq(Nat), NEW w \in Seq(Nat),
           NEW n \in Nat, NEW all, Ordered(f, c, b, <<n>> \o w, all)
    PROVE  Ordered(f, c, b \o <<n>>, w, all)
<1> DEFINE d == b \o <<n>>
<1>1. <<n>> \in Seq(Nat) /\ Rising(<<n>>) /\ Nums(<<n>>) = {n} \ {0}
  BY OneRises
<1>2. /\ Nums(<<n>> \o w) = Nums(<<n>>) \cup Nums(w)
      /\ Rising(<<n>> \o w) =>
             Rising(<<n>>) /\ Rising(w) /\ Below(Nums(<<n>>), Nums(w))
  BY <1>1, ConcatRises
<1>3. /\ Nums(d) = Nums(b) \cup Nums(<<n>>)
      /\ Rising(b) /\ Below(Nums(b), Nums(<<n>>)) => Rising(d)
  BY <1>1, ConcatRises
<1> HIDE DEF d
<1>4. Ordered(f, c, d, w, all)
  BY <1>2, <1>3 DEF Ordered, Below
<1> QED
  BY <1>4 DEF d

(* Frames are sent: markers, and a chunk whose number is new. *)
LEMMA FramesSent ==
    ASSUME NEW f, NEW c, NEW b, NEW w \in Seq(Nat), NEW z \in Seq(Nat),
           NEW all, NEW more, Ordered(f, c, b, w, all), Rising(z),
           more = all \cup Nums(z), Below(all, Nums(z))
    PROVE  Ordered(f, c, b, w \o z, more)
<1>1. /\ Nums(w \o z) = Nums(w) \cup Nums(z)
      /\ Rising(w) /\ Below(Nums(w), Nums(z)) => Rising(w \o z)
  BY ConcatRises
<1> QED
  BY <1>1 DEF Ordered, Below

(* A connection is lost with the end of its wire. *)
LEMMA EndOfFramesLost ==
    ASSUME NEW f, NEW c, NEW b, NEW w \in Seq(Nat), NEW z \in Seq(Nat),
           NEW all, Ordered(f, c, b, w \o z, all)
    PROVE  Ordered(f, c, b, w, all \ Nums(z))
<1>1. /\ Nums(w \o z) = Nums(w) \cup Nums(z)
      /\ Rising(w \o z) => Rising(w) /\ Below(Nums(w), Nums(z))
  BY ConcatRises
<1>2. \A a \in Nums(z) : ~(a < a)
  <2>1. Nums(z) \subseteq Nat
    BY DEF Nums, Range
  <2> QED
    BY <2>1
<1>3. Rising(w) /\ Below(Nums(w), Nums(z))
  BY <1>1 DEF Ordered
<1>4. ASSUME NEW a \in Nums(z)
      PROVE  a \notin Nums(f) /\ a \notin Nums(c) /\ a \notin Nums(b)
             /\ a \notin Nums(w)
  BY <1>1, <1>2, <1>3 DEF Ordered, Below
<1>5. all \ Nums(z) = Nums(f) \cup Nums(c) \cup Nums(b) \cup Nums(w)
  BY <1>1, <1>4 DEF Ordered
<1>6. /\ Below(Nums(f), Nums(w)) /\ Below(Nums(c), Nums(w))
      /\ Below(Nums(b), Nums(w))
  BY <1>1 DEF Ordered, Below
<1> QED
  BY <1>3, <1>5, <1>6 DEF Ordered

-----------------------------------------------------------------------------
(* Descriptor, reader and wire keep together. *)
LEMMA WiredStep ==
    ASSUME TypeInv, Turns, Wired, ~retired, ~retired', [ClientNext]_clientVars
    PROVE  Wired'
<1> USE DEF Wired, mainVars, fdVars, gridVars, coreVars, drainVars, streamVars,
            daemonVars
<1>1. ASSUME NEW g \in Grid, LayoutChanges(g) PROVE Wired'
  BY <1>1 DEF LayoutChanges, StartsSession, CanStart, Turns
<1>2. CASE LayoutAgain
  BY <1>2 DEF LayoutAgain, StartsSession, CanStart, Turns
<1>3. CASE RetryStarts
  BY <1>3 DEF RetryStarts, StartsSession, CanStart, Turns
<1>4. CASE OpenConnects
  BY <1>4 DEF OpenConnects
<1>5. CASE OpenFails
  BY <1>5 DEF OpenFails
<1>6. CASE OpenReturns
  BY <1>6 DEF OpenReturns, Turns
<1>7. CASE UserRetires
  BY <1>7 DEF UserRetires, Retires
<1>8. CASE MainHearsGone
  BY <1>8 DEF MainHearsGone
<1>9. CASE MainHearsExit
  BY <1>9 DEF MainHearsExit, Retires
<1>10. CASE ReaderDelivers
  BY <1>10 DEF ReaderDelivers
<1>11. CASE ReaderEnds
  BY <1>11 DEF ReaderEnds, Turns
<1>12. CASE UserTypes
  BY <1>12 DEF UserTypes
<1>13. CASE RunGate
  BY <1>13 DEF RunGate
<1>14. CASE RunLost
  BY <1>14 DEF RunLost
<1>15. CASE RunResize
  BY <1>15 DEF RunResize
<1>16. CASE ReceiveSize
  BY <1>16 DEF ReceiveSize
<1>17. CASE ReceiveSnapshot
  BY <1>17 DEF ReceiveSnapshot
<1>18. CASE ReceiveOutput
  BY <1>18 DEF ReceiveOutput
<1>19. CASE ReceiveAttached
  BY <1>19 DEF ReceiveAttached
<1>20. CASE ReceiveExited
  BY <1>20 DEF ReceiveExited
<1>21. CASE RunDrain
  BY <1>21 DEF RunDrain
<1>22. CASE HoldPasses
  BY <1>22 DEF HoldPasses
<1>23. CASE DrainReturns
  BY <1>23 DEF DrainReturns
<1>24. CASE DaemonOutputs
  BY <1>24 DEF DaemonOutputs
<1>25. CASE DaemonResizes
  BY <1>25 DEF DaemonResizes
<1>26. CASE ChildExits
  BY <1>26 DEF ChildExits
<1>27. CASE ConnBreaks
  BY <1>27 DEF ConnBreaks
<1>28. CASE LinkReturns
  BY <1>28 DEF LinkReturns
<1>29. CASE UNCHANGED clientVars
  BY <1>29 DEF clientVars
<1> QED
  BY <1>1, <1>2, <1>3, <1>4, <1>5, <1>6, <1>7, <1>8, <1>9, <1>10, <1>11, <1>12,
     <1>13, <1>14, <1>15, <1>16, <1>17, <1>18, <1>19, <1>20, <1>21, <1>22,
     <1>23, <1>24, <1>25, <1>26, <1>27, <1>28, <1>29
     DEF ClientNext, MainRuns, StreamRuns, ReaderRuns, ClientUser, ClientWorld

-----------------------------------------------------------------------------
(* The numbers of what is on its way, *)
LEMMA NumberTypes ==
    ASSUME Bounded
    PROVE  /\ Numbers(coalesced) \in Seq(Nat) /\ Numbers(blocks) \in Seq(Nat)
           /\ Numbers(onWire) \in Seq(Nat)
<1>1. /\ coalesced \in Seq(Item) /\ blocks \in Seq(Item) /\ onWire \in Seq(Item)
  BY QueuesAreItems
<1>2. ASSUME NEW s \in Seq(Item) PROVE Numbers(s) \in Seq(Nat)
  <2>1. Block("drain", NoGrid) \in Item
    BY DEF Block, Item, Kind, Bounded
  <2> QED
    BY <2>1, NumbersOf
<1> QED
  BY <1>1, <1>2

(* of the head and the rest, *)
LEMMA HeadNumber ==
    ASSUME NEW s \in Seq(Item), s # <<>>
    PROVE  /\ Head(s) \in Item /\ Tail(s) \in Seq(Item)
           /\ Head(s).n \in Nat /\ Numbers(Tail(s)) \in Seq(Nat)
           /\ Numbers(s) = <<Head(s).n>> \o Numbers(Tail(s))
<1>1. Head(s) \in Item /\ Tail(s) \in Seq(Item) /\ <<Head(s)>> \in Seq(Item)
  BY HeadTailProperties
<1>2. s = <<Head(s)>> \o Tail(s)
  BY HeadThenTail
<1>3. ASSUME NEW h \in Item, NEW t \in Seq(Item)
      PROVE  /\ Numbers(<<h>> \o t) = <<h.n>> \o Numbers(t)
             /\ Numbers(t) \in Seq(Nat) /\ h.n \in Nat
  <2>1. <<h>> \in Seq(Item)
    OBVIOUS
  <2>2. Numbers(<<h>> \o t) = Numbers(<<h>>) \o Numbers(t)
    BY <2>1, NumbersOf
  <2> QED
    BY <2>2, NumbersOf
<1> QED
  BY <1>1, <1>2, <1>3

(* of a block that is queued, *)
LEMMA BlockNumber ==
    ASSUME NEW s \in Seq(Item), NEW k \in Kind, NEW g \in Grid \cup {NoGrid},
           conn \in Nat
    PROVE  /\ Block(k, g) \in Item
           /\ Numbers(Append(s, Block(k, g))) = Numbers(s) \o <<0>>
           /\ Numbers(<<Block(k, g)>>) = <<0>>
<1>1. Block(k, g) \in Item /\ Block(k, g).n = 0
  BY DEF Block, Item
<1> QED
  BY <1>1, NumbersOf

(* and of what is lost with the end of the wire. *)
LEMMA LostNumbers ==
    ASSUME NEW w \in Seq(Item), NEW i \in 0 .. Len(w)
    PROVE  \E z \in Seq(Nat) :
               /\ Numbers(w) = Numbers(SubSeq(w, 1, i)) \o z
               /\ Numbers(SubSeq(w, 1, i)) \in Seq(Nat)
               /\ Nums(z) = {w[k].n : k \in i + 1 .. Len(w)} \ {0}
<1> DEFINE u == SubSeq(w, 1, i)
           v == SubSeq(w, i + 1, Len(w))
<1>1. /\ Len(w) \in Nat /\ i \in Nat /\ i <= Len(w) /\ DOMAIN w = 1 .. Len(w)
      /\ \A k \in 1 .. Len(w) : w[k] \in Item
  OBVIOUS
<1>2. /\ u \in Seq(Item) /\ Len(u) = i
      /\ \A k \in 1 .. i : u[k] = w[k]
  BY <1>1, SubSeqProperties
<1>3. /\ v \in Seq(Item) /\ Len(v) = Len(w) - i
      /\ \A k \in 1 .. Len(w) - i : v[k] = w[k + i]
  <2>1. /\ v \in Seq(Item)
        /\ Len(v) = IF i + 1 <= Len(w) THEN Len(w) - (i + 1) + 1 ELSE 0
        /\ \A k \in 1 .. Len(w) - (i + 1) + 1 : v[k] = w[(i + 1) + k - 1]
    BY <1>1, SubSeqProperties
  <2>2. \A k \in 1 .. Len(w) - i : (i + 1) + k - 1 = k + i
    BY <1>1
  <2> HIDE DEF v
  <2>3. Len(v) = Len(w) - i /\ Len(w) - (i + 1) + 1 = Len(w) - i
    <3>1. \A L, j \in Nat : j <= L =>
              /\ L - (j + 1) + 1 = L - j
              /\ (IF j + 1 <= L THEN L - (j + 1) + 1 ELSE 0) = L - j
      OBVIOUS
    <3>2. Len(w) \in Nat /\ i \in Nat /\ i <= Len(w)
      BY <1>1
    <3>3. Len(v) = IF i + 1 <= Len(w) THEN Len(w) - (i + 1) + 1 ELSE 0
      BY <2>1
    <3> QED
      BY <3>1, <3>2, <3>3, Zenon
  <2>4. \A k \in 1 .. Len(w) - i : v[k] = w[k + i]
    <3> TAKE k \in 1 .. Len(w) - i
    <3>1. v[k] = w[(i + 1) + k - 1]
      BY <2>1, <2>3
    <3> QED
      BY <2>2, <3>1
  <2> QED
    BY <2>1, <2>3, <2>4
<1>a. u \in Seq(Item) /\ v \in Seq(Item)
  BY <1>2, <1>3
<1> HIDE DEF u, v
<1>4. /\ u \o v \in Seq(Item) /\ Len(u \o v) = Len(w)
      /\ \A k \in 1 .. Len(w) : (u \o v)[k] = w[k]
  <2>1. /\ u \o v \in Seq(Item) /\ Len(u \o v) = Len(u) + Len(v)
        /\ \A k \in 1 .. Len(u) + Len(v) :
               (u \o v)[k] = IF k <= Len(u) THEN u[k] ELSE v[k - Len(u)]
    BY <1>a, ConcatProperties
  <2>2. Len(u) + Len(v) = Len(w)
    BY <1>1, <1>2, <1>3
  <2>3. ASSUME NEW k \in 1 .. Len(w) PROVE (u \o v)[k] = w[k]
    <3>1. CASE k <= i
      <4>1. k \in 1 .. Len(u) + Len(v) /\ k <= Len(u) /\ k \in 1 .. i
        BY <1>1, <1>2, <2>2, <3>1
      <4> QED
        BY <1>2, <2>1, <4>1, Zenon
    <3>2. CASE ~(k <= i)
      <4>1. k - i \in 1 .. Len(w) - i /\ k - i + i = k
        BY <1>1, <3>2
      <4>2. v[k - i] = w[k]
        BY <1>3, <4>1
      <4> QED
        BY <1>2, <2>1, <2>2, <3>2, <4>2
    <3> QED
      BY <3>1, <3>2
  <2> QED
    BY <2>1, <2>2, <2>3
<1>5. w = u \o v
  BY <1>4, SeqEqual
<1>6. /\ Numbers(u \o v) = Numbers(u) \o Numbers(v)
      /\ Numbers(u) \in Seq(Nat) /\ Numbers(v) \in Seq(Nat)
  <2>1. \A s, t \in Seq(Item), x \in Item :
            /\ Numbers(s \o t) = Numbers(s) \o Numbers(t)
            /\ Numbers(s) \in Seq(Nat)
    BY NumbersOf
  <2>3. [kind |-> "gate", grid |-> NoGrid, n |-> 0, conn |-> 0,
         replay |-> FALSE] \in Item
    BY DEF Item, Kind
  <2> QED
    BY <1>2, <1>3, <2>1, <2>3, Zenon
<1>7. Nums(Numbers(v)) = {w[k].n : k \in i + 1 .. Len(w)} \ {0}
  <2>1. Range(Numbers(v)) = {v[k].n : k \in 1 .. Len(w) - i}
    BY <1>1, <1>3 DEF Range, Numbers
  <2>2. {v[k].n : k \in 1 .. Len(w) - i} = {w[k].n : k \in i + 1 .. Len(w)}
    <3>1. ASSUME NEW k \in 1 .. Len(w) - i
          PROVE  k + i \in i + 1 .. Len(w) /\ v[k].n = w[k + i].n
      BY <1>1, <1>3
    <3>2. ASSUME NEW k \in i + 1 .. Len(w)
          PROVE  k - i \in 1 .. Len(w) - i /\ v[k - i].n = w[k].n
      <4>1. k - i \in 1 .. Len(w) - i /\ k - i + i = k
        BY <1>1
      <4> QED
        BY <1>3, <4>1
    <3>3. {v[k].n : k \in 1 .. Len(w) - i} \subseteq {w[k].n : k \in i + 1 .. Len(w)}
      BY <3>1
    <3>4. {w[k].n : k \in i + 1 .. Len(w)} \subseteq {v[k].n : k \in 1 .. Len(w) - i}
      BY <3>2
    <3> QED
      BY <3>3, <3>4
  <2> QED
    BY <2>1, <2>2 DEF Nums
<1> QED
  BY <1>5, <1>6, <1>7, Zenon DEF u

-----------------------------------------------------------------------------
(* The stream queue runs a marker. *)
LEMMA MarkerRuns ==
    ASSUME Bounded, fed \in Seq(Nat), InOrder, blocks # <<>>,
           Head(blocks).kind \notin {"SNAPSHOT", "OUTPUT"},
           blocks' = Tail(blocks),
           \/ UNCHANGED <<fed, coalesced>>
           \/ coalesced' = <<>> /\ fed' = fed \o Numbers(coalesced),
           UNCHANGED <<onWire, frames, lost>>
    PROVE  InOrder' /\ fed' \in Seq(Nat)
<1>1. /\ blocks \in Seq(Item) /\ Head(blocks).n = 0
      /\ Numbers(coalesced) \in Seq(Nat)
  <2>1. \A x \in Queued : x.kind \notin {"SNAPSHOT", "OUTPUT"} => x.n = 0
    BY DEF Queued, Items
  <2> QED
    BY <2>1, HeadOfQueue, QueuesAreItems, NumberTypes
<1>2. /\ Numbers(Tail(blocks)) \in Seq(Nat)
      /\ Numbers(blocks) = <<0>> \o Numbers(Tail(blocks))
  BY <1>1, HeadNumber
<1>3. /\ Ordered(fed, Numbers(coalesced), Numbers(Tail(blocks)),
                 Numbers(onWire), Arrived)
      /\ Ordered(fed \o Numbers(coalesced), <<>>, Numbers(Tail(blocks)),
                 Numbers(onWire), Arrived)
  BY <1>1, <1>2, MarkerTaken DEF InOrder
<1>4. Numbers(<<>>) = <<>>
  BY DEF Numbers
<1>5. /\ Numbers(onWire)' = Numbers(onWire) /\ Arrived' = Arrived
      /\ Numbers(blocks)' = Numbers(Tail(blocks))
  BY DEF Numbers, Arrived
<1>6. CASE UNCHANGED <<fed, coalesced>>
  <2>1. Numbers(coalesced)' = Numbers(coalesced) /\ fed' = fed
    BY <1>6 DEF Numbers
  <2> QED
    BY <1>3, <1>5, <2>1, Zenon DEF InOrder
<1>7. CASE coalesced' = <<>> /\ fed' = fed \o Numbers(coalesced)
  <2>1. Numbers(coalesced)' = <<>>
    BY <1>4, <1>7 DEF Numbers
  <2>2. fed' \in Seq(Nat)
    BY <1>1, <1>7, ConcatRises
  <2> QED
    BY <1>3, <1>5, <1>7, <2>1, <2>2, Zenon DEF InOrder
<1> QED
  BY <1>6, <1>7

(* Nothing moves. *)
LEMMA NothingMoves ==
    ASSUME fed \in Seq(Nat), InOrder,
           UNCHANGED <<fed, coalesced, blocks, onWire, frames, lost>>
    PROVE  InOrder' /\ fed' \in Seq(Nat)
BY DEF InOrder, Arrived, Numbers

(* Blocks are queued. *)
LEMMA BlocksQueued ==
    ASSUME Bounded, fed \in Seq(Nat), InOrder, NEW z \in Seq(Nat),
           Rising(z), Nums(z) = {},
           Numbers(blocks)' = Numbers(blocks) \o z,
           UNCHANGED <<fed, coalesced, onWire, frames, lost>>
    PROVE  InOrder' /\ fed' \in Seq(Nat)
<1>1. /\ Numbers(coalesced)' = Numbers(coalesced)
      /\ Numbers(onWire)' = Numbers(onWire) /\ Arrived' = Arrived
  BY DEF Numbers, Arrived
<1>2. Numbers(blocks) \in Seq(Nat)
  BY NumberTypes
<1>3. Ordered(fed, Numbers(coalesced), Numbers(blocks) \o z, Numbers(onWire),
              Arrived)
  BY <1>2, MarkersQueued DEF InOrder
<1> QED
  BY <1>1, <1>3, Zenon DEF InOrder

(* The numbers of what a start and a layout queue. *)
LEMMA StartNumbers ==
    ASSUME Bounded, NEW g \in Grid
    PROVE  \E z \in Seq(Nat) :
               /\ Rising(z) /\ Nums(z) = {}
               /\ Rising(z \o <<0>>) /\ Nums(z \o <<0>>) = {}
               /\ z \o <<0>> \in Seq(Nat)
               /\ Numbers(blocks \o GateBlocks(g)) = Numbers(blocks) \o z
               /\ Numbers(blocks \o GateBlocks(g) \o <<Block("resize", g)>>)
                      = Numbers(blocks) \o (z \o <<0>>)
<1>0. ASSUME NEW p \in Seq(Nat), NEW q \in Seq(Nat), NEW r \in Seq(Nat)
      PROVE  (p \o q) \o r = p \o (q \o r)
  BY ConcatAssociative, SMTT(30)
<1>1. blocks \in Seq(Item) /\ conn \in Nat /\ Numbers(blocks) \in Seq(Nat)
  BY QueuesAreItems, NumberTypes DEF Bounded
<1>2. /\ Block("gate", g) \in Item /\ Numbers(<<Block("gate", g)>>) = <<0>>
      /\ Block("resize", g) \in Item /\ Numbers(<<Block("resize", g)>>) = <<0>>
  BY <1>1, BlockNumber DEF Kind
<1>3. PICK z \in {<<>>, <<0>>} :
          Numbers(GateBlocks(g)) = z /\ GateBlocks(g) \in Seq(Item)
  <2>1. <<>> \in Seq(Item) /\ <<Block("gate", g)>> \in Seq(Item)
    BY <1>2, EmptySeq
  <2>2. Numbers(<<>>) = <<>>
    BY DEF Numbers
  <2> QED
    BY <1>2, <2>1, <2>2 DEF GateBlocks
<1>4. /\ z \in Seq(Nat) /\ <<0>> \in Seq(Nat)
      /\ Rising(z) /\ Nums(z) = {} /\ Rising(<<0>>) /\ Nums(<<0>>) = {}
  <2>1. /\ Rising(<<0>>) /\ Nums(<<0>>) = {}
        /\ Rising(<<>>) /\ Nums(<<>>) = {}
    BY OneRises
  <2>2. <<>> \in Seq(Nat) /\ <<0>> \in Seq(Nat)
    BY EmptySeq
  <2> QED
    BY <2>1, <2>2
<1>5. /\ z \o <<0>> \in Seq(Nat) /\ Rising(z \o <<0>>) /\ Nums(z \o <<0>>) = {}
  <2>1. Below(Nums(z), Nums(<<0>>))
    BY <1>4 DEF Below
  <2> QED
    BY <1>4, <2>1, ConcatRises
<1>6. \A s, t \in Seq(Item) : Numbers(s \o t) = Numbers(s) \o Numbers(t)
  BY <1>2, NumbersOf
<1>7. Numbers(blocks \o GateBlocks(g)) = Numbers(blocks) \o z
  BY <1>1, <1>3, <1>6
<1>8. Numbers(blocks \o GateBlocks(g) \o <<Block("resize", g)>>)
          = (Numbers(blocks) \o z) \o <<0>>
  <2>1. /\ blocks \o GateBlocks(g) \in Seq(Item)
        /\ <<Block("resize", g)>> \in Seq(Item)
    BY <1>1, <1>2, <1>3, ConcatProperties
  <2>2. Numbers(blocks \o GateBlocks(g) \o <<Block("resize", g)>>)
          = Numbers(blocks \o GateBlocks(g)) \o Numbers(<<Block("resize", g)>>)
    BY <1>6, <2>1, Zenon
  <2> QED
    BY <1>2, <1>7, <2>2
<1>9. (Numbers(blocks) \o z) \o <<0>> = Numbers(blocks) \o (z \o <<0>>)
  <2>1. Numbers(blocks) \in Seq(Nat) /\ z \in Seq(Nat) /\ <<0>> \in Seq(Nat)
    BY <1>1, <1>4
  <2> QED
    BY <1>0, <2>1
<1> QED
  BY <1>4, <1>5, <1>7, <1>8, <1>9

(* The daemon sends markers, or a chunk that is new. *)
LEMMA FramesAreSent ==
    ASSUME Bounded, fed \in Seq(Nat), InOrder, NEW z \in Seq(Nat),
           Rising(z), lost \subseteq 1 .. frames,
           \/ Nums(z) = {} /\ frames' = frames
           \/ Nums(z) = {frames + 1} /\ frames' = frames + 1,
           Numbers(onWire)' = Numbers(onWire) \o z,
           UNCHANGED <<fed, coalesced, blocks, lost>>
    PROVE  InOrder' /\ fed' \in Seq(Nat)
<1>1. /\ Numbers(coalesced)' = Numbers(coalesced)
      /\ Numbers(blocks)' = Numbers(blocks)
  BY DEF Numbers
<1>2. Numbers(onWire) \in Seq(Nat) /\ frames \in Nat
  BY NumberTypes DEF Bounded
<1>3. Arrived' = Arrived \cup Nums(z) /\ Below(Arrived, Nums(z))
  <2>1. CASE Nums(z) = {} /\ frames' = frames
    BY <2>1 DEF Arrived, Below
  <2>2. CASE Nums(z) = {frames + 1} /\ frames' = frames + 1
    <3>1. /\ frames + 1 \notin lost
          /\ 1 .. frames + 1 = (1 .. frames) \cup {frames + 1}
      BY <1>2
    <3>2. Arrived' = 1 .. frames + 1 \ lost
      BY <2>2 DEF Arrived
    <3> QED
      BY <1>2, <2>2, <3>1, <3>2 DEF Arrived, Below
  <2> QED
    BY <2>1, <2>2
<1>4. Ordered(fed, Numbers(coalesced), Numbers(blocks), Numbers(onWire) \o z,
              Arrived')
  BY <1>2, <1>3, FramesSent DEF InOrder
<1> QED
  BY <1>1, <1>4, Zenon DEF InOrder

(* The stream queue takes a chunk: a replay's is fed behind what was held  *)
(* back, *)
LEMMA SnapshotRuns ==
    ASSUME Bounded, fed \in Seq(Nat), InOrder, HeadIs("SNAPSHOT"),
           blocks' = Tail(blocks), coalesced' = <<>>,
           fed' = fed \o Numbers(Append(coalesced, Head(blocks))),
           UNCHANGED <<onWire, frames, lost>>
    PROVE  InOrder' /\ fed' \in Seq(Nat)
<1>1. /\ blocks \in Seq(Item) /\ coalesced \in Seq(Item) /\ blocks # <<>>
      /\ Numbers(coalesced) \in Seq(Nat)
  BY QueuesAreItems, NumberTypes DEF HeadIs
<1> DEFINE n == Head(blocks).n
           c == Numbers(coalesced)
<1>2. /\ n \in Nat /\ Numbers(Tail(blocks)) \in Seq(Nat)
      /\ Head(blocks) \in Item
      /\ Numbers(blocks) = <<n>> \o Numbers(Tail(blocks))
  BY <1>1, HeadNumber
<1>3. Numbers(Append(coalesced, Head(blocks))) = c \o <<n>>
  BY <1>1, <1>2, NumbersOf
<1>4. Ordered(fed \o (c \o <<n>>), <<>>, Numbers(Tail(blocks)),
              Numbers(onWire), Arrived)
  BY <1>1, <1>2, ChunkTaken DEF InOrder
<1>5. /\ Numbers(onWire)' = Numbers(onWire) /\ Arrived' = Arrived
      /\ Numbers(blocks)' = Numbers(Tail(blocks))
      /\ Numbers(coalesced)' = <<>>
  BY DEF Numbers, Arrived
<1>6. fed' = fed \o (c \o <<n>>)
  BY <1>3
<1>7. fed' \in Seq(Nat)
  <2>1. <<n>> \in Seq(Nat)
    BY <1>2, OneRises
  <2>2. c \o <<n>> \in Seq(Nat)
    BY <1>1, <2>1, ConcatRises
  <2> QED
    BY <1>6, <2>2, ConcatRises
<1> QED
  BY <1>4, <1>5, <1>6, <1>7, Zenon DEF InOrder

(* and live output is held back, with a block behind it that drains it. *)
LEMMA OutputRuns ==
    ASSUME Bounded, fed \in Seq(Nat), InOrder, HeadIs("OUTPUT"),
           coalesced' = Append(coalesced, Head(blocks)),
           \/ blocks' = Tail(blocks)
           \/ blocks' = Append(Tail(blocks), Block("drain", NoGrid)),
           UNCHANGED <<fed, onWire, frames, lost>>
    PROVE  InOrder' /\ fed' \in Seq(Nat)
<1>1. /\ blocks \in Seq(Item) /\ coalesced \in Seq(Item) /\ blocks # <<>>
      /\ Numbers(coalesced) \in Seq(Nat) /\ conn \in Nat
  BY QueuesAreItems, NumberTypes DEF HeadIs, Bounded
<1> DEFINE n == Head(blocks).n
           c == Numbers(coalesced)
           t == Numbers(Tail(blocks))
<1>2. /\ n \in Nat /\ t \in Seq(Nat) /\ Tail(blocks) \in Seq(Item)
      /\ Head(blocks) \in Item
      /\ Numbers(blocks) = <<n>> \o t
  BY <1>1, HeadNumber
<1>3. Numbers(Append(coalesced, Head(blocks))) = c \o <<n>>
  BY <1>1, <1>2, NumbersOf
<1>4. Ordered(fed, c \o <<n>>, t, Numbers(onWire), Arrived)
  BY <1>1, <1>2, ChunkTaken DEF InOrder
<1>5. Ordered(fed, c \o <<n>>, t \o <<0>>, Numbers(onWire), Arrived)
  <2>1. <<0>> \in Seq(Nat) /\ Rising(<<0>>) /\ Nums(<<0>>) = {}
    BY OneRises
  <2> QED
    BY <1>2, <1>4, <2>1, MarkersQueued
<1>6. /\ Numbers(onWire)' = Numbers(onWire) /\ Arrived' = Arrived
      /\ Numbers(coalesced)' = c \o <<n>> /\ fed' = fed
  BY <1>3 DEF Numbers, Arrived
<1>7. Numbers(blocks)' = t \/ Numbers(blocks)' = t \o <<0>>
  <2>1. Numbers(Append(Tail(blocks), Block("drain", NoGrid))) = t \o <<0>>
    BY <1>1, <1>2, BlockNumber DEF Kind
  <2> QED
    BY <2>1 DEF Numbers
<1> QED
  BY <1>4, <1>5, <1>6, <1>7, Zenon DEF InOrder

(* The reader queues the frame it takes off the wire. *)
LEMMA FrameArrives ==
    ASSUME Bounded, fed \in Seq(Nat), InOrder, onWire # <<>>,
           blocks' = Append(blocks, Head(onWire)), onWire' = Tail(onWire),
           UNCHANGED <<fed, coalesced, frames, lost>>
    PROVE  InOrder' /\ fed' \in Seq(Nat)
<1>1. /\ blocks \in Seq(Item) /\ onWire \in Seq(Item)
      /\ Numbers(blocks) \in Seq(Nat)
  BY QueuesAreItems, NumberTypes
<1> DEFINE n == Head(onWire).n
           t == Numbers(Tail(onWire))
<1>2. /\ n \in Nat /\ t \in Seq(Nat) /\ Head(onWire) \in Item
      /\ Numbers(onWire) = <<n>> \o t
  BY <1>1, HeadNumber
<1>3. Ordered(fed, Numbers(coalesced), Numbers(blocks) \o <<n>>, t, Arrived)
  BY <1>1, <1>2, FrameRead DEF InOrder
<1>4. Numbers(Append(blocks, Head(onWire))) = Numbers(blocks) \o <<n>>
  BY <1>1, <1>2, NumbersOf
<1>5. /\ Numbers(coalesced)' = Numbers(coalesced) /\ Arrived' = Arrived
      /\ Numbers(onWire)' = t /\ fed' = fed
  BY DEF Numbers, Arrived
<1>6. Numbers(blocks)' = Numbers(blocks) \o <<n>>
  BY <1>4 DEF Numbers
<1> QED
  BY <1>3, <1>5, <1>6, Zenon DEF InOrder

(* The connection is lost, with the end of the wire. *)
LEMMA WireCut ==
    ASSUME Bounded, fed \in Seq(Nat), InOrder, NEW i \in 0 .. Len(onWire),
           onWire' = SubSeq(onWire, 1, i),
           lost' = lost \cup ({onWire[k].n : k \in i + 1 .. Len(onWire)} \ {0}),
           UNCHANGED <<fed, coalesced, blocks, frames>>
    PROVE  InOrder' /\ fed' \in Seq(Nat)
<1>1. onWire \in Seq(Item)
  BY QueuesAreItems
<1> DEFINE u == Numbers(SubSeq(onWire, 1, i))
<1>2. PICK z \in Seq(Nat) :
          /\ Numbers(onWire) = u \o z /\ u \in Seq(Nat)
          /\ Nums(z) = {onWire[k].n : k \in i + 1 .. Len(onWire)} \ {0}
  BY <1>1, LostNumbers
<1>3. Ordered(fed, Numbers(coalesced), Numbers(blocks), u, Arrived \ Nums(z))
  BY <1>2, EndOfFramesLost DEF InOrder
<1>4. Arrived' = Arrived \ Nums(z)
  BY <1>2 DEF Arrived
<1>5. /\ Numbers(coalesced)' = Numbers(coalesced)
      /\ Numbers(blocks)' = Numbers(blocks)
      /\ Numbers(onWire)' = u /\ fed' = fed
  BY DEF Numbers
<1> QED
  BY <1>3, <1>4, <1>5, Zenon DEF InOrder

(* An attach sends one chunk between two markers. *)
LEMMA AttachNumbers ==
    ASSUME conn \in Nat, NEW n \in Nat \ {0}, NEW g \in Grid
    PROVE  \E z \in Seq(Nat) :
               /\ Rising(z) /\ Nums(z) = {n}
               /\ Numbers(<<SizeOf(g, TRUE, conn + 1),
                            Chunk("SNAPSHOT", n, conn + 1),
                            Marker("ATTACHED", conn + 1)>>) = z
<1> DEFINE s == <<SizeOf(g, TRUE, conn + 1), Chunk("SNAPSHOT", n, conn + 1),
                  Marker("ATTACHED", conn + 1)>>
           z == <<0, n, 0>>
<1>1. z \in Seq(Nat) /\ DOMAIN z = 1 .. 3 /\ z[1] = 0 /\ z[2] = n /\ z[3] = 0
  OBVIOUS
<1>2. DOMAIN s = 1 .. 3 /\ s[1].n = 0 /\ s[2].n = n /\ s[3].n = 0
  BY DEF SizeOf, Chunk, Marker
<1> HIDE DEF s, z
<1>3. Numbers(s) = z
  <2>1. Len(z) = 3
    BY <1>1
  <2>2. /\ DOMAIN Numbers(s) = 1 .. 3
        /\ Numbers(s) = [j \in 1 .. 3 |-> s[j].n]
    BY <1>2 DEF Numbers
  <2>3. \A j \in 1 .. 3 : s[j].n = z[j]
    BY <1>1, <1>2
  <2>4. z = [j \in 1 .. 3 |-> z[j]]
    BY <1>1
  <2> QED
    BY <2>2, <2>3, <2>4
<1>4. Rising(z) /\ Nums(z) = {n}
  BY <1>1 DEF Rising, Nums, Range
<1> QED
  BY <1>1, <1>3, <1>4 DEF s

-----------------------------------------------------------------------------
(* Every step keeps the order. *)
LEMMA InOrderStep ==
    ASSUME TypeInv, Turns, Wired, fed \in Seq(Nat), InOrder,
           ~retired, ~retired', [ClientNext]_clientVars
    PROVE  InOrder' /\ fed' \in Seq(Nat)
<1> DEFINE Kept == InOrder' /\ fed' \in Seq(Nat)
<1> USE DEF mainVars, fdVars, gridVars, coreVars, drainVars, streamVars,
            daemonVars
<1>0. /\ Bounded /\ Sizes /\ lost \subseteq 1 .. frames
      /\ fed \in Seq(Nat) /\ InOrder
      /\ onWire \in Seq(Item) /\ blocks \in Seq(Item) /\ ~retired /\ ~retired'
      /\ Turns /\ Wired
  BY QueuesAreItems DEF TypeInv, Counters
<1>30. <<0>> \in Seq(Nat) /\ Rising(<<0>>) /\ Nums(<<0>>) = {}
  BY OneRises
<1>31. ASSUME NEW c \in Nat, NEW n \in Nat
      PROVE  /\ Chunk("OUTPUT", n, c) \in Item /\ Chunk("OUTPUT", n, c).n = n
             /\ Marker("EXITED", c) \in Item /\ Marker("EXITED", c).n = 0
  BY DEF Chunk, Marker, Item, Kind
<1>1. ASSUME NEW g \in Grid, LayoutChanges(g) PROVE Kept
  <2>1. PICK z \in Seq(Nat) :
            /\ z \o <<0>> \in Seq(Nat)
            /\ Rising(z \o <<0>>) /\ Nums(z \o <<0>>) = {}
            /\ Numbers(blocks \o GateBlocks(g) \o <<Block("resize", g)>>)
                   = Numbers(blocks) \o (z \o <<0>>)
    BY <1>0, StartNumbers
  <2>2. Numbers(blocks)' = Numbers(blocks) \o (z \o <<0>>)
    BY <1>1, <2>1 DEF LayoutChanges, Numbers
  <2> QED
    BY <1>1, <1>0, <2>1, <2>2, BlocksQueued DEF LayoutChanges
<1>2. CASE LayoutAgain
  <2>1. layoutGrid \in Grid
    BY <1>2, <1>0 DEF LayoutAgain, Sizes
  <2>2. PICK z \in Seq(Nat) :
            /\ z \o <<0>> \in Seq(Nat)
            /\ Rising(z \o <<0>>) /\ Nums(z \o <<0>>) = {}
            /\ Numbers(blocks \o GateBlocks(layoutGrid)
                          \o <<Block("resize", layoutGrid)>>)
                   = Numbers(blocks) \o (z \o <<0>>)
    BY <1>0, <2>1, StartNumbers
  <2>3. Numbers(blocks)' = Numbers(blocks) \o (z \o <<0>>)
    BY <1>2, <2>2 DEF LayoutAgain, Numbers
  <2> QED
    BY <1>2, <1>0, <2>2, <2>3, BlocksQueued DEF LayoutAgain
<1>3. CASE RetryStarts
  <2>1. layoutGrid \in Grid
    BY <1>3, <1>0 DEF RetryStarts, Sizes, LaidOut
  <2>2. PICK z \in Seq(Nat) :
            /\ Rising(z) /\ Nums(z) = {}
            /\ Numbers(blocks \o GateBlocks(layoutGrid)) = Numbers(blocks) \o z
    BY <1>0, <2>1, StartNumbers
  <2>3. Numbers(blocks)' = Numbers(blocks) \o z
    BY <1>3, <2>2 DEF RetryStarts, Numbers
  <2> QED
    BY <1>3, <1>0, <2>2, <2>3, BlocksQueued DEF RetryStarts
<1>4. CASE OpenConnects
  <2>1. onWire = <<>>
    BY <1>4, <1>0 DEF OpenConnects, Turns, Wired
  <2>2. PICK z \in Seq(Nat) :
            /\ Rising(z) /\ Nums(z) = {frames + 1}
            /\ Numbers(<<SizeOf(ptyGrid, TRUE, conn + 1),
                         Chunk("SNAPSHOT", frames + 1, conn + 1),
                         Marker("ATTACHED", conn + 1)>>) = z
    <3>1. conn \in Nat /\ frames + 1 \in Nat \ {0} /\ ptyGrid \in Grid
      BY <1>0 DEF Bounded, Sizes
    <3> QED
      BY <3>1, AttachNumbers
  <2>3. Numbers(onWire)' = Numbers(onWire) \o z
    <3>1. Numbers(onWire) = <<>> /\ <<>> \o z = z
      BY <2>1, ConcatEmptySeq DEF Numbers
    <3> QED
      BY <1>4, <2>2, <3>1 DEF OpenConnects, Numbers
  <2> QED
    BY <1>4, <1>0, <2>2, <2>3, FramesAreSent DEF OpenConnects
<1>5. CASE OpenFails
  BY <1>5, <1>0, NothingMoves DEF OpenFails
<1>6. CASE OpenReturns
  BY <1>6, <1>0, NothingMoves DEF OpenReturns
<1>7. CASE UserRetires
  BY <1>7, <1>0, NothingMoves DEF UserRetires, Retires
<1>8. CASE MainHearsGone
  <2>1. Numbers(Append(blocks, Block("lost", NoGrid))) = Numbers(blocks) \o <<0>>
    BY <1>0, BlockNumber DEF Bounded, Kind
  <2>2. Numbers(blocks)' = Numbers(blocks) \o <<0>>
    BY <1>8, <2>1 DEF MainHearsGone, Numbers
  <2> QED
    BY <1>8, <1>0, <1>30, <2>2, BlocksQueued DEF MainHearsGone
<1>9. CASE MainHearsExit
  BY <1>9, <1>0, NothingMoves DEF MainHearsExit, Retires
<1>10. CASE ReaderDelivers
  BY <1>10, <1>0, FrameArrives DEF ReaderDelivers
<1>11. CASE ReaderEnds
  BY <1>11, <1>0, NothingMoves DEF ReaderEnds
<1>12. CASE UserTypes
  BY <1>12, <1>0, NothingMoves DEF UserTypes
<1>13. CASE RunGate
  BY <1>13, <1>0, MarkerRuns DEF RunGate, HeadIs, Flushed, Given, GivenTo
<1>14. CASE RunLost
  BY <1>14, <1>0, MarkerRuns DEF RunLost, HeadIs, Flushed, Given, GivenTo
<1>15. CASE RunResize
  BY <1>15, <1>0, MarkerRuns DEF RunResize, HeadIs, Flushed, Given, GivenTo
<1>16. CASE ReceiveSize
  BY <1>16, <1>0, MarkerRuns DEF ReceiveSize, HeadIs, Flushed, Given, GivenTo
<1>17. CASE ReceiveSnapshot
  BY <1>17, <1>0, SnapshotRuns DEF ReceiveSnapshot, Flushed, Given, GivenTo
<1>18. CASE ReceiveOutput
  BY <1>18, <1>0, OutputRuns DEF ReceiveOutput
<1>19. CASE ReceiveAttached
  BY <1>19, <1>0, MarkerRuns DEF ReceiveAttached, HeadIs, Flushed, Given, GivenTo
<1>20. CASE ReceiveExited
  BY <1>20, <1>0, MarkerRuns DEF ReceiveExited, HeadIs, Flushed, Given, GivenTo
<1>21. CASE RunDrain
  <2>1. \/ UNCHANGED <<fed, coalesced>>
        \/ coalesced' = <<>> /\ fed' = fed \o Numbers(coalesced)
    <3>1. CASE hold
      BY <1>21, <3>1, Zenon DEF RunDrain
    <3>2. CASE ~hold
      BY <1>21, <3>2, Zenon DEF RunDrain, Given, GivenTo
    <3> QED
      BY <3>1, <3>2
  <2> QED
    BY <1>21, <1>0, <2>1, MarkerRuns DEF RunDrain, HeadIs
<1>22. CASE HoldPasses
  BY <1>22, <1>0, NothingMoves DEF HoldPasses
<1>23. CASE DrainReturns
  <2>1. Numbers(Append(blocks, Block("drain", NoGrid))) = Numbers(blocks) \o <<0>>
    BY <1>0, BlockNumber DEF Bounded, Kind
  <2>2. Numbers(blocks)' = Numbers(blocks) \o <<0>>
    BY <1>23, <2>1 DEF DrainReturns, Numbers
  <2> QED
    BY <1>23, <1>0, <1>30, <2>2, BlocksQueued DEF DrainReturns
<1>24. CASE DaemonOutputs
  <2> DEFINE z == <<frames + 1>>
  <2>1. z \in Seq(Nat) /\ Rising(z) /\ Nums(z) = {frames + 1}
    BY <1>0, OneRises DEF Bounded
  <2>2. /\ Chunk("OUTPUT", frames + 1, conn) \in Item
        /\ Chunk("OUTPUT", frames + 1, conn).n = frames + 1
    BY <1>0, <1>31 DEF Bounded
  <2>3. Numbers(Append(onWire, Chunk("OUTPUT", frames + 1, conn)))
            = Numbers(onWire) \o z
    BY <1>0, <2>2, NumbersOf
  <2>4. Numbers(onWire)' = Numbers(onWire) \o z
    BY <1>24, <2>3 DEF DaemonOutputs, Numbers
  <2> QED
    BY <1>24, <1>0, <2>1, <2>4, FramesAreSent DEF DaemonOutputs
<1>25. CASE DaemonResizes
  <2>1. Head(asked) \in Grid
    BY <1>25, <1>0 DEF DaemonResizes, Sizes
  <2>2. Numbers(Append(onWire, SizeOf(Head(asked), FALSE, conn)))
            = Numbers(onWire) \o <<0>>
    <3>1. /\ SizeOf(Head(asked), FALSE, conn) \in Item
          /\ SizeOf(Head(asked), FALSE, conn).n = 0
      BY <1>0, <2>1 DEF SizeOf, Item, Kind, Bounded
    <3> QED
      BY <1>0, <3>1, NumbersOf
  <2>3. onWire' = onWire \/ Numbers(onWire)' = Numbers(onWire) \o <<0>>
    BY <1>25, <2>2 DEF DaemonResizes, Numbers
  <2>4. UNCHANGED <<fed, coalesced, blocks, frames, lost>>
    BY <1>25 DEF DaemonResizes
  <2> QED
    BY <1>0, <1>30, <2>3, <2>4, FramesAreSent, NothingMoves
<1>26. CASE ChildExits
  <2>1. Numbers(Append(onWire, Marker("EXITED", conn))) = Numbers(onWire) \o <<0>>
    <3>1. Marker("EXITED", conn) \in Item /\ Marker("EXITED", conn).n = 0
      BY <1>0, <1>31 DEF Bounded
    <3> QED
      BY <1>0, <3>1, NumbersOf
  <2>2. onWire' = onWire \/ Numbers(onWire)' = Numbers(onWire) \o <<0>>
    BY <1>26, <2>1 DEF ChildExits, Numbers
  <2>3. UNCHANGED <<fed, coalesced, blocks, frames, lost>>
    BY <1>26 DEF ChildExits
  <2> QED
    BY <1>0, <1>30, <2>2, <2>3, FramesAreSent, NothingMoves
<1>27. CASE ConnBreaks
  <2>1. PICK i \in 0 .. Len(onWire) :
            /\ onWire' = SubSeq(onWire, 1, i)
            /\ lost' = lost \cup
                   ({onWire[k].n : k \in i + 1 .. Len(onWire)} \ {0})
    BY <1>27 DEF ConnBreaks
  <2> QED
    BY <1>27, <1>0, <2>1, WireCut DEF ConnBreaks
<1>28. CASE LinkReturns
  BY <1>28, <1>0, NothingMoves DEF LinkReturns
<1>29. CASE UNCHANGED clientVars
  BY <1>29, <1>0, NothingMoves DEF clientVars
<1> QED
  BY <1>1, <1>2, <1>3, <1>4, <1>5, <1>6, <1>7, <1>8, <1>9, <1>10, <1>11, <1>12,
     <1>13, <1>14, <1>15, <1>16, <1>17, <1>18, <1>19, <1>20, <1>21, <1>22,
     <1>23, <1>24, <1>25, <1>26, <1>27, <1>28, <1>29
     DEF ClientNext, MainRuns, StreamRuns, ReaderRuns, ClientUser, ClientWorld

(* In the beginning nothing was sent. *)
LEMMA OrderInit == ClientInit => OrderInv
<1> SUFFICES ASSUME ClientInit PROVE OrderInv
  OBVIOUS
<1>1. /\ fed = <<>> /\ coalesced = <<>> /\ blocks = <<>> /\ onWire = <<>>
      /\ frames = 0 /\ lost = {} /\ reader = "off" /\ opening = "no"
      /\ peer = FALSE
  BY DEF ClientInit
<1>2. Wired
  BY <1>1 DEF Wired
<1>3. Numbers(<<>>) = <<>>
  BY DEF Numbers
<1>6. Rising(<<>>) /\ Nums(<<>>) = {}
  <2>1. 0 \in Nat
    OBVIOUS
  <2> QED
    BY <2>1, OneRises
<1>4. Arrived = {}
  BY <1>1 DEF Arrived
<1>5. Ordered(<<>>, <<>>, <<>>, <<>>, {})
  BY <1>6 DEF Ordered, Below
<1> QED
  BY <1>1, <1>2, <1>3, <1>4, <1>5 DEF OrderInv, InOrder

(* A host that is retired stays so. *)
LEMMA OrderStep ==
    ASSUME TypeInv, QuietInv, OrderInv, [ClientNext]_clientVars
    PROVE  OrderInv'
<1>1. retired => retired'
  BY RetiredStep DEF QuietInv
<1>2. ASSUME ~retired, ~retired' PROVE (fed \in Seq(Nat) /\ Wired /\ InOrder)'
  BY <1>2, WiredStep, InOrderStep DEF QuietInv, OrderInv
<1> QED
  BY <1>1, <1>2 DEF OrderInv

(* Four sequences in order are one sequence in order. *)
LEMMA OneSequence ==
    ASSUME NEW f \in Seq(Nat), NEW c \in Seq(Nat), NEW b \in Seq(Nat),
           NEW w \in Seq(Nat), NEW all, Ordered(f, c, b, w, all)
    PROVE  Rising(f \o c \o b \o w) /\ Nums(f \o c \o b \o w) = all
<1> DEFINE s == f \o c
           t == f \o c \o b
<1>1. /\ s \in Seq(Nat) /\ Nums(s) = Nums(f) \cup Nums(c)
      /\ Rising(f) /\ Rising(c) /\ Below(Nums(f), Nums(c)) => Rising(s)
  BY ConcatRises
<1>2. /\ t \in Seq(Nat) /\ Nums(t) = Nums(s) \cup Nums(b)
      /\ Rising(s) /\ Rising(b) /\ Below(Nums(s), Nums(b)) => Rising(t)
  BY <1>1, ConcatRises
<1>3. /\ Nums(t \o w) = Nums(t) \cup Nums(w)
      /\ Rising(t) /\ Rising(w) /\ Below(Nums(t), Nums(w)) => Rising(t \o w)
  BY <1>2, ConcatRises
<1> HIDE DEF s, t
<1>4. Rising(s) /\ Nums(s) = Nums(f) \cup Nums(c)
  BY <1>1 DEF Ordered
<1>5. Rising(t) /\ Nums(t) = Nums(f) \cup Nums(c) \cup Nums(b)
  BY <1>2, <1>4 DEF Ordered, Below
<1>6. Rising(t \o w) /\ Nums(t \o w) = all
  BY <1>3, <1>5 DEF Ordered, Below
<1> QED
  BY <1>6 DEF t

(***************************************************************************)
(* The order that TerminalViews.swift calls absolute, for every number of  *)
(* connections, chunks, layouts and sizes: every chunk that was sent and   *)
(* not lost with its connection is fed, held back, queued or on the wire,  *)
(* once, and in the order in which the daemon sent it.                     *)
(***************************************************************************)
THEOREM ChunksStayInOrder == ClientSpec => []FedInOrder
<1>1. ClientInit => QuietInv /\ OrderInv
  BY QuietInit, OrderInit
<1>2. TypeInv /\ QuietInv /\ OrderInv /\ [ClientNext]_clientVars
          => (QuietInv /\ OrderInv)'
  BY QuietStep, OrderStep
<1>3. TypeInv /\ OrderInv => FedInOrder
  <2> SUFFICES ASSUME TypeInv, OrderInv, ~retired PROVE FedInOrder
    BY DEF FedInOrder
  <2>1. /\ fed \in Seq(Nat) /\ InOrder /\ Bounded
    BY DEF TypeInv, OrderInv
  <2>2. /\ Numbers(coalesced) \in Seq(Nat) /\ Numbers(blocks) \in Seq(Nat)
        /\ Numbers(onWire) \in Seq(Nat)
    BY <2>1, NumberTypes
  <2> QED
    BY <2>1, <2>2, OneSequence DEF InOrder, FedInOrder, Nums, Arrived
<1> QED
  BY <1>1, <1>2, <1>3, ClientTypeInvariant, PTL DEF ClientSpec

-----------------------------------------------------------------------------
(* Sizes.  A layout's grid goes through a block of the stream queue into a *)
(* RESIZE, through the daemon to the PTY, and comes back as SIZE.          *)

(* In `s` there is an item of A; behind no item of A is one of B; the last *)
(* item of A has grid g, and if there is none then d is g.                 *)
Has(s, A) == \E i \in DOMAIN s : s[i] \in A

Behind(s, A, B) == \A i, j \in DOMAIN s : i < j /\ s[i] \in A => s[j] \notin B

Latest(s, A, d, g) ==
    \/ d = g /\ ~Has(s, A)
    \/ \E i \in DOMAIN s : /\ s[i] \in A /\ s[i].grid = g
                           /\ \A j \in DOMAIN s : j > i => s[j] \notin A

SizeFrames == {x \in Item : x.kind = "SIZE"}
Resizes == {x \in Item : x.kind = "resize"}
Attaches(c) == {x \in Item : x.kind = "ATTACHED" /\ x.conn = c}

(* A connection that is there was not stopped, and none of its replay is   *)
(* queued before the session is set.                                       *)
Held ==
    /\ peer => conn > 0 /\ ~stopped
    /\ peer /\ ~session => attached # conn /\ ~Has(blocks, Attaches(conn))

(* The last layout was asked for, or its block is queued. *)
Laid ==
    /\ Latest(blocks, Resizes,
              IF attached = 0 THEN layoutGrid ELSE requestedGrid, layoutGrid)
    /\ ~Has(onWire, Resizes)

(* The PTY's size was told, or its SIZE is on the way. *)
Told == peer => Latest(Queue, SizeFrames, streamGrid, ptyGrid)

(* A connection is attached once. *)
Once ==
    peer => /\ Behind(Queue, Attaches(conn), Attaches(conn))
            /\ attached = conn => ~Has(Queue, Attaches(conn))

(* Nothing is asked for before that, unless it crosses. *)
Unasked ==
    peer /\ ~crossed /\ Has(Queue, Attaches(conn)) =>
        asked = <<>> /\ Behind(Queue, Attaches(conn), SizeFrames)

(* What was asked for last is what the stream queue requested, and a core  *)
(* that has another grid than the stream will get the stream's.            *)
Newest == IF asked = <<>> THEN ptyGrid ELSE asked[Len(asked)]

Catches ==
    \/ installedGrid = streamGrid
    \/ Has(Queue, SizeFrames)
    \/ asked # <<>> /\ Head(asked) # ptyGrid

Requested ==
    peer /\ ~crossed /\ attached = conn => Newest = requestedGrid /\ Catches

Geometry == Held /\ Laid /\ Told /\ Once /\ Unasked /\ Requested

(* These of two sequences behind each other, *)
LEMMA HasConcat ==
    ASSUME NEW s \in Seq(Item), NEW t \in Seq(Item), NEW A
    PROVE  Has(s \o t, A) <=> Has(s, A) \/ Has(t, A)
<1> DEFINE u == s \o t
<1>1. /\ Len(s) \in Nat /\ Len(t) \in Nat
      /\ DOMAIN s = 1 .. Len(s) /\ DOMAIN t = 1 .. Len(t)
      /\ DOMAIN u = 1 .. Len(s) + Len(t)
      /\ \A i \in 1 .. Len(s) + Len(t) :
             u[i] = IF i <= Len(s) THEN s[i] ELSE t[i - Len(s)]
  BY ConcatProperties
<1> HIDE DEF u
<1>2. ASSUME NEW i \in DOMAIN s PROVE i \in DOMAIN u /\ u[i] = s[i]
  BY <1>1
<1>3. ASSUME NEW i \in DOMAIN t
      PROVE  i + Len(s) \in DOMAIN u /\ u[i + Len(s)] = t[i]
  <2> DEFINE k == i + Len(s)
  <2>1. k \in 1 .. Len(s) + Len(t) /\ ~(k <= Len(s)) /\ k - Len(s) = i
    BY <1>1
  <2> HIDE DEF k
  <2>2. k \in DOMAIN u /\ u[k] = t[i]
    BY <1>1, <2>1
  <2> QED
    BY <2>2 DEF k
<1>4. ASSUME NEW i \in DOMAIN u
      PROVE  \/ i \in DOMAIN s /\ u[i] = s[i]
             \/ i - Len(s) \in DOMAIN t /\ u[i] = t[i - Len(s)]
  BY <1>1
<1>5. Has(u, A) => Has(s, A) \/ Has(t, A)
  BY <1>4 DEF Has
<1>6. Has(s, A) => Has(u, A)
  BY <1>2 DEF Has
<1>7. Has(t, A) => Has(u, A)
  BY <1>3 DEF Has
<1> QED
  BY <1>5, <1>6, <1>7 DEF u

(* of what is behind something in them, *)
LEMMA BehindConcat ==
    ASSUME NEW s \in Seq(Item), NEW t \in Seq(Item), NEW A, NEW B
    PROVE  Behind(s \o t, A, B) <=>
               Behind(s, A, B) /\ Behind(t, A, B) /\ ~(Has(s, A) /\ Has(t, B))
<1> DEFINE u == s \o t
<1>1. /\ Len(s) \in Nat /\ Len(t) \in Nat
      /\ DOMAIN s = 1 .. Len(s) /\ DOMAIN t = 1 .. Len(t)
      /\ DOMAIN u = 1 .. Len(s) + Len(t)
      /\ \A i \in 1 .. Len(s) + Len(t) :
             u[i] = IF i <= Len(s) THEN s[i] ELSE t[i - Len(s)]
  BY ConcatProperties
<1> HIDE DEF u
<1>2. ASSUME NEW i \in DOMAIN s PROVE i \in DOMAIN u /\ u[i] = s[i]
  BY <1>1
<1>3. ASSUME NEW i \in DOMAIN t
      PROVE  i + Len(s) \in DOMAIN u /\ u[i + Len(s)] = t[i]
  <2> DEFINE k == i + Len(s)
  <2>1. k \in 1 .. Len(s) + Len(t) /\ ~(k <= Len(s)) /\ k - Len(s) = i
    BY <1>1
  <2> HIDE DEF k
  <2>2. k \in DOMAIN u /\ u[k] = t[i]
    BY <1>1, <2>1
  <2> QED
    BY <2>2 DEF k
<1>4. ASSUME NEW i \in DOMAIN u
      PROVE  \/ i \in DOMAIN s /\ u[i] = s[i]
             \/ i - Len(s) \in DOMAIN t /\ i > Len(s) /\ u[i] = t[i - Len(s)]
  BY <1>1
<1>5. ASSUME Behind(u, A, B)
      PROVE  Behind(s, A, B) /\ Behind(t, A, B) /\ ~(Has(s, A) /\ Has(t, B))
  <2>1. Behind(s, A, B)
    BY <1>2, <1>5 DEF Behind
  <2>2. Behind(t, A, B)
    <3> SUFFICES ASSUME NEW i \in DOMAIN t, NEW j \in DOMAIN t, i < j, t[i] \in A
                 PROVE  t[j] \notin B
      BY DEF Behind
    <3>1. i + Len(s) < j + Len(s)
      BY <1>1
    <3> QED
      BY <1>3, <1>5, <3>1 DEF Behind
  <2>3. ASSUME NEW i \in DOMAIN s, NEW j \in DOMAIN t, s[i] \in A
        PROVE  t[j] \notin B
    <3>1. i < j + Len(s)
      BY <1>1
    <3> QED
      BY <1>2, <1>3, <1>5, <2>3, <3>1 DEF Behind
  <2> QED
    BY <2>1, <2>2, <2>3 DEF Has
<1>6. ASSUME Behind(s, A, B), Behind(t, A, B), ~(Has(s, A) /\ Has(t, B))
      PROVE  Behind(u, A, B)
  <2> SUFFICES ASSUME NEW i \in DOMAIN u, NEW j \in DOMAIN u, i < j, u[i] \in A
               PROVE  u[j] \notin B
    BY DEF Behind
  <2>1. CASE i \in DOMAIN s /\ j \in DOMAIN s
    BY <1>2, <1>6, <2>1 DEF Behind
  <2>2. CASE i \in DOMAIN s /\ j \notin DOMAIN s
    <3>1. u[i] = s[i] /\ j - Len(s) \in DOMAIN t /\ u[j] = t[j - Len(s)]
      BY <1>2, <1>4, <2>2
    <3> QED
      BY <1>6, <2>2, <3>1 DEF Has
  <2>3. CASE i \notin DOMAIN s
    <3>1. j \notin DOMAIN s
      BY <1>1, <2>3
    <3>2. /\ i - Len(s) \in DOMAIN t /\ u[i] = t[i - Len(s)]
          /\ j - Len(s) \in DOMAIN t /\ u[j] = t[j - Len(s)]
      BY <1>4, <2>3, <3>1
    <3>3. i - Len(s) < j - Len(s)
      BY <1>1
    <3> QED
      BY <1>6, <3>2, <3>3 DEF Behind
  <2> QED
    BY <2>1, <2>2, <2>3
<1> QED
  BY <1>5, <1>6 DEF u

(* of what is the latest in them, *)
LEMMA LatestConcat ==
    ASSUME NEW s \in Seq(Item), NEW t \in Seq(Item), NEW A, NEW d, NEW g
    PROVE  /\ Has(t, A) => (Latest(s \o t, A, d, g) <=> Latest(t, A, d, g))
           /\ ~Has(t, A) => (Latest(s \o t, A, d, g) <=> Latest(s, A, d, g))
<1> DEFINE u == s \o t
<1>1. /\ Len(s) \in Nat /\ Len(t) \in Nat
      /\ DOMAIN s = 1 .. Len(s) /\ DOMAIN t = 1 .. Len(t)
      /\ DOMAIN u = 1 .. Len(s) + Len(t)
      /\ \A i \in 1 .. Len(s) + Len(t) :
             u[i] = IF i <= Len(s) THEN s[i] ELSE t[i - Len(s)]
  BY ConcatProperties
<1>0. Has(u, A) <=> Has(s, A) \/ Has(t, A)
  BY HasConcat
<1> HIDE DEF u
<1>2. ASSUME NEW i \in DOMAIN s PROVE i \in DOMAIN u /\ u[i] = s[i]
  BY <1>1
<1>3. ASSUME NEW i \in DOMAIN t
      PROVE  i + Len(s) \in DOMAIN u /\ u[i + Len(s)] = t[i]
  <2> DEFINE k == i + Len(s)
  <2>1. k \in 1 .. Len(s) + Len(t) /\ ~(k <= Len(s)) /\ k - Len(s) = i
    BY <1>1
  <2> HIDE DEF k
  <2>2. k \in DOMAIN u /\ u[k] = t[i]
    BY <1>1, <2>1
  <2> QED
    BY <2>2 DEF k
<1>4. ASSUME NEW i \in DOMAIN u
      PROVE  \/ i \in DOMAIN s /\ u[i] = s[i]
             \/ i - Len(s) \in DOMAIN t /\ i > Len(s) /\ u[i] = t[i - Len(s)]
  BY <1>1
<1>5. ASSUME Has(t, A), Latest(t, A, d, g) PROVE Latest(u, A, d, g)
  <2>1. PICK i \in DOMAIN t : /\ t[i] \in A /\ t[i].grid = g
                              /\ \A j \in DOMAIN t : j > i => t[j] \notin A
    BY <1>5 DEF Latest
  <2>2. ASSUME NEW j \in DOMAIN u, j > i + Len(s) PROVE u[j] \notin A
    <3>1. j \notin DOMAIN s
      BY <1>1, <2>2
    <3>2. j - Len(s) \in DOMAIN t /\ u[j] = t[j - Len(s)]
      BY <1>4, <3>1
    <3>3. j - Len(s) > i
      BY <1>1, <2>2
    <3> QED
      BY <2>1, <3>2, <3>3
  <2> QED
    BY <1>3, <2>1, <2>2 DEF Latest
<1>6. ASSUME ~Has(t, A), Latest(s, A, d, g) PROVE Latest(u, A, d, g)
  <2>1. CASE d = g /\ ~Has(s, A)
    BY <1>0, <1>6, <2>1 DEF Latest
  <2>2. CASE ~(d = g /\ ~Has(s, A))
    <3>1. PICK i \in DOMAIN s : /\ s[i] \in A /\ s[i].grid = g
                                /\ \A j \in DOMAIN s : j > i => s[j] \notin A
      BY <1>6, <2>2 DEF Latest
    <3>2. ASSUME NEW j \in DOMAIN u, j > i PROVE u[j] \notin A
      <4>1. CASE j \in DOMAIN s
        BY <1>2, <3>1, <3>2, <4>1
      <4>2. CASE j \notin DOMAIN s
        BY <1>4, <1>6, <4>2 DEF Has
      <4> QED
        BY <4>1, <4>2
    <3> QED
      BY <1>2, <3>1, <3>2 DEF Latest
  <2> QED
    BY <2>1, <2>2
<1>7. ASSUME Has(t, A), Latest(u, A, d, g) PROVE Latest(t, A, d, g)
  <2>1. PICK i \in DOMAIN u : /\ u[i] \in A /\ u[i].grid = g
                              /\ \A j \in DOMAIN u : j > i => u[j] \notin A
    BY <1>0, <1>7 DEF Latest
  <2>2. PICK k \in DOMAIN t : t[k] \in A
    BY <1>7 DEF Has
  <2>3. k + Len(s) <= i
    <3>1. ~(k + Len(s) > i)
      BY <1>3, <2>1, <2>2
    <3> QED
      BY <1>1, <3>1
  <2>4. i \notin DOMAIN s
    BY <1>1, <2>3
  <2>5. i - Len(s) \in DOMAIN t /\ u[i] = t[i - Len(s)]
    BY <1>4, <2>4
  <2>6. ASSUME NEW j \in DOMAIN t, j > i - Len(s) PROVE t[j] \notin A
    <3>1. j + Len(s) > i
      BY <1>1, <2>6
    <3> QED
      BY <1>3, <2>1, <3>1
  <2> QED
    BY <2>1, <2>5, <2>6 DEF Latest
<1>8. ASSUME ~Has(t, A), Latest(u, A, d, g) PROVE Latest(s, A, d, g)
  <2>1. CASE d = g /\ ~Has(u, A)
    BY <1>0, <2>1 DEF Latest
  <2>2. CASE ~(d = g /\ ~Has(u, A))
    <3>1. PICK i \in DOMAIN u : /\ u[i] \in A /\ u[i].grid = g
                                /\ \A j \in DOMAIN u : j > i => u[j] \notin A
      BY <1>8, <2>2 DEF Latest
    <3>2. i \in DOMAIN s /\ u[i] = s[i]
      BY <1>4, <1>8, <3>1 DEF Has
    <3>3. ASSUME NEW j \in DOMAIN s, j > i PROVE s[j] \notin A
      BY <1>2, <3>1, <3>3
    <3> QED
      BY <3>1, <3>2, <3>3 DEF Latest
  <2> QED
    BY <2>1, <2>2
<1> QED
  BY <1>5, <1>6, <1>7, <1>8 DEF u

(* of one item or none, *)
LEMMA OneItem ==
    ASSUME NEW x \in Item, NEW A, NEW B, NEW d, NEW g
    PROVE  /\ <<x>> \in Seq(Item)
           /\ Has(<<x>>, A) <=> x \in A
           /\ Behind(<<x>>, A, B)
           /\ Latest(<<x>>, A, d, g) <=> (IF x \in A THEN x.grid ELSE d) = g
           /\ ~Has(<<>>, A) /\ Behind(<<>>, A, B)
           /\ Latest(<<>>, A, d, g) <=> d = g
<1>1. /\ <<x>> \in Seq(Item) /\ DOMAIN <<x>> = {1} /\ <<x>>[1] = x
      /\ DOMAIN <<>> = {}
  OBVIOUS
<1>2. ~(1 < 1) /\ ~(1 > 1)
  OBVIOUS
<1> QED
  BY <1>1, <1>2 DEF Has, Behind, Latest

(* of one item more, *)
LEMMA HasAppend ==
    ASSUME NEW s \in Seq(Item), NEW x \in Item, NEW A
    PROVE  Has(Append(s, x), A) <=> Has(s, A) \/ x \in A
<1>1. Append(s, x) = s \o <<x>> /\ <<x>> \in Seq(Item)
  BY AppendIsConcat
<1>2. Has(<<x>>, A) <=> x \in A
  BY OneItem
<1>3. Has(s \o <<x>>, A) <=> Has(s, A) \/ Has(<<x>>, A)
  BY <1>1, HasConcat
<1> QED
  BY <1>1, <1>2, <1>3

(* and the default of the latest item. *)
LEMMA LatestOf ==
    ASSUME NEW s, NEW A, NEW d, NEW e, NEW g, Latest(s, A, d, g)
    PROVE  /\ Has(s, A) => Latest(s, A, e, g)
           /\ ~Has(s, A) => d = g
           /\ Latest(s, A, g, g)
BY DEF Latest, Has

(* The head is taken off a queue. *)
LEMMA HeadGone ==
    ASSUME NEW h \in Item, NEW t \in Seq(Item), NEW A, NEW B, NEW d, NEW g
    PROVE  /\ Has(<<h>> \o t, A) <=> h \in A \/ Has(t, A)
           /\ Behind(<<h>> \o t, A, B) =>
                  Behind(t, A, B) /\ (h \in A => ~Has(t, B))
           /\ Latest(<<h>> \o t, A, d, g) =>
                  Latest(t, A, IF h \in A THEN h.grid ELSE d, g)
<1>1. /\ <<h>> \in Seq(Item) /\ (Has(<<h>>, A) <=> h \in A)
      /\ Latest(<<h>>, A, d, g) <=> (IF h \in A THEN h.grid ELSE d) = g
  BY OneItem
<1>2. Has(<<h>> \o t, A) <=> h \in A \/ Has(t, A)
  BY <1>1, HasConcat
<1>3. Behind(<<h>> \o t, A, B) => Behind(t, A, B) /\ (h \in A => ~Has(t, B))
  BY <1>1, BehindConcat
<1>4. ASSUME Latest(<<h>> \o t, A, d, g)
      PROVE  Latest(t, A, IF h \in A THEN h.grid ELSE d, g)
  <2>1. CASE Has(t, A)
    BY <1>1, <1>4, <2>1, LatestConcat, LatestOf
  <2>2. CASE ~Has(t, A)
    <3>1. (IF h \in A THEN h.grid ELSE d) = g
      BY <1>1, <1>4, <2>2, LatestConcat
    <3> QED
      BY <2>2, <3>1 DEF Latest
  <2> QED
    BY <2>1, <2>2
<1> QED
  BY <1>2, <1>3, <1>4

(* A block is put between blocks and wire. *)
LEMMA BlockPassed ==
    ASSUME NEW b \in Seq(Item), NEW w \in Seq(Item), NEW x \in Item,
           NEW A, NEW B, x \notin A, x \notin B, NEW d, NEW g
    PROVE  /\ Append(b, x) \in Seq(Item)
           /\ Has(Append(b, x) \o w, A) <=> Has(b \o w, A)
           /\ Behind(b \o w, A, B) => Behind(Append(b, x) \o w, A, B)
           /\ Latest(b \o w, A, d, g) => Latest(Append(b, x) \o w, A, d, g)
<1> DEFINE c == Append(b, x)
           o == <<x>>
<1>1. c = b \o o
  BY AppendIsConcat
<1>2. c \in Seq(Item)
  OBVIOUS
<1>3. /\ o \in Seq(Item) /\ Behind(o, A, B)
      /\ ~Has(o, A) /\ ~Has(o, B)
  <2>1. /\ o \in Seq(Item) /\ Behind(o, A, B) /\ ~Has(o, A)
    BY OneItem
  <2>2. ~Has(o, B)
    BY OneItem
  <2> QED
    BY <2>1, <2>2
<1> HIDE DEF c, o
<1>4. (Has(c, A) <=> Has(b, A)) /\ (Has(c, B) <=> Has(b, B))
  BY <1>1, <1>3, HasConcat
<1>5. Behind(c, A, B) <=> Behind(b, A, B)
  BY <1>1, <1>3, BehindConcat
<1>6. Latest(c, A, d, g) <=> Latest(b, A, d, g)
  BY <1>1, <1>3, LatestConcat
<1>7. Has(c \o w, A) <=> Has(b \o w, A)
  BY <1>2, <1>4, HasConcat
<1>8. Behind(b \o w, A, B) => Behind(c \o w, A, B)
  BY <1>2, <1>4, <1>5, BehindConcat
<1>9. Latest(b \o w, A, d, g) => Latest(c \o w, A, d, g)
  BY <1>2, <1>6, LatestConcat
<1> QED
  BY <1>2, <1>7, <1>8, <1>9 DEF c

-----------------------------------------------------------------------------
(* To the queue `t` everything above applies that applies to `s`. *)
Keeps(s, t, c) ==
    /\ \A A \in {Attaches(c), SizeFrames} :
           /\ Has(t, A) <=> Has(s, A)
           /\ Behind(s, Attaches(c), A) => Behind(t, Attaches(c), A)
    /\ \A d, g : Latest(s, SizeFrames, d, g) => Latest(t, SizeFrames, d, g)

(* So it is when a block is queued, *)
LEMMA PlainPut ==
    ASSUME NEW b \in Seq(Item), NEW w \in Seq(Item), NEW x \in Item, NEW c,
           x.kind \notin {"SIZE", "ATTACHED"}
    PROVE  /\ Append(b, x) \in Seq(Item)
           /\ Keeps(b \o w, Append(b, x) \o w, c)
           /\ Has(Append(b, x), Attaches(c)) <=> Has(b, Attaches(c))
           /\ \A d, g : IF x.kind = "resize"
                        THEN Latest(Append(b, x), Resizes, d, x.grid)
                        ELSE Latest(b, Resizes, d, g)
                                 => Latest(Append(b, x), Resizes, d, g)
<1>1. x \notin SizeFrames /\ x \notin Attaches(c) /\ (x \in Resizes <=> x.kind = "resize")
  BY DEF SizeFrames, Attaches, Resizes
<1> DEFINE a == Append(b, x)
<1>2. a \in Seq(Item)
  OBVIOUS
<1>3. a = b \o <<x>> /\ <<x>> \in Seq(Item)
  BY AppendIsConcat
<1> HIDE DEF a
<1>4. ASSUME NEW A \in {Attaches(c), SizeFrames}
      PROVE  /\ Has(a \o w, A) <=> Has(b \o w, A)
             /\ Behind(b \o w, Attaches(c), A) => Behind(a \o w, Attaches(c), A)
  <2>1. x \notin A /\ x \notin Attaches(c)
    BY <1>1
  <2>2. Has(a \o w, A) <=> Has(b \o w, A)
    BY <2>1, BlockPassed DEF a
  <2>3. Behind(b \o w, Attaches(c), A) => Behind(a \o w, Attaches(c), A)
    BY <2>1, BlockPassed DEF a
  <2> QED
    BY <2>2, <2>3
<1>5. ASSUME NEW d, NEW g, Latest(b \o w, SizeFrames, d, g)
      PROVE  Latest(a \o w, SizeFrames, d, g)
  BY <1>1, <1>5, BlockPassed DEF a
<1>6. Keeps(b \o w, a \o w, c)
  BY <1>4, <1>5 DEF Keeps
<1>9. ASSUME NEW A, x \notin A PROVE ~Has(<<x>>, A)
  BY <1>9, OneItem
<1>7. Has(a, Attaches(c)) <=> Has(b, Attaches(c))
  <2>1. ~Has(<<x>>, Attaches(c))
    BY <1>1, <1>9
  <2> QED
    BY <1>3, <2>1, HasConcat
<1>8. ASSUME NEW d, NEW g
      PROVE  IF x.kind = "resize" THEN Latest(a, Resizes, d, x.grid)
             ELSE Latest(b, Resizes, d, g) => Latest(a, Resizes, d, g)
  <2>1. CASE x.kind = "resize"
    <3>1. Has(<<x>>, Resizes) /\ Latest(<<x>>, Resizes, d, x.grid)
      <4>1. x \in Resizes
        BY <1>1, <2>1
      <4>2. \A A, e, f : /\ Has(<<x>>, A) <=> x \in A
                         /\ Latest(<<x>>, A, e, f)
                                <=> (IF x \in A THEN x.grid ELSE e) = f
        BY OneItem
      <4> QED
        BY <4>1, <4>2
    <3> QED
      BY <1>3, <2>1, <3>1, LatestConcat
  <2>2. CASE x.kind # "resize"
    <3>1. ~Has(<<x>>, Resizes)
      BY <1>1, <1>9, <2>2
    <3> QED
      BY <1>3, <2>2, <3>1, LatestConcat
  <2> QED
    BY <2>1, <2>2
<1> QED
  BY <1>2, <1>6, <1>7, <1>8 DEF a

(* and taking the head off takes the head only. *)
LEMMA HeadOff ==
    ASSUME Bounded, blocks # <<>>, onWire' = onWire,
           \/ blocks' = Tail(blocks)
           \/ blocks' = Append(Tail(blocks), Block("drain", NoGrid)),
           NEW A, NEW B, NEW d, NEW g,
           Block("drain", NoGrid) \notin A \cup B
    PROVE  /\ Has(Queue, A) <=> Head(blocks) \in A \/ Has(Queue', A)
           /\ Behind(Queue, A, B) =>
                  Behind(Queue', A, B) /\ (Head(blocks) \in A => ~Has(Queue', B))
           /\ Latest(Queue, A, d, g) =>
                  Latest(Queue', A,
                         IF Head(blocks) \in A THEN Head(blocks).grid ELSE d, g)
           /\ Has(blocks, A) <=> Head(blocks) \in A \/ Has(blocks', A)
           /\ Latest(blocks, A, d, g) =>
                  Latest(blocks', A,
                         IF Head(blocks) \in A THEN Head(blocks).grid ELSE d, g)
<1> DEFINE h == Head(blocks)
           t == Tail(blocks)
           k == Block("drain", NoGrid)
           e == IF h \in A THEN h.grid ELSE d
<1>1. /\ blocks \in Seq(Item) /\ onWire \in Seq(Item) /\ conn \in Nat
  BY QueuesAreItems DEF Bounded
<1>2. /\ h \in Item /\ t \in Seq(Item) /\ <<h>> \in Seq(Item)
      /\ t \o onWire \in Seq(Item)
  BY <1>1
<1>3. k \in Item
  BY <1>1 DEF Block, Item, Kind
<1>4. blocks = <<h>> \o t /\ Queue = <<h>> \o (t \o onWire)
  <2>1. blocks = <<h>> \o t
    BY <1>1, HeadThenTail
  <2>2. blocks \o onWire = <<h>> \o (t \o onWire)
    BY <1>1, HeadInFront
  <2> QED
    BY <2>1, <2>2 DEF Queue
<1> HIDE DEF h, t, k
<1>5. /\ Has(blocks, A) <=> h \in A \/ Has(t, A)
      /\ Latest(blocks, A, d, g) => Latest(t, A, e, g)
  BY <1>2, <1>4, HeadGone
<1>6. /\ Has(Queue, A) <=> h \in A \/ Has(t \o onWire, A)
      /\ Behind(Queue, A, B) => Behind(t \o onWire, A, B)
                                /\ (h \in A => ~Has(t \o onWire, B))
      /\ Latest(Queue, A, d, g) => Latest(t \o onWire, A, e, g)
  BY <1>2, <1>4, HeadGone
<1> HIDE DEF e
<1>7. /\ Append(t, k) \in Seq(Item)
      /\ Has(Append(t, k) \o onWire, A) <=> Has(t \o onWire, A)
      /\ Behind(t \o onWire, A, B) => Behind(Append(t, k) \o onWire, A, B)
      /\ Latest(t \o onWire, A, e, g) => Latest(Append(t, k) \o onWire, A, e, g)
  <2>1. k \notin A /\ k \notin B
    BY DEF k
  <2> QED
    BY <1>1, <1>2, <1>3, <2>1, BlockPassed
<1>8. Has(Append(t, k) \o onWire, B) <=> Has(t \o onWire, B)
  <2>1. k \notin B
    BY DEF k
  <2> QED
    BY <1>1, <1>2, <1>3, <2>1, BlockPassed
<1>9. /\ Has(Append(t, k), A) <=> Has(t, A)
      /\ Latest(t, A, e, g) => Latest(Append(t, k), A, e, g)
  <2>1. Append(t, k) = t \o <<k>> /\ <<k>> \in Seq(Item)
    BY <1>2, <1>3, AppendIsConcat
  <2>2. k \notin A
    BY DEF k
  <2>3. ~Has(<<k>>, A)
    BY <1>3, <2>2, OneItem
  <2>4. Has(t \o <<k>>, A) <=> Has(t, A)
    BY <1>2, <2>1, <2>3, HasConcat
  <2>5. Latest(t, A, e, g) => Latest(t \o <<k>>, A, e, g)
    BY <1>2, <2>1, <2>3, LatestConcat
  <2> QED
    BY <2>1, <2>4, <2>5
<1>10. \/ Queue' = t \o onWire /\ blocks' = t
       \/ Queue' = Append(t, k) \o onWire /\ blocks' = Append(t, k)
  BY DEF Queue, t, k
<1> QED
  BY <1>5, <1>6, <1>7, <1>8, <1>9, <1>10 DEF h, e

-----------------------------------------------------------------------------
(* Without a connection there is nothing to hold but the layout. *)
LEMMA NoPeer ==
    ASSUME ~peer', Laid' PROVE Geometry'
BY DEF Geometry, Held, Told, Once, Unasked, Requested

(* Sizes stay as they were while the queue keeps what is said of it, *)
LEMMA SizesKept ==
    ASSUME Geometry, conn \in Nat, Laid', Keeps(Queue, Queue', conn),
           peer' => /\ session => session'
                    /\ stopped' => stopped
                    /\ Has(blocks', Attaches(conn)) =>
                           session' \/ Has(blocks, Attaches(conn)),
           attached' \in {attached, 0},
           UNCHANGED <<conn, peer, gridVars, asked, crossed, ptyGrid>>
    PROVE  Geometry'
<1> USE DEF gridVars
<1> DEFINE Z == Attaches(conn)
<1>0. /\ Held /\ Told /\ Once /\ Unasked /\ Requested
      /\ peer => conn > 0 /\ (attached' = conn => attached = conn)
  BY DEF Geometry, Held
<1>1. /\ Has(Queue', Z) <=> Has(Queue, Z)
      /\ Has(Queue', SizeFrames) <=> Has(Queue, SizeFrames)
      /\ Behind(Queue, Z, Z) => Behind(Queue', Z, Z)
      /\ Behind(Queue, Z, SizeFrames) => Behind(Queue', Z, SizeFrames)
      /\ \A d, g : Latest(Queue, SizeFrames, d, g) => Latest(Queue', SizeFrames, d, g)
  BY DEF Keeps
<1>2. Held'
  BY <1>0 DEF Held
<1>3. Told'
  BY <1>0, <1>1 DEF Told
<1>4. Once'
  BY <1>0, <1>1 DEF Once
<1>5. Unasked'
  BY <1>0, <1>1 DEF Unasked
<1>6. Requested'
  <2>1. Newest' = Newest
    BY DEF Newest
  <2>2. Catches => Catches'
    BY <1>1 DEF Catches
  <2> QED
    BY <1>0, <2>1, <2>2 DEF Requested
<1> QED
  BY <1>2, <1>3, <1>4, <1>5, <1>6 DEF Geometry

(* and the queue keeps it that is the same, *)
LEMMA SameKeeps ==
    ASSUME NEW s, NEW c PROVE Keeps(s, s, c)
BY DEF Keeps

(* so where nothing moves they stay. *)
LEMMA SizesAlone ==
    ASSUME Geometry, conn \in Nat,
           peer' => (session => session') /\ (stopped' => stopped),
           UNCHANGED <<blocks, onWire, attached, layoutGrid, conn, peer,
                       gridVars, asked, crossed, ptyGrid>>
    PROVE  Geometry'
<1>1. Laid'
  BY DEF Geometry, Laid, gridVars
<1>2. Keeps(Queue, Queue', conn)
  BY SameKeeps DEF Queue
<1> QED
  BY <1>1, <1>2, SizesKept

(* The stream queue runs a block that says nothing of sizes. *)
LEMMA SizesPassed ==
    ASSUME Bounded, Geometry, blocks # <<>>, onWire' = onWire,
           Head(blocks).kind \notin {"SIZE", "ATTACHED"},
           \/ blocks' = Tail(blocks)
           \/ blocks' = Append(Tail(blocks), Block("drain", NoGrid)),
           attached' \in {attached, 0},
           Head(blocks).kind = "resize" =>
               attached = 0 \/ requestedGrid = Head(blocks).grid,
           UNCHANGED <<session, stopped, layoutGrid, conn, peer, gridVars,
                       asked, crossed, ptyGrid>>
    PROVE  Geometry'
<1> DEFINE h == Head(blocks)
           k == Block("drain", NoGrid)
           Z == Attaches(conn)
<1>1. /\ conn \in Nat /\ Geometry
  BY DEF Bounded
<1>2. /\ h \notin SizeFrames /\ h \notin Z /\ k \notin SizeFrames
      /\ k \notin Z /\ k \notin Resizes
      /\ h \in Resizes => h.kind = "resize"
  BY DEF SizeFrames, Attaches, Resizes, Block
<1> HIDE DEF h, k, Z
<1>3. ASSUME NEW A \in {Z, SizeFrames}
      PROVE  /\ Has(Queue', A) <=> Has(Queue, A)
             /\ Behind(Queue, Z, A) => Behind(Queue', Z, A)
  <2>1. h \notin A /\ k \notin A /\ k \notin Z
    BY <1>2
  <2>2. Has(Queue, A) <=> h \in A \/ Has(Queue', A)
    BY <2>1, HeadOff DEF h, k
  <2>3. Behind(Queue, Z, A) => Behind(Queue', Z, A)
    BY <2>1, HeadOff DEF h, k
  <2> QED
    BY <2>1, <2>2, <2>3
<1>4. ASSUME NEW d, NEW g, Latest(Queue, SizeFrames, d, g)
      PROVE  Latest(Queue', SizeFrames, d, g)
  <2>1. Latest(Queue', SizeFrames, IF h \in SizeFrames THEN h.grid ELSE d, g)
    BY <1>2, <1>4, HeadOff DEF h, k
  <2> QED
    BY <1>2, <2>1
<1>5. Keeps(Queue, Queue', conn)
  BY <1>3, <1>4 DEF Keeps, Z
<1>6. Has(blocks', Z) => Has(blocks, Z)
  BY <1>2, HeadOff DEF h, k
<1>7. Laid'
  <2> DEFINE d == IF attached = 0 THEN layoutGrid ELSE requestedGrid
             e == IF attached' = 0 THEN layoutGrid ELSE requestedGrid
             f == IF h \in Resizes THEN h.grid ELSE d
  <2>1. Latest(blocks, Resizes, d, layoutGrid) /\ ~Has(onWire, Resizes)
    BY DEF Geometry, Laid
  <2>2. Latest(blocks', Resizes, f, layoutGrid)
    BY <1>2, <2>1, HeadOff DEF h, k
  <2>3. e = f \/ e = layoutGrid
    BY <1>2 DEF h
  <2> HIDE DEF d, e, f
  <2>4. Latest(blocks', Resizes, e, layoutGrid)
    BY <2>2, <2>3, LatestOf
  <2> QED
    BY <2>1, <2>4 DEF Laid, gridVars, e
<1> QED
  BY <1>1, <1>5, <1>6, <1>7, SizesKept DEF Z

(* A block that says nothing of sizes is queued. *)
LEMMA SizesQueued ==
    ASSUME Bounded, Geometry, NEW x \in Item,
           x.kind \notin {"SIZE", "ATTACHED", "resize"},
           blocks' = Append(blocks, x),
           peer /\ session => session',
           UNCHANGED <<onWire, attached, stopped, layoutGrid, conn, peer,
                       gridVars, asked, crossed, ptyGrid>>
    PROVE  Geometry'
<1> DEFINE Z == Attaches(conn)
<1>1. /\ conn \in Nat /\ blocks \in Seq(Item) /\ onWire \in Seq(Item)
  BY QueuesAreItems DEF Bounded
<1>2. /\ Keeps(blocks \o onWire, Append(blocks, x) \o onWire, conn)
      /\ \A d, g : Latest(blocks, Resizes, d, g)
                       => Latest(Append(blocks, x), Resizes, d, g)
      /\ Has(Append(blocks, x), Z) <=> Has(blocks, Z)
  BY <1>1, PlainPut
<1>3. Keeps(Queue, Queue', conn)
  BY <1>2 DEF Queue
<1>4. Laid'
  BY <1>2 DEF Geometry, Laid, gridVars
<1> QED
  BY <1>1, <1>2, <1>3, <1>4, SizesKept

(* A layout is queued, behind the block of a start or alone. *)
LEMMA SizesLaidOut ==
    ASSUME Bounded, Geometry, NEW g \in Grid,
           blocks' = blocks \o GateBlocks(g) \o <<Block("resize", g)>>,
           layoutGrid' = g,
           UNCHANGED <<session, onWire, attached, stopped, conn, peer,
                       gridVars, asked, crossed, ptyGrid>>
    PROVE  Geometry'
<1> DEFINE Z == Attaches(conn)
           x == Block("gate", g)
           y == Block("resize", g)
           b == blocks \o GateBlocks(g)
<1>1. /\ conn \in Nat /\ blocks \in Seq(Item) /\ onWire \in Seq(Item)
  BY QueuesAreItems DEF Bounded
<1>2. /\ x \in Item /\ x.kind = "gate"
      /\ y \in Item /\ y.kind = "resize" /\ y.grid = g
  BY <1>1 DEF Block, Item, Kind
<1> HIDE DEF x, y
<1>3. b = blocks \/ b = Append(blocks, x)
  BY <1>1, <1>2, AppendIsConcat, ConcatEmptySeq DEF GateBlocks, x
<1>4. /\ b \in Seq(Item) /\ Keeps(Queue, b \o onWire, conn)
      /\ Has(b, Z) <=> Has(blocks, Z)
  <2>1. CASE b = blocks
    BY <1>1, <2>1, SameKeeps DEF Queue
  <2>2. CASE b = Append(blocks, x)
    BY <1>1, <1>2, <2>2, PlainPut DEF Queue
  <2> QED
    BY <1>3, <2>1, <2>2
<1>5. blocks' = Append(b, y)
  BY <1>2, <1>4, AppendIsConcat DEF y
<1> HIDE DEF b
<1>6. /\ Keeps(b \o onWire, Append(b, y) \o onWire, conn)
      /\ Has(Append(b, y), Z) <=> Has(b, Z)
      /\ \A d : Latest(Append(b, y), Resizes, d, g)
  BY <1>1, <1>2, <1>4, PlainPut
<1>7. Keeps(Queue, Queue', conn)
  <2>1. Queue' = Append(b, y) \o onWire
    BY <1>5 DEF Queue
  <2> QED
    BY <1>4, <1>6, <2>1 DEF Keeps
<1>8. Laid'
  BY <1>5, <1>6 DEF Geometry, Laid
<1> QED
  BY <1>1, <1>4, <1>5, <1>6, <1>7, <1>8, SizesKept

(* A start is queued alone. *)
LEMMA SizesStarted ==
    ASSUME Bounded, Geometry, NEW g \in Grid,
           blocks' = blocks \o GateBlocks(g),
           UNCHANGED <<session, onWire, attached, stopped, layoutGrid, conn,
                       peer, gridVars, asked, crossed, ptyGrid>>
    PROVE  Geometry'
<1> DEFINE x == Block("gate", g)
<1>1. /\ conn \in Nat /\ blocks \in Seq(Item) /\ onWire \in Seq(Item)
  BY QueuesAreItems DEF Bounded
<1>2. x \in Item /\ x.kind = "gate"
  BY <1>1 DEF Block, Item, Kind
<1> HIDE DEF x
<1>3. blocks' = blocks \/ blocks' = Append(blocks, x)
  BY <1>1, <1>2, AppendIsConcat, ConcatEmptySeq DEF GateBlocks, x
<1>4. CASE blocks' = blocks
  BY <1>1, <1>4, SizesAlone
<1>5. CASE blocks' = Append(blocks, x)
  BY <1>2, <1>5, SizesQueued
<1> QED
  BY <1>3, <1>4, <1>5

(* The reader moves a frame of the wire behind the blocks. *)
LEMMA SizesRead ==
    ASSUME Bounded, Geometry, onWire # <<>>, session,
           blocks' = Append(blocks, Head(onWire)), onWire' = Tail(onWire),
           UNCHANGED <<session, attached, stopped, layoutGrid, conn, peer,
                       gridVars, asked, crossed, ptyGrid>>
    PROVE  Geometry'
<1> DEFINE h == Head(onWire)
           t == Tail(onWire)
           o == <<h>>
<1>1. /\ conn \in Nat /\ blocks \in Seq(Item) /\ onWire \in Seq(Item)
  BY QueuesAreItems DEF Bounded
<1>2. /\ h \in Item /\ t \in Seq(Item) /\ onWire = <<h>> \o t
      /\ o \in Seq(Item) /\ Append(blocks, h) = blocks \o o
  BY <1>1, HeadThenTail, AppendIsConcat
<1>3. Queue' = Queue
  BY <1>1, HeadMoves DEF Queue
<1> HIDE DEF h, t, o
<1>4. ~Has(o, Resizes) /\ ~Has(t, Resizes)
  <2>1. ~Has(onWire, Resizes)
    BY DEF Geometry, Laid
  <2>2. Has(onWire, Resizes) <=> Has(o, Resizes) \/ Has(t, Resizes)
    BY <1>2, HasConcat DEF o
  <2> QED
    BY <2>1, <2>2
<1>5. Laid'
  <2>1. /\ blocks' = blocks \o o /\ onWire' = t
    BY <1>2 DEF h, t
  <2>2. \A d, g : Latest(blocks, Resizes, d, g)
                      => Latest(blocks \o o, Resizes, d, g)
    BY <1>1, <1>2, <1>4, LatestConcat
  <2> QED
    BY <1>4, <2>1, <2>2 DEF Geometry, Laid, gridVars
<1>6. Keeps(Queue, Queue', conn)
  BY <1>3, SameKeeps
<1> QED
  BY <1>1, <1>5, <1>6, SizesKept

(* Frames are put on the wire. *)
LEMMA WirePut ==
    ASSUME Bounded, NEW x \in Item, onWire' = Append(onWire, x),
           blocks' = blocks
    PROVE  Queue \in Seq(Item) /\ Queue' = Append(Queue, x)
BY QueuesAreItems, ConcatAppend DEF Queue

(* Output says nothing of sizes, *)
LEMMA SizesOutput ==
    ASSUME Bounded, Geometry, NEW x \in Item,
           x.kind \notin {"SIZE", "ATTACHED", "resize"},
           onWire' = Append(onWire, x),
           UNCHANGED <<blocks, session, attached, stopped, layoutGrid, conn,
                       peer, gridVars, asked, crossed, ptyGrid>>
    PROVE  Geometry'
<1>1. /\ conn \in Nat /\ blocks \in Seq(Item) /\ onWire \in Seq(Item)
      /\ Queue \in Seq(Item) /\ Queue' = Append(Queue, x)
      /\ <<>> \in Seq(Item)
  BY QueuesAreItems, WirePut DEF Bounded
<1>2. Keeps(Queue, Queue', conn)
  <2>1. Keeps(Queue \o <<>>, Append(Queue, x) \o <<>>, conn)
    BY <1>1, PlainPut
  <2>2. Queue \o <<>> = Queue /\ Append(Queue, x) \o <<>> = Append(Queue, x)
    BY <1>1, ConcatEmptySeq
  <2> QED
    BY <1>1, <2>1, <2>2
<1>3. ~Has(Append(onWire, x), Resizes)
  <2>1. x \notin Resizes /\ ~Has(onWire, Resizes)
    BY DEF Resizes, Geometry, Laid
  <2> QED
    BY <1>1, <2>1, HasAppend
<1>4. Laid'
  BY <1>3 DEF Geometry, Laid, gridVars
<1> QED
  BY <1>1, <1>2, <1>4, SizesKept

(* The daemon serves a RESIZE: the PTY's new size follows on the wire. *)
LEMMA SizesServed ==
    ASSUME Bounded, Sizes, Geometry, DaemonResizes
    PROVE  Geometry'
<1> USE DEF mainVars, fdVars, gridVars, coreVars, drainVars, streamVars,
            daemonVars
<1> DEFINE Z == Attaches(conn)
           g == Head(asked)
           x == SizeOf(g, FALSE, conn)
           o == <<x>>
<1>0. /\ asked \in Seq(Grid) /\ asked # <<>> /\ asked' = Tail(asked)
      /\ ptyGrid' = g /\ g \in Grid /\ ptyGrid \in Grid
      /\ onWire' = IF peer /\ g # ptyGrid THEN Append(onWire, x) ELSE onWire
      /\ UNCHANGED <<session, stopped, attached, blocks, layoutGrid, conn,
                     peer, gridVars, crossed>>
  BY DEF Sizes, DaemonResizes
<1>1. /\ conn \in Nat /\ blocks \in Seq(Item) /\ onWire \in Seq(Item)
      /\ Queue \in Seq(Item)
  BY QueuesAreItems DEF Bounded
<1>2. /\ x \in Item /\ x.kind = "SIZE" /\ x.grid = g
      /\ o \in Seq(Item)
  BY <1>0, <1>1 DEF SizeOf, Item, Kind
<1>3. /\ x \in SizeFrames /\ x \notin Z /\ x \notin Resizes
  BY <1>2 DEF SizeFrames, Attaches, Resizes
<1>4. /\ Has(o, SizeFrames) /\ ~Has(o, Z) /\ ~Has(o, Resizes) /\ Behind(o, Z, Z)
      /\ \A d : Latest(o, SizeFrames, d, g)
  <2>1. \A A : Has(o, A) <=> x \in A
    BY <1>2, OneItem
  <2>2. Behind(o, Z, Z)
    BY <1>2, OneItem
  <2>3. \A d : Latest(o, SizeFrames, d, g)
    BY <1>2, <1>3, OneItem
  <2> QED
    BY <1>3, <2>1, <2>2, <2>3
<1> HIDE DEF x, o, Z
<1>5. Append(onWire, x) = onWire \o o /\ Append(Queue, x) = Queue \o o
  BY <1>1, <1>2, AppendIsConcat DEF o
<1>6. Laid'
  <2>1. ~Has(onWire, Resizes) /\ ~Has(onWire \o o, Resizes)
    BY <1>1, <1>2, <1>4, HasConcat DEF Geometry, Laid
  <2> QED
    BY <1>0, <1>5, <2>1 DEF Geometry, Laid
<1>7. CASE ~peer
  BY <1>0, <1>6, <1>7, NoPeer
<1>8. CASE peer
  <2>0. /\ Held /\ Told /\ Once /\ Unasked /\ Requested
    BY DEF Geometry
  <2>1. \/ g # ptyGrid /\ Queue' = Queue \o o
        \/ g = ptyGrid /\ Queue' = Queue
    <3>1. CASE g # ptyGrid
      <4>1. onWire' = Append(onWire, x)
        BY <1>0, <1>8, <3>1
      <4> QED
        BY <1>0, <1>2, <1>5, <3>1, <4>1, WirePut
    <3>2. CASE g = ptyGrid
      BY <1>0, <3>2 DEF Queue
    <3> QED
      BY <3>1, <3>2
  <2>2. Told'
    <3>1. CASE g # ptyGrid /\ Queue' = Queue \o o
      <4>1. Latest(Queue \o o, SizeFrames, streamGrid, g)
        BY <1>1, <1>2, <1>4, LatestConcat
      <4> QED
        BY <1>0, <3>1, <4>1 DEF Told
    <3>2. CASE g = ptyGrid /\ Queue' = Queue
      BY <1>0, <2>0, <3>2 DEF Told
    <3> QED
      BY <2>1, <3>1, <3>2
  <2>3. /\ Has(Queue', Z) <=> Has(Queue, Z)
        /\ Behind(Queue, Z, Z) => Behind(Queue', Z, Z)
    <3>1. /\ Has(Queue \o o, Z) <=> Has(Queue, Z)
          /\ Behind(Queue, Z, Z) => Behind(Queue \o o, Z, Z)
      BY <1>1, <1>2, <1>4, HasConcat, BehindConcat
    <3> QED
      BY <2>1, <3>1
  <2>4. Held'
    BY <1>0, <2>0 DEF Held
  <2>5. Once'
    BY <1>0, <2>0, <2>3 DEF Once, Z
  <2>6. Unasked'
    BY <1>0, <1>8, <2>0, <2>3 DEF Unasked, Z
  <2>7. Requested'
    <3> SUFFICES ASSUME ~crossed, attached = conn
                 PROVE  Newest' = requestedGrid /\ Catches'
      BY <1>0 DEF Requested
    <3>1. Newest = requestedGrid /\ Catches
      BY <1>8, <2>0 DEF Requested
    <3>2. Newest' = Newest
      <4>1. Newest = asked[Len(asked)]
        BY <1>0 DEF Newest
      <4>2. CASE Tail(asked) = <<>>
        <5>1. Len(asked) = 1
          <6>1. Len(Tail(asked)) = Len(asked) - 1 /\ Len(asked) \in Nat
            BY <1>0
          <6>2. Len(<<>>) = 0
            OBVIOUS
          <6>3. Len(Tail(asked)) = Len(<<>>)
            BY <4>2, Zenon
          <6> QED
            BY <6>1, <6>2, <6>3
        <5> QED
          BY <1>0, <4>1, <4>2, <5>1 DEF Newest
      <4>3. CASE Tail(asked) # <<>>
        <5>1. /\ Len(Tail(asked)) = Len(asked) - 1 /\ Len(asked) - 1 \in Nat
              /\ Len(asked) - 1 # 0
              /\ \A i \in 1 .. Len(asked) - 1 : Tail(asked)[i] = asked[i + 1]
          BY <1>0, <4>3
        <5>2. Tail(asked)[Len(asked) - 1] = asked[Len(asked)]
          BY <1>0, <5>1
        <5> QED
          BY <1>0, <4>1, <4>3, <5>1, <5>2 DEF Newest
      <4> QED
        BY <4>2, <4>3
    <3>3. Catches'
      <4>1. CASE g # ptyGrid /\ Queue' = Queue \o o
        <5>1. Has(Queue \o o, SizeFrames)
          BY <1>1, <1>2, <1>4, HasConcat
        <5> QED
          BY <4>1, <5>1 DEF Catches
      <4>2. CASE g = ptyGrid /\ Queue' = Queue
        BY <1>0, <3>1, <4>2 DEF Catches
      <4> QED
        BY <2>1, <4>1, <4>2
    <3> QED
      BY <3>1, <3>2, <3>3
  <2> QED
    BY <1>6, <2>2, <2>4, <2>5, <2>6, <2>7 DEF Geometry
<1> QED
  BY <1>7, <1>8

(* A connection is lost, or ends behind EXITED. *)
LEMMA SizesEnd ==
    ASSUME Bounded, Geometry,
           \/ \E i \in 0 .. Len(onWire) : onWire' = SubSeq(onWire, 1, i)
           \/ onWire' = onWire
           \/ onWire' = Append(onWire, Marker("EXITED", conn)),
           UNCHANGED <<blocks, attached, layoutGrid, requestedGrid>>,
           ~peer'
    PROVE  Geometry'
<1>1. conn \in Nat /\ onWire \in Seq(Item) /\ ~Has(onWire, Resizes)
  BY QueuesAreItems DEF Bounded, Geometry, Laid
<1>2. ASSUME NEW i \in 0 .. Len(onWire), onWire' = SubSeq(onWire, 1, i)
      PROVE  ~Has(onWire', Resizes)
  <2>1. /\ DOMAIN onWire' = 1 .. i /\ DOMAIN onWire = 1 .. Len(onWire)
        /\ \A j \in 1 .. i : onWire'[j] = onWire[j]
    BY <1>1, <1>2
  <2> QED
    BY <1>1, <2>1 DEF Has
<1>3. ASSUME onWire' = Append(onWire, Marker("EXITED", conn))
      PROVE  ~Has(onWire', Resizes)
  <2> DEFINE x == Marker("EXITED", conn)
  <2>1. x \in Item /\ x \notin Resizes
    BY <1>1 DEF Marker, Item, Kind, Resizes
  <2> HIDE DEF x
  <2>2. ~Has(Append(onWire, x), Resizes)
    BY <1>1, <2>1, HasAppend
  <2> QED
    BY <1>3, <2>2 DEF x
<1>4. ~Has(onWire', Resizes)
  BY <1>1, <1>2, <1>3
<1>5. Laid'
  BY <1>4 DEF Geometry, Laid
<1> QED
  BY <1>5, NoPeer

(* A connection is opened: the PTY's size comes, and one ATTACHED. *)
LEMMA SizesOpened ==
    ASSUME Bounded, Counters, Sizes, Geometry, onWire = <<>>, OpenConnects
    PROVE  Geometry'
<1> USE DEF mainVars, fdVars, gridVars, coreVars, drainVars, streamVars,
            daemonVars
<1> DEFINE Z == Attaches(conn + 1)
           x == SizeOf(ptyGrid, TRUE, conn + 1)
           y == Chunk("SNAPSHOT", frames + 1, conn + 1)
           z == Marker("ATTACHED", conn + 1)
           o == <<x, y, z>>
<1>0. /\ conn' = conn + 1 /\ peer' /\ ~stopped' /\ onWire' = o
      /\ crossed' = (asked # <<>>)
      /\ UNCHANGED <<session, attached, blocks, layoutGrid, gridVars, asked,
                     ptyGrid>>
  BY DEF OpenConnects
<1>1. /\ conn \in Nat /\ frames \in Nat /\ blocks \in Seq(Item)
      /\ blocks \in Seq(Queued) /\ attached \in 0 .. conn /\ ptyGrid \in Grid
  BY QueuesAreItems DEF Bounded, Counters, Sizes
<1>2. conn + 1 > 0 /\ attached # conn + 1 /\ conn + 1 \in Nat
  BY <1>1
<1>3. /\ x \in Item /\ x.kind = "SIZE" /\ x.grid = ptyGrid
      /\ y \in Item /\ y.kind = "SNAPSHOT"
      /\ z \in Item /\ z.kind = "ATTACHED" /\ z.conn = conn + 1
  BY <1>1 DEF SizeOf, Chunk, Marker, Item, Kind
<1> HIDE DEF x, y, z
<1>4. /\ x \in SizeFrames /\ x \notin Z /\ x \notin Resizes
      /\ y \notin SizeFrames /\ y \notin Z /\ y \notin Resizes
      /\ z \notin SizeFrames /\ z \notin Resizes
  BY <1>3 DEF SizeFrames, Attaches, Resizes
<1>5. /\ o \in Seq(Item) /\ DOMAIN o = 1 .. 3
      /\ o[1] = x /\ o[2] = y /\ o[3] = z
  BY <1>3
<1> HIDE DEF o
<1>6. ~Has(blocks, Z)
  <2>1. ASSUME NEW i \in DOMAIN blocks PROVE blocks[i].conn # conn + 1
    <3>1. blocks[i] \in Queued
      BY <1>1, <2>1
    <3>2. blocks[i].conn \in Nat /\ blocks[i].conn <= conn
      BY <3>1 DEF Queued, Items, Item
    <3> QED
      BY <1>1, <3>2
  <2> QED
    BY <2>1 DEF Has, Attaches
<1> HIDE DEF Z
<1>7. /\ Has(o, SizeFrames) /\ ~Has(o, Resizes)
      /\ Latest(o, SizeFrames, streamGrid, ptyGrid)
      /\ Behind(o, Z, Z) /\ Behind(o, Z, SizeFrames)
  <2>1. 1 \in DOMAIN o /\ \A j \in DOMAIN o : j > 1 => o[j] \notin SizeFrames
    BY <1>4, <1>5
  <2>2. /\ Has(o, SizeFrames) /\ Latest(o, SizeFrames, streamGrid, ptyGrid)
    BY <1>3, <1>4, <1>5, <2>1 DEF Has, Latest
  <2>3. \A i \in DOMAIN o : o[i] \notin Resizes /\ (o[i] \in Z => i = 3)
    BY <1>4, <1>5
  <2>4. \A i, j \in DOMAIN o : i < j => ~(i = 3)
    BY <1>5
  <2> QED
    BY <2>2, <2>3, <2>4 DEF Has, Behind
<1>8. Queue' = blocks \o o
  BY <1>0 DEF Queue
<1>9. /\ Latest(blocks \o o, SizeFrames, streamGrid, ptyGrid)
      /\ Behind(blocks \o o, Z, Z) /\ Behind(blocks \o o, Z, SizeFrames)
  <2>1. Latest(blocks \o o, SizeFrames, streamGrid, ptyGrid)
    BY <1>1, <1>5, <1>7, LatestConcat
  <2>2. Behind(blocks, Z, Z) /\ Behind(blocks, Z, SizeFrames)
    BY <1>6 DEF Has, Behind
  <2>3. /\ Behind(blocks \o o, Z, Z) <=>
               Behind(blocks, Z, Z) /\ Behind(o, Z, Z)
               /\ ~(Has(blocks, Z) /\ Has(o, Z))
        /\ Behind(blocks \o o, Z, SizeFrames) <=>
               Behind(blocks, Z, SizeFrames) /\ Behind(o, Z, SizeFrames)
               /\ ~(Has(blocks, Z) /\ Has(o, SizeFrames))
    BY <1>1, <1>5, BehindConcat
  <2> QED
    BY <1>6, <1>7, <2>1, <2>2, <2>3
<1>10. Z = Attaches(conn')
  BY <1>0 DEF Z
<1>11. Held'
  BY <1>0, <1>2, <1>6, <1>10 DEF Held
<1>12. Laid'
  BY <1>0, <1>7 DEF Geometry, Laid
<1>13. Told'
  BY <1>0, <1>8, <1>9 DEF Told
<1>14. Once'
  BY <1>0, <1>2, <1>8, <1>9, <1>10 DEF Once
<1>15. Unasked'
  BY <1>0, <1>8, <1>9, <1>10 DEF Unasked
<1>16. Requested'
  BY <1>0, <1>2 DEF Requested
<1> QED
  BY <1>11, <1>12, <1>13, <1>14, <1>15, <1>16 DEF Geometry

(* What the stream queue asks the daemon for is on its way, unless it was  *)
(* asked on behalf of another connection.                                  *)
LEMMA AskedFor ==
    ASSUME Geometry, Bounded, peer => fdOpen, peer, NEW g, NEW c, Sends(g, c)
    PROVE  /\ ~stopped'
           /\ \/ session /\ asked' = Append(asked, g)
                         /\ crossed' = (crossed \/ c # conn)
              \/ ~session /\ UNCHANGED <<asked, crossed>>
<1>1. ~stopped
  BY DEF Geometry, Held
<1>2. CASE session
  BY <1>1, <1>2 DEF Sends
<1>3. CASE ~session
  BY <1>1, <1>3 DEF Sends
<1> QED
  BY <1>2, <1>3

(* A SIZE runs. *)
LEMMA SizesRun ==
    ASSUME Bounded, Geometry, ReceiveSize
    PROVE  Geometry'
<1> USE DEF mainVars, fdVars, gridVars, coreVars, drainVars, streamVars,
            daemonVars
<1> DEFINE h == Head(blocks)
           k == Block("drain", NoGrid)
           Z == Attaches(conn)
<1>0. /\ blocks # <<>> /\ h.kind = "SIZE" /\ blocks' = Tail(blocks)
      /\ streamGrid' = h.grid /\ installedGrid' = h.grid
      /\ UNCHANGED <<session, stopped, attached, requestedGrid, layoutGrid,
                     onWire, conn, peer, asked, crossed, ptyGrid>>
  BY DEF ReceiveSize, HeadIs
<1>1. blocks \in Seq(Item) /\ h \in Item
  BY <1>0, QueuesAreItems
<1>2. /\ h \in SizeFrames /\ h \notin Z /\ h \notin Resizes
      /\ k \notin SizeFrames /\ k \notin Z /\ k \notin Resizes
  BY <1>0, <1>1 DEF SizeFrames, Attaches, Resizes, Block
<1> HIDE DEF h, k, Z
<1>3. /\ Has(Queue', Z) <=> Has(Queue, Z)
      /\ Behind(Queue, Z, Z) => Behind(Queue', Z, Z)
      /\ Has(blocks', Z) <=> Has(blocks, Z)
  BY <1>0, <1>2, HeadOff DEF h, k
<1>4. Behind(Queue, Z, SizeFrames) => Behind(Queue', Z, SizeFrames)
  BY <1>0, <1>2, HeadOff DEF h, k
<1>5. Latest(Queue, SizeFrames, streamGrid, ptyGrid)
          => Latest(Queue', SizeFrames, h.grid, ptyGrid)
  BY <1>0, <1>2, HeadOff DEF h, k
<1>6. \A d : Latest(blocks, Resizes, d, layoutGrid)
                 => Latest(blocks', Resizes, d, layoutGrid)
  BY <1>0, <1>2, HeadOff DEF h, k
<1>7. /\ Held /\ Laid /\ Told /\ Once /\ Unasked /\ Requested
      /\ Z' = Z
  BY <1>0 DEF Geometry, Z
<1>8. Held'
  BY <1>0, <1>3, <1>7 DEF Held, Z
<1>9. Laid'
  BY <1>0, <1>6, <1>7 DEF Laid
<1>10. Told'
  BY <1>0, <1>5, <1>7 DEF Told
<1>11. Once'
  BY <1>0, <1>3, <1>7 DEF Once, Z
<1>12. Unasked'
  BY <1>0, <1>3, <1>4, <1>7 DEF Unasked, Z
<1>13. Requested'
  <2>1. Newest' = Newest /\ Catches'
    BY <1>0 DEF Newest, Catches
  <2> QED
    BY <1>0, <1>7, <2>1 DEF Requested
<1> QED
  BY <1>8, <1>9, <1>10, <1>11, <1>12, <1>13 DEF Geometry

(* A layout's block runs. *)
LEMMA SizesAsked ==
    ASSUME Bounded, Sizes, Geometry, peer => fdOpen, RunResize
    PROVE  Geometry'
<1> USE DEF mainVars, fdVars, gridVars, coreVars, drainVars, streamVars,
            daemonVars
<1> DEFINE h == Head(blocks)
           k == Block("drain", NoGrid)
           Z == Attaches(conn)
<1>0. /\ blocks # <<>> /\ h.kind = "resize" /\ blocks' = Tail(blocks)
      /\ UNCHANGED <<session, attached, streamGrid, installedGrid, layoutGrid,
                     onWire, conn, peer, ptyGrid>>
  BY DEF RunResize, HeadIs
<1>1. blocks \in Seq(Item) /\ h \in Item
  BY <1>0, QueuesAreItems
<1>2. CASE ~(attached # 0 /\ h.grid # requestedGrid)
  <2>1. UNCHANGED <<requestedGrid, stopped, asked, crossed>>
    BY <1>2 DEF RunResize
  <2> QED
    BY <1>0, <1>2, <2>1, SizesPassed
<1>3. CASE attached # 0 /\ h.grid # requestedGrid
  <2>1. requestedGrid' = h.grid /\ Sends(h.grid, attached)
    BY <1>3 DEF RunResize
  <2>2. /\ h \in Resizes /\ h \notin SizeFrames /\ h \notin Z
        /\ k \notin SizeFrames /\ k \notin Z /\ k \notin Resizes
    BY <1>0, <1>1 DEF SizeFrames, Attaches, Resizes, Block
  <2> HIDE DEF h, k, Z
  <2>3. /\ Has(Queue', Z) <=> Has(Queue, Z)
        /\ Behind(Queue, Z, Z) => Behind(Queue', Z, Z)
        /\ Has(blocks', Z) <=> Has(blocks, Z)
    BY <1>0, <2>2, HeadOff DEF h, k
  <2>4. /\ Behind(Queue, Z, SizeFrames) => Behind(Queue', Z, SizeFrames)
    BY <1>0, <2>2, HeadOff DEF h, k
  <2>5. /\ Has(Queue', SizeFrames) <=> Has(Queue, SizeFrames)
        /\ Latest(Queue, SizeFrames, streamGrid, ptyGrid)
               => Latest(Queue', SizeFrames, streamGrid, ptyGrid)
    BY <1>0, <2>2, HeadOff DEF h, k
  <2>6. /\ Held /\ Laid /\ Told /\ Once /\ Unasked /\ Requested
        /\ Z' = Z
    BY <1>0 DEF Geometry, Z
  <2>7. Laid'
    <3>1. Latest(blocks', Resizes, h.grid, layoutGrid)
      BY <1>0, <2>2, <2>6, HeadOff DEF Laid, h, k
    <3> QED
      BY <1>0, <1>3, <2>1, <2>6, <3>1 DEF Laid
  <2>8. CASE ~peer
    BY <1>0, <2>7, <2>8, NoPeer
  <2>9. CASE peer
    <3>1. /\ ~stopped'
          /\ \/ session /\ asked' = Append(asked, h.grid)
                        /\ crossed' = (crossed \/ attached # conn)
             \/ ~session /\ UNCHANGED <<asked, crossed>>
      BY <2>1, <2>9, AskedFor
    <3>2. Held'
      BY <1>0, <2>3, <2>6, <3>1 DEF Held, Z
    <3>3. Told'
      BY <1>0, <2>5, <2>6 DEF Told
    <3>4. Once'
      BY <1>0, <2>3, <2>6 DEF Once, Z
    <3>5. Unasked'
      <4> SUFFICES ASSUME ~crossed', Has(Queue', Z)
                   PROVE  asked' = <<>> /\ Behind(Queue', Z, SizeFrames)
        BY <2>6 DEF Unasked, Z
      <4>1. Has(Queue, Z) /\ attached # conn
        BY <2>3, <2>6, <2>9 DEF Once, Z
      <4>2. UNCHANGED <<asked, crossed>>
        BY <3>1, <4>1
      <4> QED
        BY <2>4, <2>6, <2>9, <4>1, <4>2 DEF Unasked, Z
    <3>6. Requested'
      <4> SUFFICES ASSUME ~crossed', attached = conn
                   PROVE  Newest' = h.grid /\ Catches'
        BY <1>0, <2>1 DEF Requested
      <4>1. session
        BY <2>6, <2>9 DEF Held
      <4>2. asked' = Append(asked, h.grid) /\ ~crossed
        BY <3>1, <4>1
      <4>3. Newest = requestedGrid /\ Catches
        BY <2>6, <2>9, <4>2 DEF Requested
      <4>4. asked \in Seq(Grid) /\ h.grid \in Grid
        <5>1. h.grid \in Grid
          BY <1>0, HeadOfQueue DEF h
        <5> QED
          BY <5>1 DEF Sizes
      <4>5. /\ asked' # <<>> /\ asked'[Len(asked')] = h.grid
            /\ asked # <<>> => Head(asked') = Head(asked)
            /\ asked = <<>> => Head(asked') = h.grid
        BY <4>2, <4>4
      <4>6. Newest' = h.grid
        BY <4>5 DEF Newest
      <4>7. Catches'
        <5>1. CASE asked = <<>>
          <6>1. Head(asked') # ptyGrid
            BY <1>3, <4>3, <4>5, <5>1 DEF Newest
          <6> QED
            BY <1>0, <4>5, <6>1 DEF Catches
        <5>2. CASE asked # <<>>
          BY <1>0, <2>5, <4>3, <4>5, <5>2 DEF Catches
        <5> QED
          BY <5>1, <5>2
      <4> QED
        BY <4>6, <4>7
    <3> QED
      BY <2>7, <3>2, <3>3, <3>4, <3>5, <3>6 DEF Geometry
  <2> QED
    BY <2>8, <2>9
<1> QED
  BY <1>2, <1>3

(* ATTACHED runs: the replay's sizes are behind it, and none of its own    *)
(* connection's was asked for yet.                                         *)
LEMMA SizesAttached ==
    ASSUME Bounded, Sizes, Geometry, peer => fdOpen, ReceiveAttached
    PROVE  Geometry'
<1> USE DEF mainVars, fdVars, gridVars, coreVars, drainVars, streamVars,
            daemonVars
<1> DEFINE h == Head(blocks)
           k == Block("drain", NoGrid)
           Z == Attaches(conn)
<1>0. /\ blocks # <<>> /\ h.kind = "ATTACHED" /\ blocks' = Tail(blocks)
      /\ attached' = h.conn
      /\ requestedGrid' = layoutGrid /\ installedGrid' = layoutGrid
      /\ IF layoutGrid # streamGrid THEN Sends(layoutGrid, h.conn)
         ELSE UNCHANGED <<stopped, asked, crossed>>
      /\ UNCHANGED <<session, streamGrid, layoutGrid, onWire, conn, peer,
                     ptyGrid>>
  BY DEF ReceiveAttached, HeadIs
<1>1. blocks \in Seq(Item) /\ h \in Item
  BY <1>0, QueuesAreItems
<1>2. /\ h \notin Resizes /\ h \notin SizeFrames /\ (h \in Z <=> h.conn = conn)
      /\ k \notin SizeFrames /\ k \notin Z /\ k \notin Resizes
  BY <1>0, <1>1 DEF SizeFrames, Attaches, Resizes, Block
<1> HIDE DEF h, k, Z
<1>3. /\ Has(Queue, Z) <=> h \in Z \/ Has(Queue', Z)
      /\ Behind(Queue, Z, Z) => Behind(Queue', Z, Z)
                                /\ (h \in Z => ~Has(Queue', Z))
      /\ Has(blocks, Z) <=> h \in Z \/ Has(blocks', Z)
  BY <1>0, <1>2, HeadOff DEF h, k
<1>4. Behind(Queue, Z, SizeFrames) => Behind(Queue', Z, SizeFrames)
                                      /\ (h \in Z => ~Has(Queue', SizeFrames))
  BY <1>0, <1>2, HeadOff DEF h, k
<1>5. /\ Has(Queue', SizeFrames) <=> Has(Queue, SizeFrames)
      /\ Latest(Queue, SizeFrames, streamGrid, ptyGrid)
             => Latest(Queue', SizeFrames, streamGrid, ptyGrid)
  BY <1>0, <1>2, HeadOff DEF h, k
<1>6. /\ Held /\ Laid /\ Told /\ Once /\ Unasked /\ Requested
      /\ Z' = Z
  BY <1>0 DEF Geometry, Z
<1>7. Laid'
  <2> DEFINE d == IF attached = 0 THEN layoutGrid ELSE requestedGrid
  <2>1. Latest(blocks', Resizes, d, layoutGrid)
    BY <1>0, <1>2, <1>6, HeadOff DEF Laid, h, k
  <2>2. Latest(blocks', Resizes, layoutGrid, layoutGrid)
    BY <2>1, LatestOf
  <2> QED
    BY <1>0, <1>6, <2>2 DEF Laid
<1>8. CASE ~peer
  BY <1>0, <1>7, <1>8, NoPeer
<1>9. CASE peer
  <2>1. /\ ~stopped'
        /\ \/ /\ session /\ asked' = Append(asked, layoutGrid)
              /\ layoutGrid # streamGrid
              /\ crossed' = (crossed \/ h.conn # conn)
           \/ /\ ~session \/ layoutGrid = streamGrid
              /\ UNCHANGED <<asked, crossed>>
    <3>1. CASE layoutGrid # streamGrid
      <4>1. Sends(layoutGrid, h.conn)
        BY <1>0, <3>1
      <4> QED
        BY <1>9, <3>1, <4>1, AskedFor
    <3>2. CASE layoutGrid = streamGrid
      BY <1>0, <1>6, <1>9, <3>2 DEF Held
    <3> QED
      BY <3>1, <3>2
  <2>2. Held'
    BY <1>0, <1>2, <1>3, <1>6, <2>1 DEF Held, Z
  <2>3. Told'
    BY <1>0, <1>5, <1>6 DEF Told
  <2>4. Once'
    BY <1>0, <1>2, <1>3, <1>6, <1>9 DEF Once, Z
  <2>5. Unasked'
    <3> SUFFICES ASSUME ~crossed', Has(Queue', Z)
                 PROVE  asked' = <<>> /\ Behind(Queue', Z, SizeFrames)
      BY <1>6 DEF Unasked, Z
    <3>1. Has(Queue, Z) /\ h.conn # conn
      BY <1>2, <1>3, <1>6, <1>9 DEF Once, Z
    <3>2. UNCHANGED <<asked, crossed>>
      BY <2>1, <3>1
    <3> QED
      BY <1>4, <1>6, <1>9, <3>1, <3>2 DEF Unasked, Z
  <2>6. Requested'
    <3> SUFFICES ASSUME ~crossed', h.conn = conn
                 PROVE  Newest' = layoutGrid /\ Catches'
      BY <1>0 DEF Requested
    <3>1. h \in Z /\ session
      BY <1>2, <1>3, <1>6, <1>9 DEF Held, Z
    <3>2. ~crossed
      BY <2>1
    <3>3. asked = <<>> /\ ~Has(Queue', SizeFrames)
      BY <1>3, <1>4, <1>6, <1>9, <3>1, <3>2 DEF Unasked, Z
    <3>4. streamGrid = ptyGrid
      BY <1>5, <1>6, <1>9, <3>3, LatestOf DEF Told
    <3>5. CASE layoutGrid = streamGrid
      <4>1. asked' = <<>>
        BY <2>1, <3>3, <3>5
      <4> QED
        BY <1>0, <3>4, <3>5, <4>1 DEF Newest, Catches
    <3>6. CASE layoutGrid # streamGrid
      <4>1. asked' = <<layoutGrid>>
        BY <2>1, <3>1, <3>3, <3>6
      <4>2. /\ asked' # <<>> /\ Head(asked') = layoutGrid
            /\ asked'[Len(asked')] = layoutGrid
        BY <4>1
      <4> QED
        BY <1>0, <3>4, <3>6, <4>2 DEF Newest, Catches
    <3> QED
      BY <3>5, <3>6
  <2> QED
    BY <1>7, <2>2, <2>3, <2>4, <2>5, <2>6 DEF Geometry
<1> QED
  BY <1>8, <1>9

-----------------------------------------------------------------------------
(* A host that is retired has no session, *)
SizesInv == IF retired THEN ~session ELSE Geometry

(* and gets none. *)
LEMMA SessionStep ==
    ASSUME retired => ~session, [ClientNext]_clientVars
    PROVE  retired' => ~session'
<1> USE DEF mainVars, fdVars, gridVars, coreVars, drainVars, streamVars,
            daemonVars
<1>1. ASSUME NEW g \in Grid, LayoutChanges(g) PROVE retired' => ~session'
  BY <1>1 DEF LayoutChanges
<1>2. CASE LayoutAgain
  BY <1>2 DEF LayoutAgain
<1>3. CASE RetryStarts
  BY <1>3 DEF RetryStarts
<1>4. CASE OpenConnects
  BY <1>4 DEF OpenConnects
<1>5. CASE OpenFails
  BY <1>5 DEF OpenFails
<1>6. CASE OpenReturns
  BY <1>6 DEF OpenReturns
<1>7. CASE UserRetires
  BY <1>7 DEF UserRetires, Retires
<1>8. CASE MainHearsGone
  BY <1>8 DEF MainHearsGone
<1>9. CASE MainHearsExit
  BY <1>9 DEF MainHearsExit, Retires
<1>10. CASE ReaderDelivers
  BY <1>10 DEF ReaderDelivers
<1>11. CASE ReaderEnds
  BY <1>11 DEF ReaderEnds
<1>12. CASE UserTypes
  BY <1>12 DEF UserTypes
<1>13. CASE RunGate
  BY <1>13 DEF RunGate
<1>14. CASE RunLost
  BY <1>14 DEF RunLost
<1>15. CASE RunResize
  BY <1>15 DEF RunResize
<1>16. CASE ReceiveSize
  BY <1>16 DEF ReceiveSize
<1>17. CASE ReceiveSnapshot
  BY <1>17 DEF ReceiveSnapshot
<1>18. CASE ReceiveOutput
  BY <1>18 DEF ReceiveOutput
<1>19. CASE ReceiveAttached
  BY <1>19 DEF ReceiveAttached
<1>20. CASE ReceiveExited
  BY <1>20 DEF ReceiveExited
<1>21. CASE RunDrain
  BY <1>21 DEF RunDrain
<1>22. CASE HoldPasses
  BY <1>22 DEF HoldPasses
<1>23. CASE DrainReturns
  BY <1>23 DEF DrainReturns
<1>24. CASE DaemonOutputs
  BY <1>24 DEF DaemonOutputs
<1>25. CASE DaemonResizes
  BY <1>25 DEF DaemonResizes
<1>26. CASE ChildExits
  BY <1>26 DEF ChildExits
<1>27. CASE ConnBreaks
  BY <1>27 DEF ConnBreaks
<1>28. CASE LinkReturns
  BY <1>28 DEF LinkReturns
<1>29. CASE UNCHANGED clientVars
  BY <1>29 DEF clientVars
<1> QED
  BY <1>1, <1>2, <1>3, <1>4, <1>5, <1>6, <1>7, <1>8, <1>9, <1>10, <1>11, <1>12,
     <1>13, <1>14, <1>15, <1>16, <1>17, <1>18, <1>19, <1>20, <1>21, <1>22,
     <1>23, <1>24, <1>25, <1>26, <1>27, <1>28, <1>29
     DEF ClientNext, MainRuns, StreamRuns, ReaderRuns, ClientUser, ClientWorld

(* Every step keeps the sizes. *)
LEMMA GeometryStep ==
    ASSUME TypeInv, Turns, Wired, Geometry, ~retired, ~retired',
           [ClientNext]_clientVars
    PROVE  Geometry'
<1> USE DEF mainVars, fdVars, gridVars, coreVars, drainVars, streamVars,
            daemonVars
<1>0. /\ Bounded /\ Sizes /\ Counters /\ Turns /\ Wired /\ Geometry
      /\ conn \in Nat /\ ~retired /\ ~retired'
      /\ peer => fdOpen
  BY DEF TypeInv, Bounded, Wired
<1>1. ASSUME NEW g \in Grid, LayoutChanges(g) PROVE Geometry'
  BY <1>1, <1>0, SizesLaidOut DEF LayoutChanges
<1>2. CASE LayoutAgain
  <2>1. layoutGrid \in Grid
    BY <1>2, <1>0 DEF LayoutAgain, Sizes
  <2> QED
    BY <1>2, <1>0, <2>1, SizesLaidOut DEF LayoutAgain
<1>3. CASE RetryStarts
  <2>1. layoutGrid \in Grid
    BY <1>3, <1>0 DEF RetryStarts, Sizes, LaidOut
  <2> QED
    BY <1>3, <1>0, <2>1, SizesStarted DEF RetryStarts
<1>4. CASE OpenConnects
  <2>1. onWire = <<>>
    BY <1>4, <1>0 DEF OpenConnects, Turns, Wired
  <2> QED
    BY <1>4, <1>0, <2>1, SizesOpened
<1>5. CASE OpenFails
  BY <1>5, <1>0, SizesAlone DEF OpenFails
<1>6. CASE OpenReturns
  <2>1. peer' => (session => session') /\ (stopped' => stopped)
    BY <1>6, <1>0 DEF OpenReturns
  <2>2. UNCHANGED <<blocks, onWire, attached, layoutGrid, conn, peer, gridVars,
                    asked, crossed, ptyGrid>>
    BY <1>6, <1>0 DEF OpenReturns
  <2> QED
    BY <1>0, <2>1, <2>2, SizesAlone
<1>7. CASE UserRetires
  BY <1>7, <1>0 DEF UserRetires, Retires
<1>8. CASE MainHearsGone
  <2>1. ~peer
    <3>1. 1 \in DOMAIN mainQueue /\ mainQueue[1] = "gone"
      BY <1>8, <1>0 DEF MainHearsGone, Counters
    <3>2. session /\ reader = "done"
      BY <1>0, <3>1 DEF Turns
    <3> QED
      BY <1>0, <3>2 DEF Turns, Wired
  <2>2. /\ Block("lost", NoGrid) \in Item
        /\ Block("lost", NoGrid).kind = "lost"
    BY <1>0 DEF Block, Item, Kind
  <2> QED
    BY <1>8, <1>0, <2>1, <2>2, SizesQueued DEF MainHearsGone
<1>9. CASE MainHearsExit
  BY <1>9, <1>0 DEF MainHearsExit, Retires
<1>10. CASE ReaderDelivers
  <2>1. session
    BY <1>10, <1>0 DEF ReaderDelivers, Turns
  <2> QED
    BY <1>10, <1>0, <2>1, SizesRead DEF ReaderDelivers
<1>11. CASE ReaderEnds
  BY <1>11, <1>0, SizesAlone DEF ReaderEnds
<1>12. CASE UserTypes
  BY <1>12, <1>0, SizesAlone DEF UserTypes
<1>13. CASE RunGate
  BY <1>13, <1>0, SizesPassed DEF RunGate, HeadIs
<1>14. CASE RunLost
  BY <1>14, <1>0, SizesPassed DEF RunLost, HeadIs
<1>15. CASE RunResize
  BY <1>15, <1>0, SizesAsked
<1>16. CASE ReceiveSize
  BY <1>16, <1>0, SizesRun
<1>17. CASE ReceiveSnapshot
  BY <1>17, <1>0, SizesPassed DEF ReceiveSnapshot, HeadIs
<1>18. CASE ReceiveOutput
  BY <1>18, <1>0, SizesPassed DEF ReceiveOutput, HeadIs
<1>19. CASE ReceiveAttached
  BY <1>19, <1>0, SizesAttached
<1>20. CASE ReceiveExited
  BY <1>20, <1>0, SizesPassed DEF ReceiveExited, HeadIs
<1>21. CASE RunDrain
  BY <1>21, <1>0, SizesPassed DEF RunDrain, HeadIs
<1>22. CASE HoldPasses
  BY <1>22, <1>0, SizesAlone DEF HoldPasses
<1>23. CASE DrainReturns
  <2>1. /\ Block("drain", NoGrid) \in Item
        /\ Block("drain", NoGrid).kind = "drain"
    BY <1>0 DEF Block, Item, Kind
  <2> QED
    BY <1>23, <1>0, <2>1, SizesQueued DEF DrainReturns
<1>24. CASE DaemonOutputs
  <2>1. /\ Chunk("OUTPUT", frames + 1, conn) \in Item
        /\ Chunk("OUTPUT", frames + 1, conn).kind = "OUTPUT"
    BY <1>0 DEF Chunk, Item, Kind, Bounded
  <2> QED
    BY <1>24, <1>0, <2>1, SizesOutput DEF DaemonOutputs
<1>25. CASE DaemonResizes
  BY <1>25, <1>0, SizesServed
<1>26. CASE ChildExits
  BY <1>26, <1>0, SizesEnd DEF ChildExits
<1>27. CASE ConnBreaks
  BY <1>27, <1>0, SizesEnd DEF ConnBreaks
<1>28. CASE LinkReturns
  BY <1>28, <1>0, SizesAlone DEF LinkReturns
<1>29. CASE UNCHANGED clientVars
  BY <1>29, <1>0, SizesAlone DEF clientVars
<1> QED
  BY <1>1, <1>2, <1>3, <1>4, <1>5, <1>6, <1>7, <1>8, <1>9, <1>10, <1>11, <1>12,
     <1>13, <1>14, <1>15, <1>16, <1>17, <1>18, <1>19, <1>20, <1>21, <1>22,
     <1>23, <1>24, <1>25, <1>26, <1>27, <1>28, <1>29
     DEF ClientNext, MainRuns, StreamRuns, ReaderRuns, ClientUser, ClientWorld

(* In the beginning there is no connection, *)
LEMMA GeometryInit == ClientInit => SizesInv
<1> SUFFICES ASSUME ClientInit PROVE SizesInv
  OBVIOUS
<1>1. /\ ~retired /\ ~peer /\ blocks = <<>> /\ onWire = <<>> /\ attached = 0
  BY DEF ClientInit
<1>2. ~Has(<<>>, Resizes) /\ Latest(<<>>, Resizes, layoutGrid, layoutGrid)
  BY DEF Has, Latest
<1>3. Laid
  BY <1>1, <1>2 DEF Laid
<1> QED
  BY <1>1, <1>3 DEF SizesInv, Geometry, Held, Told, Once, Unasked, Requested

(* every step keeps what is said of the sizes, *)
LEMMA SizesInvStep ==
    ASSUME TypeInv, QuietInv, OrderInv, SizesInv, [ClientNext]_clientVars
    PROVE  SizesInv'
<1>1. (retired => retired') /\ (retired' => ~session')
  <2>1. retired => retired'
    BY RetiredStep DEF QuietInv
  <2>2. (retired => ~session) => (retired' => ~session')
    BY SessionStep
  <2> QED
    BY <2>1, <2>2 DEF SizesInv
<1>2. ASSUME ~retired, ~retired' PROVE Geometry'
  BY <1>2, GeometryStep DEF QuietInv, OrderInv, SizesInv
<1> QED
  BY <1>1, <1>2 DEF SizesInv

(* and when everything is delivered they are one. *)
LEMMA SizesMeet ==
    ASSUME SizesInv, Delivered, ~crossed
    PROVE  installedGrid = layoutGrid /\ ptyGrid = layoutGrid
<1>1. /\ session /\ peer /\ attached = conn /\ asked = <<>>
      /\ blocks = <<>> /\ onWire = <<>>
  BY DEF Delivered
<1>2. Held /\ Laid /\ Told /\ Requested
  BY <1>1 DEF SizesInv, Geometry
<1>3. conn > 0 /\ Queue = <<>>
  BY <1>1, <1>2, ConcatEmptySeq DEF Held, Queue
<1>4. \A A, d, g : ~Has(<<>>, A) /\ (Latest(<<>>, A, d, g) => d = g)
  BY DEF Has, Latest
<1>5. requestedGrid = layoutGrid
  <2>1. attached # 0
    BY <1>1, <1>3
  <2> QED
    BY <1>1, <1>2, <1>4, <2>1 DEF Laid
<1>6. streamGrid = ptyGrid
  BY <1>1, <1>2, <1>3, <1>4 DEF Told
<1>7. Newest = requestedGrid /\ Catches
  BY <1>1, <1>2 DEF Requested
<1>8. ptyGrid = requestedGrid /\ installedGrid = streamGrid
  BY <1>1, <1>3, <1>4, <1>7 DEF Newest, Catches
<1> QED
  BY <1>5, <1>6, <1>8

(***************************************************************************)
(* The sizes of TerminalViews.swift, for every number of connections,      *)
(* chunks, layouts and sizes: however layouts met attaches, replays and    *)
(* lost connections, when everything has been delivered the layout, the    *)
(* terminal core and the PTY have one size -- unless a RESIZE crossed the  *)
(* attach.                                                                 *)
(***************************************************************************)
THEOREM SizesAgree == ClientSpec => []GeometryAgrees
<1>1. ClientInit => QuietInv /\ OrderInv /\ SizesInv
  BY QuietInit, OrderInit, GeometryInit
<1>2. TypeInv /\ QuietInv /\ OrderInv /\ SizesInv /\ [ClientNext]_clientVars
          => (QuietInv /\ OrderInv /\ SizesInv)'
  BY QuietStep, OrderStep, SizesInvStep
<1>3. SizesInv => GeometryAgrees
  BY SizesMeet DEF GeometryAgrees
<1> QED
  BY <1>1, <1>2, <1>3, ClientTypeInvariant, PTL DEF ClientSpec
=============================================================================
