---------------------------- MODULE SessionPane ----------------------------
(***************************************************************************)
(* One pane of goty-sessiond and the connections that stream it            *)
(* (sessiond/src/pane.rs, stream_pane and write_output of main.rs).        *)
(*                                                                         *)
(* The threads are the pane's PTY reader, one server thread and one writer *)
(* thread per connection, and the thread that serves a registry KILL.      *)
(* Their shared state is PaneState behind its mutex (each action that      *)
(* touches it is one critical section), the child's mutex, the unbounded   *)
(* channel from the subscriber's sender to a writer, and the two           *)
(* directions of the connection's socket.  A connection is one ATTACH of   *)
(* one client and is used once; a client that reconnects is the next one.  *)
(***************************************************************************)
EXTENDS PaneRing

CONSTANTS
    Conn,           \* the connections that attach to the pane
    NoConn,         \* no subscriber
    InitialSize,    \* the geometry of the SPAWN request
    Replay,         \* SpawnRequest.replay
    RingInput,      \* SpawnRequest.ring_input
    Events,         \* what may befall the child: "exit", "hide", "kill"
    Text,           \* what a chunk says about bracketed paste
    MaxFrame,       \* MAX_FRAME, in bytes
    BatchCap,       \* BATCH_CAP of write_output, in bytes
    WireCap,        \* frames a socket buffers before a write blocks
    MaxOut,         \* bound: chunks the child writes
    ClientMoves,    \* what clients do: the frames they send, "READ", "CLOSE"
    MaxRequest      \* bound: frames the clients send

ASSUME PaneAssumption ==
    /\ NoConn \notin Conn
    /\ InitialSize \in Size
    /\ Replay \in BOOLEAN
    /\ RingInput \in BOOLEAN
    /\ Events \subseteq {"exit", "hide", "kill"}
    /\ Text \subseteq {"plain", "pasteOn", "pasteOff"}
    /\ MaxFrame \in Nat \ {0}
    /\ BatchCap \in Nat \ {0}
    /\ WireCap \in Nat \ {0}
    /\ ClientMoves \subseteq {"INPUT", "RESIZE", "DETACH", "KILL", "READ", "CLOSE"}
    /\ MaxOut \in Nat
    /\ MaxRequest \in Nat

VARIABLES
    \* PaneState, under state.lock()
    ring, paste, sub, epoch, alive,
    \* the child, its terminal and the reader thread
    child, killed, winsize, typed, rd, chunk, produced,
    \* one server thread, one writer thread and one socket per connection
    srv, arg, myEpoch, chan, wpc, batch, wire, shut, req, asked, cli, got,
    \* the thread that serves KILL from the registry
    killer,
    \* history: what was published, and each connection's share of it
    live, base, from, upto

paneVars == <<ring, paste, sub, epoch, alive>>
childVars == <<child, killed, winsize, typed, rd, chunk, produced>>
serverVars == <<srv, arg, myEpoch>>
writerVars == <<wpc, batch>>
clientVars == <<req, asked, cli, got>>
historyVars == <<live, base, from, upto>>
vars == <<ring, paste, sub, epoch, alive,
          child, killed, winsize, typed, rd, chunk, produced,
          srv, arg, myEpoch, chan, wpc, batch, wire, shut, req, asked, cli, got,
          killer, live, base, from, upto>>

-----------------------------------------------------------------------------
(* A byte of the stream: read from the PTY or rung as input, numbered in   *)
(* that order, with the stream geometry at the moment it was appended.     *)
Byte == [src : {"out", "in"}, id : Nat, text : {"plain", "pasteOn", "pasteOff"},
         geo : Size]

PaneFrame == Frame(Byte)

InputRequest(n) == [kind |-> "INPUT", size |-> NoSize, id |-> n]
ResizeRequest(s) == [kind |-> "RESIZE", size |-> s, id |-> 0]
PlainRequest(k) == [kind |-> k, size |-> NoSize, id |-> 0]

Request == [kind : {"RESIZE"}, size : Size, id : Nat]
           \cup [kind : {"INPUT", "DETACH", "KILL"}, size : {NoSize}, id : Nat]

NoRequest == PlainRequest("DETACH")

(* The reader's copy of a chunk, before the state lock gives it a place.   *)
Chunk == [id : Nat, text : {"plain", "pasteOn", "pasteOff"}]

(* Mutant: the geometry of the stream is not known yet. *)
SizeUnknown == NoSize

TailSize == Newest(ring).size

(* Mutant: another private mode is sent after the replay. *)
OtherModeByte == [src |-> "out", id |-> 0, text |-> "plain", geo |-> TailSize]

PasteOnByte == [src |-> "out", id |-> 0, text |-> "pasteOn", geo |-> TailSize]

(* The receiver lives from attach until the writer thread returns (or the  *)
(* server thread does without ever having spawned it).                     *)
Receiving(c) == /\ srv[c] \notin {"idle", "attach"}
                /\ wpc[c] # "done"

(* A connection that has attached, and may have left since. *)
Attached(c) == srv[c] \notin {"idle", "attach"}

(* Mutant: a bounded channel drops what does not fit. *)
PublishBounded(frame) ==
    /\ live' = Append(live, frame)
    /\ IF sub # NoConn /\ Receiving(sub) /\ Len(chan[sub]) < 2
       THEN /\ chan' = [chan EXCEPT ![sub] = Append(@, frame)]
            /\ upto' = [upto EXCEPT ![sub] = Len(live) + 1]
       ELSE UNCHANGED <<chan, upto>>
    /\ UNCHANGED sub

(* Mutant: the thread that sends cannot go on without a receiver. *)
PublishUnwraps(frame) ==
    /\ live' = Append(live, frame)
    /\ UNCHANGED sub
    /\ IF sub = NoConn
       THEN UNCHANGED <<chan, upto>>
       ELSE /\ Receiving(sub)
            /\ chan' = [chan EXCEPT ![sub] = Append(@, frame)]
            /\ upto' = [upto EXCEPT ![sub] = Len(live) + 1]

(* Sending to the subscriber: the frame enters its channel, or the send    *)
(* reports a dropped receiver and the subscriber is cleared.               *)
Publish(frame) ==
    /\ live' = Append(live, frame)
    /\ IF sub = NoConn
       THEN UNCHANGED <<sub, chan, upto>>
       ELSE IF Receiving(sub)
            THEN /\ chan' = [chan EXCEPT ![sub] = Append(@, frame)]
                 /\ upto' = [upto EXCEPT ![sub] = Len(live) + 1]
                 /\ UNCHANGED sub
            ELSE /\ sub' = NoConn
                 /\ UNCHANGED <<chan, upto>>

-----------------------------------------------------------------------------
(* Pane::spawn: an empty ring, no subscriber, the child running. *)
Init ==
    /\ ring = RingNew(InitialSize)
    /\ paste = FALSE
    /\ sub = NoConn
    /\ epoch = 0
    /\ alive = TRUE
    /\ child = "running"
    /\ killed = FALSE
    /\ winsize = InitialSize
    /\ typed = <<>>
    /\ rd = "read"
    /\ chunk = [id |-> 0, text |-> "plain"]
    /\ produced = 0
    /\ srv = [c \in Conn |-> "idle"]
    /\ arg = [c \in Conn |-> NoRequest]
    /\ myEpoch = [c \in Conn |-> 0]
    /\ chan = [c \in Conn |-> <<>>]
    /\ wpc = [c \in Conn |-> "none"]
    /\ batch = [c \in Conn |-> <<>>]
    /\ wire = [c \in Conn |-> <<>>]
    /\ shut = [c \in Conn |-> FALSE]
    /\ req = [c \in Conn |-> <<>>]
    /\ asked = 0
    /\ cli = [c \in Conn |-> "idle"]
    /\ got = [c \in Conn |-> <<>>]
    /\ killer = "idle"
    /\ live = <<>>
    /\ base = [c \in Conn |-> <<>>]
    /\ from = [c \in Conn |-> 0]
    /\ upto = [c \in Conn |-> 0]
-----------------------------------------------------------------------------
(* The child and its terminal. *)

(* The child closes every descriptor of its terminal and keeps running.    *)
ChildHides ==
    /\ "hide" \in Events
    /\ child = "running"
    /\ child' = "hidden"
    /\ UNCHANGED <<paneVars, killed, winsize, typed, rd, chunk, produced,
                   serverVars, chan, writerVars, wire, shut, clientVars,
                   killer, historyVars>>

ChildExits ==
    /\ "exit" \in Events \/ killed
    /\ child # "exited"
    /\ child' = "exited"
    /\ UNCHANGED <<paneVars, killed, winsize, typed, rd, chunk, produced,
                   serverVars, chan, writerVars, wire, shut, clientVars,
                   killer, historyVars>>

(* reader.read returns a chunk: it is in the reader's buffer, not in the   *)
(* ring yet.  The terminal may still hold output after the child exited.   *)
ReaderReads ==
    /\ rd = "read"
    /\ produced < MaxOut
    /\ \E t \in Text : chunk' = [id |-> produced + 1, text |-> t]
    /\ produced' = produced + 1
    /\ rd' = "have"
    /\ UNCHANGED <<paneVars, child, killed, winsize, typed,
                   serverVars, chan, writerVars, wire, shut, clientVars,
                   killer, historyVars>>

(* Under the state lock: ring, bracketed-paste tracker, subscriber. *)
ReaderPublishes ==
    LET byte == [src |-> "out", id |-> chunk.id, text |-> chunk.text,
                 geo |-> TailSize]
    IN  /\ rd = "have"
        /\ ring' = IF Replay THEN RingPush(ring, byte) ELSE ring
        /\ paste' = CASE chunk.text = "pasteOn" -> TRUE
                      [] chunk.text = "pasteOff" -> FALSE
                      [] OTHER -> paste
        /\ Publish(BytesFrame("OUTPUT", <<byte>>))
        /\ rd' = "read"
        /\ UNCHANGED <<epoch, alive, child, killed, winsize, typed, chunk,
                       produced, serverVars, writerVars, wire, shut,
                       clientVars, killer, base, from>>

(* End of file: no process holds the terminal.  The reader takes the       *)
(* child's mutex and waits for the child with it held.                     *)
ReaderEof ==
    /\ rd = "read"
    /\ child \in {"hidden", "exited"}
    /\ rd' = "wait"
    /\ UNCHANGED <<paneVars, child, killed, winsize, typed, chunk, produced,
                   serverVars, chan, writerVars, wire, shut, clientVars,
                   killer, historyVars>>

ReaderReaps ==
    /\ rd = "wait"
    /\ child = "exited"
    /\ rd' = "exit"
    /\ UNCHANGED <<paneVars, child, killed, winsize, typed, chunk, produced,
                   serverVars, chan, writerVars, wire, shut, clientVars,
                   killer, historyVars>>

(* The result of this last send is ignored. *)
ReaderExits ==
    /\ rd = "exit"
    /\ alive' = FALSE
    /\ live' = Append(live, Marker("EXITED"))
    /\ IF sub # NoConn /\ Receiving(sub)
       THEN /\ chan' = [chan EXCEPT ![sub] = Append(@, Marker("EXITED"))]
            /\ upto' = [upto EXCEPT ![sub] = Len(live) + 1]
       ELSE UNCHANGED <<chan, upto>>
    /\ rd' = "done"
    /\ UNCHANGED <<ring, paste, sub, epoch, child, killed, winsize, typed,
                   chunk, produced, serverVars, writerVars, wire, shut,
                   clientVars, killer, base, from>>

-----------------------------------------------------------------------------
(* A server thread: stream_pane. *)

(* attach: replay, the tracked paste mode, ATTACHED and the new subscriber *)
(* in one critical section.                                                *)
ServerAttaches(c) ==
    LET replay == IF Replay THEN RingReplay(ring) ELSE <<>>
        mode == IF paste THEN <<BytesFrame("OUTPUT", <<PasteOnByte>>)>>
                         ELSE <<>>
        opening == replay \o mode \o <<Marker("ATTACHED")>>
    IN  /\ srv[c] = "attach"
        /\ epoch' = epoch + 1
        /\ myEpoch' = [myEpoch EXCEPT ![c] = epoch + 1]
        /\ chan' = [chan EXCEPT ![c] = opening]
        /\ sub' = c
        /\ srv' = [srv EXCEPT ![c] = "spawn"]
        /\ base' = [base EXCEPT ![c] = opening]
        /\ from' = [from EXCEPT ![c] = Len(live)]
        /\ upto' = [upto EXCEPT ![c] = Len(live)]
        /\ UNCHANGED <<ring, paste, alive, childVars, arg, writerVars, wire,
                       shut, clientVars, killer, live>>

ServerSpawnsWriter(c) ==
    /\ srv[c] = "spawn"
    /\ srv' = [srv EXCEPT ![c] = "serve"]
    /\ wpc' = [wpc EXCEPT ![c] = "recv"]
    /\ UNCHANGED <<paneVars, childVars, arg, myEpoch, chan, batch, wire, shut,
                   clientVars, killer, historyVars>>

(* try_clone or the thread failed: the `?` returns without detaching. *)
ServerCannotSpawn(c) ==
    /\ srv[c] = "spawn"
    /\ srv' = [srv EXCEPT ![c] = "done"]
    /\ wpc' = [wpc EXCEPT ![c] = "done"]
    /\ shut' = [shut EXCEPT ![c] = TRUE]
    /\ UNCHANGED <<paneVars, childVars, arg, myEpoch, chan, batch, wire,
                   clientVars, killer, historyVars>>

(* Mutant: the input is typed without being rung. *)
InputNotRung(c) ==
    /\ srv[c] = "serve"
    /\ req[c] # <<>>
    /\ Head(req[c]).kind = "INPUT"
    /\ req' = [req EXCEPT ![c] = Tail(@)]
    /\ arg' = [arg EXCEPT ![c] = Head(req[c])]
    /\ srv' = [srv EXCEPT ![c] = "write"]
    /\ UNCHANGED <<paneVars, childVars, myEpoch, chan, writerVars, wire, shut,
                   asked, cli, got, killer, historyVars>>

(* Pane::input, first half: agent panes ring what the client typed. *)
ServerReadsInput(c) ==
    LET byte == [src |-> "in", id |-> Head(req[c]).id, text |-> "plain",
                 geo |-> TailSize]
    IN  /\ srv[c] = "serve"
        /\ req[c] # <<>>
        /\ Head(req[c]).kind = "INPUT"
        /\ ring' = IF RingInput /\ Replay THEN RingPush(ring, byte) ELSE ring
        /\ req' = [req EXCEPT ![c] = Tail(@)]
        /\ arg' = [arg EXCEPT ![c] = Head(req[c])]
        /\ srv' = [srv EXCEPT ![c] = "write"]
        /\ UNCHANGED <<paste, sub, epoch, alive, childVars, myEpoch, chan,
                       writerVars, wire, shut, asked, cli, got, killer,
                       historyVars>>

(* Pane::input, second half: under the writer mutex. *)
ServerWritesInput(c) ==
    /\ srv[c] = "write"
    /\ typed' = Append(typed, arg[c].id)
    /\ srv' = [srv EXCEPT ![c] = "serve"]
    /\ UNCHANGED <<paneVars, child, killed, winsize, rd, chunk, produced, arg,
                   myEpoch, chan, writerVars, wire, shut, clientVars, killer,
                   historyVars>>

(* Pane::resize, first half: a geometry the stream has already is dropped. *)
ServerReadsResize(c) ==
    LET s == Head(req[c]).size
    IN  /\ srv[c] = "serve"
        /\ req[c] # <<>>
        /\ Head(req[c]).kind = "RESIZE"
        /\ req' = [req EXCEPT ![c] = Tail(@)]
        /\ ring' = RingResize(ring, s)
        /\ IF RingResizes(ring, s)
           THEN /\ Publish(SizeFrame(s))
                /\ arg' = [arg EXCEPT ![c] = Head(req[c])]
                /\ srv' = [srv EXCEPT ![c] = "ioctl"]
           ELSE UNCHANGED <<sub, chan, live, upto, arg, srv>>
        /\ UNCHANGED <<paste, epoch, alive, childVars, myEpoch, writerVars,
                       wire, shut, asked, cli, got, killer, base, from>>

(* Pane::resize, second half: the PTY learns the size under another lock. *)
ServerResizesPty(c) ==
    /\ srv[c] = "ioctl"
    /\ winsize' = IF killed THEN winsize ELSE arg[c].size
    /\ srv' = [srv EXCEPT ![c] = "serve"]
    /\ UNCHANGED <<paneVars, child, killed, typed, rd, chunk, produced, arg,
                   myEpoch, chan, writerVars, wire, shut, clientVars, killer,
                   historyVars>>

ServerReadsDetach(c) ==
    /\ srv[c] = "serve"
    /\ req[c] # <<>>
    /\ Head(req[c]).kind = "DETACH"
    /\ req' = [req EXCEPT ![c] = Tail(@)]
    /\ srv' = [srv EXCEPT ![c] = "detach"]
    /\ UNCHANGED <<paneVars, childVars, arg, myEpoch, chan, writerVars, wire,
                   shut, asked, cli, got, killer, historyVars>>

ServerReadsKill(c) ==
    /\ srv[c] = "serve"
    /\ req[c] # <<>>
    /\ Head(req[c]).kind = "KILL"
    /\ req' = [req EXCEPT ![c] = Tail(@)]
    /\ srv' = [srv EXCEPT ![c] = "kill"]
    /\ UNCHANGED <<paneVars, childVars, arg, myEpoch, chan, writerVars, wire,
                   shut, asked, cli, got, killer, historyVars>>

(* Mutant: the PTY master is dropped by nobody. *)
KillUnsignalled == rd # "wait" /\ UNCHANGED childVars

(* Pane::kill: needs the child's mutex, then drops the PTY master. *)
Kill ==
    /\ rd # "wait"
    /\ killed' = TRUE
    /\ UNCHANGED <<child, winsize, typed, rd, chunk, produced>>

ServerKills(c) ==
    /\ srv[c] = "kill"
    /\ Kill
    /\ srv' = [srv EXCEPT ![c] = "detach"]
    /\ UNCHANGED <<paneVars, arg, myEpoch, chan, writerVars, wire, shut,
                   clientVars, killer, historyVars>>

(* read_frame fails: the client is gone and its frames are consumed, or    *)
(* the writer shut the socket down (frames still queued may be lost).      *)
ServerReadsEof(c) ==
    /\ srv[c] = "serve"
    /\ shut[c] \/ (cli[c] = "closed" /\ req[c] = <<>>)
    /\ srv' = [srv EXCEPT ![c] = "detach"]
    /\ UNCHANGED <<paneVars, childVars, arg, myEpoch, chan, writerVars, wire,
                   shut, clientVars, killer, historyVars>>

(* Mutant: the epoch fence the wrong way round. *)
DetachesInverted(c) ==
    /\ srv[c] = "detach"
    /\ sub' = IF epoch = myEpoch[c] THEN sub ELSE NoConn
    /\ srv' = [srv EXCEPT ![c] = "shutdown"]
    /\ UNCHANGED <<ring, paste, epoch, alive, childVars, arg, myEpoch, chan,
                   writerVars, wire, shut, clientVars, killer, historyVars>>

(* detach(epoch): only the connection that attached last is subscribed. *)
ServerDetaches(c) ==
    /\ srv[c] = "detach"
    /\ sub' = IF epoch = myEpoch[c] THEN NoConn ELSE sub
    /\ srv' = [srv EXCEPT ![c] = "shutdown"]
    /\ UNCHANGED <<ring, paste, epoch, alive, childVars, arg, myEpoch, chan,
                   writerVars, wire, shut, clientVars, killer, historyVars>>

ServerShutsDown(c) ==
    /\ srv[c] = "shutdown"
    /\ shut' = [shut EXCEPT ![c] = TRUE]
    /\ srv' = [srv EXCEPT ![c] = "join"]
    /\ UNCHANGED <<paneVars, childVars, arg, myEpoch, chan, writerVars, wire,
                   clientVars, killer, historyVars>>

ServerJoinsWriter(c) ==
    /\ srv[c] = "join"
    /\ wpc[c] = "done"
    /\ srv' = [srv EXCEPT ![c] = "done"]
    /\ UNCHANGED <<paneVars, childVars, arg, myEpoch, chan, writerVars, wire,
                   shut, clientVars, killer, historyVars>>

-----------------------------------------------------------------------------
(* A writer thread: write_output. *)

(* Mutant: the kind of the queued frame is not looked at. *)
NextMergesAny(c) == chan[c] # <<>> /\ Head(batch[c]).kind = "OUTPUT"

NextMerges(c) ==
    chan[c] # <<>> /\ Head(batch[c]).kind = "OUTPUT" /\ Head(chan[c]).kind = "OUTPUT"

WriterReceives(c) ==
    /\ wpc[c] = "recv"
    /\ chan[c] # <<>>
    /\ batch' = [batch EXCEPT ![c] = <<Head(chan[c])>>]
    /\ chan' = [chan EXCEPT ![c] = Tail(@)]
    /\ wpc' = [wpc EXCEPT ![c] = "fill"]
    /\ UNCHANGED <<paneVars, childVars, serverVars, wire, shut, clientVars,
                   killer, historyVars>>

(* OUTPUT frames already queued join the batch (a batch of n frames here   *)
(* is the one frame that carries their bytes).                             *)
WriterBatches(c) ==
    /\ wpc[c] = "fill"
    /\ Len(batch[c]) < BatchCap
    /\ NextMerges(c)
    /\ batch' = [batch EXCEPT ![c] = Append(@, Head(chan[c]))]
    /\ chan' = [chan EXCEPT ![c] = Tail(@)]
    /\ UNCHANGED <<paneVars, childVars, serverVars, wpc, wire, shut,
                   clientVars, killer, historyVars>>

(* The batch is full, the queue is empty, or the next frame is of another  *)
(* kind.                                                                   *)
WriterStopsBatching(c) ==
    /\ wpc[c] = "fill"
    /\ Len(batch[c]) >= BatchCap \/ ~NextMerges(c)
    /\ wpc' = [wpc EXCEPT ![c] = "write"]
    /\ UNCHANGED <<paneVars, childVars, serverVars, chan, batch, wire, shut,
                   clientVars, killer, historyVars>>

(* write_frame refuses a payload beyond MAX_FRAME.  Only a SNAPSHOT can    *)
(* be that large: a batch ends at BATCH_CAP.                               *)
TooLarge(b) == Len(Head(b).bytes) > MaxFrame

WriterWrites(c) ==
    /\ wpc[c] = "write"
    /\ ~shut[c] /\ cli[c] # "closed"
    /\ ~TooLarge(batch[c])
    /\ Len(wire[c]) < WireCap
    /\ wire' = [wire EXCEPT ![c] = @ \o batch[c]]
    /\ batch' = [batch EXCEPT ![c] = <<>>]
    /\ wpc' = [wpc EXCEPT ![c] = "recv"]
    /\ UNCHANGED <<paneVars, childVars, serverVars, chan, shut, clientVars,
                   killer, historyVars>>

(* The write fails: the peer is gone, the frame is refused, or nothing     *)
(* drained for SO_SNDTIMEO.  The thread shuts the socket down and drops    *)
(* its receiver.                                                           *)
WriterFails(c) ==
    /\ wpc[c] = "write"
    /\ \/ shut[c]
       \/ cli[c] = "closed"
       \/ TooLarge(batch[c])
       \/ Len(wire[c]) >= WireCap
    /\ shut' = [shut EXCEPT ![c] = TRUE]
    /\ wpc' = [wpc EXCEPT ![c] = "done"]
    /\ UNCHANGED <<paneVars, childVars, serverVars, chan, batch, wire,
                   clientVars, killer, historyVars>>

(* recv fails once the queue is empty and the only sender is gone. *)
WriterEnds(c) ==
    /\ wpc[c] = "recv"
    /\ chan[c] = <<>>
    /\ sub # c
    /\ shut' = [shut EXCEPT ![c] = TRUE]
    /\ wpc' = [wpc EXCEPT ![c] = "done"]
    /\ UNCHANGED <<paneVars, childVars, serverVars, chan, batch, wire,
                   clientVars, killer, historyVars>>

-----------------------------------------------------------------------------
(* The client's end of a connection, and the registry's KILL. *)

ClientConnects(c) ==
    /\ cli[c] = "idle"
    /\ cli' = [cli EXCEPT ![c] = "open"]
    /\ srv' = [srv EXCEPT ![c] = "attach"]
    /\ UNCHANGED <<paneVars, childVars, arg, myEpoch, chan, writerVars, wire,
                   shut, req, asked, got, killer, historyVars>>

(* Requests are numbered over all clients, so every input is a new byte. *)
Requests ==
    {r \in {InputRequest(asked + 1), PlainRequest("DETACH"), PlainRequest("KILL")}
             \cup {ResizeRequest(s) : s \in Size} : r.kind \in ClientMoves}

ClientSends(c) ==
    /\ cli[c] = "open"
    /\ ~shut[c]
    /\ asked < MaxRequest
    /\ \E r \in Requests : req' = [req EXCEPT ![c] = Append(@, r)]
    /\ asked' = asked + 1
    /\ UNCHANGED <<paneVars, childVars, serverVars, chan, writerVars, wire,
                   shut, cli, got, killer, historyVars>>

ClientReads(c) ==
    /\ "READ" \in ClientMoves
    /\ cli[c] = "open"
    /\ wire[c] # <<>>
    /\ got' = [got EXCEPT ![c] = Append(@, Head(wire[c]))]
    /\ wire' = [wire EXCEPT ![c] = Tail(@)]
    /\ UNCHANGED <<paneVars, childVars, serverVars, chan, writerVars, shut,
                   req, asked, cli, killer, historyVars>>

ClientCloses(c) ==
    /\ "CLOSE" \in ClientMoves
    /\ cli[c] = "open"
    /\ cli' = [cli EXCEPT ![c] = "closed"]
    /\ UNCHANGED <<paneVars, childVars, serverVars, chan, writerVars, wire,
                   shut, req, asked, got, killer, historyVars>>

(* KILL as a first frame: Registry::remove, then kill on the pane. *)
KillArrives ==
    /\ "kill" \in Events
    /\ killer = "idle"
    /\ killer' = "kill"
    /\ UNCHANGED <<paneVars, childVars, serverVars, chan, writerVars, wire,
                   shut, clientVars, historyVars>>

KillerKills ==
    /\ killer = "kill"
    /\ Kill
    /\ killer' = "done"
    /\ UNCHANGED <<paneVars, serverVars, chan, writerVars, wire, shut,
                   clientVars, historyVars>>

-----------------------------------------------------------------------------
Reader == ReaderReads \/ ReaderPublishes \/ ReaderEof \/ ReaderReaps \/ ReaderExits

Server(c) ==
    \/ ServerAttaches(c) \/ ServerSpawnsWriter(c) \/ ServerCannotSpawn(c)
    \/ ServerReadsInput(c) \/ ServerWritesInput(c)
    \/ ServerReadsResize(c) \/ ServerResizesPty(c)
    \/ ServerReadsDetach(c) \/ ServerReadsKill(c) \/ ServerKills(c)
    \/ ServerReadsEof(c) \/ ServerDetaches(c) \/ ServerShutsDown(c)
    \/ ServerJoinsWriter(c)

Writer(c) ==
    \/ WriterReceives(c) \/ WriterBatches(c) \/ WriterStopsBatching(c)
    \/ WriterWrites(c) \/ WriterFails(c) \/ WriterEnds(c)

Client(c) ==
    ClientConnects(c) \/ ClientSends(c) \/ ClientReads(c) \/ ClientCloses(c)

Next ==
    \/ ChildHides \/ ChildExits \/ KillArrives \/ KillerKills
    \/ Reader
    \/ \E c \in Conn : Server(c) \/ Writer(c) \/ Client(c)

Spec == Init /\ [][Next]_vars

(***************************************************************************)
(* The operating system runs every thread that can run; a child that was   *)
(* sent SIGHUP exits; nothing is promised about a child nobody signalled,  *)
(* about output, or about what clients do.                                 *)
(***************************************************************************)
Fairness ==
    /\ WF_vars(ReaderPublishes) /\ WF_vars(ReaderEof)
    /\ WF_vars(ReaderReaps) /\ WF_vars(ReaderExits)
    /\ WF_vars(KillerKills)
    /\ WF_vars(killed /\ ChildExits)
    /\ \A c \in Conn : WF_vars(Server(c)) /\ WF_vars(Writer(c))

FairSpec == Spec /\ Fairness

-----------------------------------------------------------------------------
TypeOK ==
    /\ ring \in Ring(Byte)
    /\ paste \in BOOLEAN
    /\ sub \in Conn \cup {NoConn}
    /\ epoch \in Nat
    /\ alive \in BOOLEAN
    /\ child \in {"running", "hidden", "exited"}
    /\ killed \in BOOLEAN
    /\ winsize \in Size
    /\ typed \in Seq(Nat)
    /\ rd \in {"read", "have", "wait", "exit", "done"}
    /\ chunk \in Chunk
    /\ produced \in Nat
    /\ srv \in [Conn -> {"idle", "attach", "spawn", "serve", "write", "ioctl",
                         "kill", "detach", "shutdown", "join", "done"}]
    /\ arg \in [Conn -> Request]
    /\ myEpoch \in [Conn -> Nat]
    /\ chan \in [Conn -> Seq(PaneFrame)]
    /\ wpc \in [Conn -> {"none", "recv", "fill", "write", "done"}]
    /\ batch \in [Conn -> Seq(PaneFrame)]
    /\ wire \in [Conn -> Seq(PaneFrame)]
    /\ shut \in [Conn -> BOOLEAN]
    /\ req \in [Conn -> Seq(Request)]
    /\ asked \in Nat
    /\ cli \in [Conn -> {"idle", "open", "closed"}]
    /\ got \in [Conn -> Seq(PaneFrame)]
    /\ killer \in {"idle", "kill", "done"}
    /\ live \in Seq(PaneFrame)
    /\ base \in [Conn -> Seq(PaneFrame)]
    /\ from \in [Conn -> Nat]
    /\ upto \in [Conn -> Nat]

(* Everything a connection's client has been or can still be handed.       *)
Flow(c) == got[c] \o wire[c] \o batch[c] \o chan[c]

(* What attach promised it, and what was published to it since.            *)
Promise(c) == base[c] \o SubSeq(live, from[c] + 1, upto[c])

(***************************************************************************)
(* "Output is either in the replay or after it; no byte can fall between   *)
(* the two channels": what moves through channel, batch and socket is      *)
(* exactly the opening of the attach followed by everything published      *)
(* since, in order, with nothing missing for the current subscriber.       *)
(***************************************************************************)
StreamIntact ==
    \A c \in Conn :
        /\ Flow(c) = Promise(c)
        /\ sub = c /\ Receiving(c) => upto[c] = Len(live)

(***************************************************************************)
(* The epoch fence of detach: the connection that attached last stays      *)
(* subscribed until it detaches itself or its receiver is gone, whatever   *)
(* superseded connections do.                                              *)
(***************************************************************************)
NewestStaysSubscribed ==
    \A c \in Conn :
        /\ Receiving(c)
        /\ srv[c] \notin {"shutdown", "join", "done"}
        /\ myEpoch[c] = epoch
        => sub = c

(***************************************************************************)
(* write_output merges OUTPUT frames only: a batch of several frames holds *)
(* nothing else (two merged SIZE frames would be unreadable).              *)
(***************************************************************************)
OnlyOutputMerges ==
    \A c \in Conn :
        Len(batch[c]) > 1 => \A i \in 1 .. Len(batch[c]) :
                                 batch[c][i].kind = "OUTPUT"

(***************************************************************************)
(* The daemon never builds a frame its own write_frame refuses: a client   *)
(* that attaches is not cut off by the replay it asked for.                *)
(***************************************************************************)
ReplayFitsFrame ==
    \A c \in Conn : wpc[c] = "write" => ~TooLarge(batch[c])
=============================================================================
