----------------------------- MODULE PaneStream -----------------------------
(***************************************************************************)
(* What a pane promises its viewers, with no thread, lock, channel or      *)
(* socket in sight.  The terminal's output is one stream.  A viewer that   *)
(* attaches is promised the newest part of it, as much as was retained,    *)
(* and from then on every further byte until it is released; what it has   *)
(* received is always a prefix of what it was promised.  One viewer at a   *)
(* time holds the pane.                                                    *)
(***************************************************************************)
EXTENDS Naturals, Sequences

CONSTANTS Viewer, NoViewer, Retained

VARIABLES
    stream,     \* the bytes of the terminal so far
    holder,     \* the viewer that is attached
    promised,   \* per viewer: the bytes it will see if nothing breaks
    received    \* per viewer: the bytes it has seen

streamVars == <<stream, holder, promised, received>>

Newest(n) == SubSeq(stream, Len(stream) - n + 1, Len(stream))

Init ==
    /\ stream = <<>>
    /\ holder = NoViewer
    /\ promised = [v \in Viewer |-> <<>>]
    /\ received = [v \in Viewer |-> <<>>]

(* The terminal writes its next byte; the holder is promised it.           *)
Emit ==
    LET b == Len(stream) + 1
    IN  /\ UNCHANGED holder
        /\ stream' = Append(stream, b)
        /\ promised' = [v \in Viewer |->
                           IF v = holder THEN Append(promised[v], b)
                                         ELSE promised[v]]
        /\ UNCHANGED received

(* The next byte finds the holder gone. *)
EmitAlone ==
    /\ holder' = NoViewer
    /\ stream' = Append(stream, Len(stream) + 1)
    /\ UNCHANGED <<promised, received>>

(* A viewer attaches for the first time and takes the pane over. *)
Attach(v) ==
    /\ holder' = v
    /\ promised[v] = <<>> /\ received[v] = <<>>
    /\ \E n \in 0 .. Len(stream) :
          /\ n <= Retained
          /\ promised' = [promised EXCEPT ![v] = Newest(n)]
    /\ UNCHANGED <<stream, received>>

Release ==
    /\ holder # NoViewer
    /\ holder' = NoViewer
    /\ UNCHANGED <<stream, promised, received>>

(* More of what was promised arrives. *)
Receive(v) ==
    /\ UNCHANGED holder
    /\ Len(received'[v]) > Len(received[v])
    /\ \E n \in 1 .. Len(promised[v]) :
          received' = [received EXCEPT ![v] = SubSeq(promised[v], 1, n)]
    /\ UNCHANGED <<stream, promised>>

Next ==
    \/ Emit \/ EmitAlone \/ Release
    \/ \E v \in Viewer : Attach(v) \/ Receive(v)

Spec == Init /\ [][Next]_streamVars
=============================================================================
