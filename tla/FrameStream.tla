----------------------------- MODULE FrameStream -----------------------------
(***************************************************************************)
(* PaneStream again, one level up: what a pane promises its viewers in     *)
(* frames rather than bytes, so that nothing has to be counted out of      *)
(* them.  Frames are published one by one.  A viewer that attaches is      *)
(* promised an opening, and then every frame that is published until it    *)
(* is released -- the attach is one point in the sequence of what is       *)
(* published.  What a viewer has received is a prefix of its promise.      *)
(***************************************************************************)
EXTENDS Naturals, Sequences, Functions

CONSTANTS Viewer, NoViewer

VARIABLES
    published,  \* the frames of the pane so far
    holder,     \* the viewer that is served
    promised,   \* per viewer: the frames it will see if nothing breaks
    received    \* per viewer: the frames it has seen

frameVars == <<published, holder, promised, received>>

Init ==
    /\ published = <<>>
    /\ holder = NoViewer
    /\ promised = [v \in Viewer |-> <<>>]
    /\ received = [v \in Viewer |-> <<>>]

(* The holder, if there is one, is promised what is published. *)
Emit(f) ==
    /\ published' = Append(published, f)
    /\ promised' = [v \in Viewer |->
                       IF v = holder THEN Append(promised[v], f)
                                     ELSE promised[v]]
    /\ UNCHANGED <<holder, received>>

(* A viewer that was promised nothing yet takes the pane over. *)
Attach(v) ==
    /\ promised[v] = <<>> /\ received[v] = <<>>
    /\ holder' = v
    /\ promised' = [promised EXCEPT ![v] = promised'[v]]
    /\ UNCHANGED <<published, received>>

Release ==
    /\ holder' = NoViewer
    /\ UNCHANGED <<published, promised, received>>

(* The next promised frame arrives, be its viewer the holder or not. *)
Receive(v) ==
    /\ Len(received[v]) < Len(promised[v])
    /\ received' = [received EXCEPT ![v] =
                       SubSeq(promised[v], 1, Len(received[v]) + 1)]
    /\ UNCHANGED <<published, holder, promised>>

Next ==
    \/ \E f \in Range(published') : Emit(f)
    \/ Release
    \/ \E v \in Viewer : Attach(v) \/ Receive(v)

Spec == Init /\ [][Next]_frameVars
=============================================================================
