---------------------------- MODULE PasteTracker ----------------------------
(***************************************************************************)
(* BracketedPasteTracker of sessiond/src/pane.rs: the reader feeds it each *)
(* chunk it reads, and it remembers whether the terminal is in             *)
(* bracketed-paste mode.  A switch is a byte sequence that may be cut      *)
(* anywhere by the reads.  SessionPane.tla takes a switch to be one chunk; *)
(* this module shows that the cuts do not matter.                          *)
(***************************************************************************)
EXTENDS Integers, Sequences, FiniteSetsExt

CONSTANTS
    Symbol,     \* the bytes of the stream
    On, Off,    \* BRACKETED_PASTE_ON and BRACKETED_PASTE_OFF
    MaxFeed,   \* bound: bytes of one read
    MaxStream    \* bound: bytes of the stream

ASSUME PasteAssumption ==
    /\ On \in Seq(Symbol) /\ Off \in Seq(Symbol)
    /\ Len(On) = Len(Off) /\ Len(On) > 0 /\ On # Off
    /\ MaxFeed \in Nat /\ MaxStream \in Nat

VARIABLES
    mode,       \* the tracked mode
    carry,      \* the tail of what was fed so far
    stream      \* history: every byte read

pasteVars == <<mode, carry, stream>>

PasteInit ==
    /\ mode = FALSE
    /\ carry = <<>>
    /\ stream = <<>>

(* Where `w` occurs in `buf`. *)
Occurrences(buf, w) ==
    {i \in 1 .. Len(buf) - Len(w) + 1 : SubSeq(buf, i, i + Len(w) - 1) = w}

(* The later of the switches found decides; none leaves the mode alone.    *)
ModeAfter(buf, before) ==
    LET on == Occurrences(buf, On)
        off == Occurrences(buf, Off)
    IN  IF on \cup off = {} THEN before ELSE Max(on \cup off) \in on

(* Mutant: a byte too few is carried over. *)
KeptShort(buf) ==
    LET keep == Min({Len(buf), Len(On) - 2})
    IN  SubSeq(buf, Len(buf) - keep + 1, Len(buf))

Kept(buf) ==
    LET keep == Min({Len(buf), Len(On) - 1})
    IN  SubSeq(buf, Len(buf) - keep + 1, Len(buf))

Feed(bytes) ==
    LET buf == carry \o bytes
    IN  /\ mode' = ModeAfter(buf, mode)
        /\ carry' = Kept(buf)

PasteReads ==
    \E n \in 1 .. MaxFeed : \E bytes \in [1 .. n -> Symbol] :
        /\ Len(stream) + n <= MaxStream
        /\ Feed(bytes)
        /\ stream' = stream \o bytes

PasteSpec == PasteInit /\ [][PasteReads]_pasteVars

-----------------------------------------------------------------------------
(***************************************************************************)
(* However the reads cut the stream, the tracked mode is what a terminal   *)
(* that saw it whole is in: that of the last complete switch, off before   *)
(* the first (feed and its carry).                                         *)
(***************************************************************************)
ModeIsLastSwitch == mode = ModeAfter(stream, FALSE)
=============================================================================
