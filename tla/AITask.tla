------------------------------- MODULE AITask -------------------------------
(***************************************************************************)
(* One @ai task of AITaskCoordinator.swift.  Tasks are independent: each   *)
(* entry of the coordinator's dictionaries belongs to one task, and every  *)
(* action below is one block of its serial queue.                          *)
(*                                                                         *)
(* What the task has asked for and not heard of yet (the fact probe, a     *)
(* model turn, a tool, a confirmed operation) is a callback in `out`.  Its *)
(* completion is matched to the task by the task's phase alone.            *)
(*                                                                         *)
(* The card shows snapshots that lag behind, so any of its buttons may be  *)
(* clicked at any time; the coordinator's guards decide.  Streamed text    *)
(* and reasoning are left out, and so is the exec process's handle: a      *)
(* process that is killed completes all the same, with a failure.          *)
(***************************************************************************)
EXTENDS Naturals, Sequences, FiniteSets

CONSTANTS
    Budget,         \* tool calls of a fresh task (25)
    Grant,          \* tool calls a continue adds (25)
    MaxGrants,      \* bound: continues
    MaxFollowUps,   \* bound: follow-up requests
    MaxEdits,       \* bound: edits of a proposal
    MaxOut          \* bound: callbacks outstanding when the user adds one

ASSUME TaskAssumption ==
    /\ Budget \in Nat /\ Grant \in Nat
    /\ MaxGrants \in Nat /\ MaxFollowUps \in Nat /\ MaxEdits \in Nat
    /\ MaxOut \in Nat \ {0}

None == 0
User == [role |-> "user", id |-> None]
ToolCall(c) == [role |-> "call", id |-> c]
ToolResult(c) == [role |-> "tool", id |-> c]
Message == {User} \cup [role : {"call", "tool"}, id : Nat]

VARIABLES
    phase,
    wire,           \* the messages so far; <<>> stands for nil
    out,            \* the callbacks outstanding
    inFlightStream, \* the model turn cancel would tear down
    pending,        \* pendingProposal: its number
    pendingCall,    \* the tool call behind it
    budget,         \* budgetRemaining
    calls,          \* tool calls dispatched so far
    offered,        \* proposals put to the user so far
    runs,           \* history: how often each proposal was executed
    grants, followUps, edits,
    revived         \* history: the user went on with a cancelled task

userVars == <<grants, followUps, edits, revived>>
proposalVars == <<pending, pendingCall, offered, runs>>
taskVars == <<phase, wire, out, inFlightStream, proposalVars, budget, calls,
              userVars>>

MaxCalls == Budget + Grant * MaxGrants
Proposal == 1 .. MaxCalls + MaxEdits

TaskInit ==
    /\ phase = "idle"
    /\ wire = <<>>
    /\ out = {}
    /\ inFlightStream = None
    /\ pending = None /\ pendingCall = None
    /\ budget = Budget
    /\ calls = 0 /\ offered = 0
    /\ runs = [p \in Proposal |-> 0]
    /\ grants = 0 /\ followUps = 0 /\ edits = 0
    /\ revived = FALSE

-----------------------------------------------------------------------------
(* A callback: what is awaited, the call (for an operation: and proposal)  *)
(* it serves, and for a model turn the messages it was sent.               *)
Callback(n, kind, call, ask) == [n |-> n, kind |-> kind, call |-> call, ask |-> ask]

FreeNumber(rest) ==
    CHOOSE n \in 1 .. Cardinality(rest) + 1 : \A o \in rest : o.n # n

Awaits(rest, kind, call) ==
    out' = rest \cup {Callback(FreeNumber(rest), kind, call, <<>>)}

(* step: the wire begins with the request when the first turn is taken.    *)
Steps(rest, w) ==
    LET ask == IF w = <<>> THEN <<User>> ELSE w
        n == FreeNumber(rest)
    IN  /\ wire' = ask
        /\ out' = rest \cup {Callback(n, "turn", None, ask)}
        /\ inFlightStream' = n

(* `wire[id]?.append`: lost on a wire that is still nil. *)
Appended(m) == IF wire = <<>> THEN wire ELSE Append(wire, m)

-----------------------------------------------------------------------------
(* The user. *)

Start ==
    /\ phase = "idle"
    /\ phase' = "thinking"
    /\ Awaits(out, "probe", None)
    /\ UNCHANGED <<wire, inFlightStream, proposalVars, budget, calls, userVars>>

(* Mutant: a second click on Execute is served as well. *)
ConfirmAgain ==
    /\ phase \in {"awaiting", "executing"}
    /\ pending # None
    /\ Cardinality(out) < MaxOut
    /\ phase' = "executing"
    /\ Awaits(out, "op", pendingCall)
    /\ runs' = [runs EXCEPT ![pending] = @ + 1]
    /\ UNCHANGED <<wire, inFlightStream, pending, pendingCall, offered, budget,
                   calls, userVars>>

Confirm ==
    /\ phase = "awaiting"
    /\ pending # None
    /\ Cardinality(out) < MaxOut
    /\ phase' = "executing"
    /\ Awaits(out, "op", pendingCall)
    /\ runs' = [runs EXCEPT ![pending] = @ + 1]
    /\ UNCHANGED <<wire, inFlightStream, pending, pendingCall, offered, budget,
                   calls, userVars>>

(* The edited proposal is a new one; the call behind it stays. *)
Edit ==
    /\ phase = "awaiting"
    /\ edits < MaxEdits
    /\ offered' = offered + 1
    /\ pending' = offered + 1
    /\ edits' = edits + 1
    /\ UNCHANGED <<phase, wire, out, inFlightStream, pendingCall, runs, budget,
                   calls, grants, followUps, revived>>

Active == {"thinking", "awaiting", "executing", "budgetExhausted"}

(* A model turn that is torn down never completes -- unless it completed   *)
(* already and its block is queued, or was retried through the proxy in a  *)
(* task nobody holds.                                                      *)
Cancel ==
    /\ phase \in Active
    /\ phase' = "cancelled"
    /\ inFlightStream' = None
    /\ out' \in {out, {o \in out : o.n # inFlightStream}}
    /\ UNCHANGED <<wire, proposalVars, budget, calls, userVars>>

ContinueBudget ==
    /\ phase = "budgetExhausted"
    /\ grants < MaxGrants
    /\ Cardinality(out) < MaxOut
    /\ grants' = grants + 1
    /\ budget' = budget + Grant
    /\ phase' = "thinking"
    /\ Steps(out, wire)
    /\ UNCHANGED <<proposalVars, calls, followUps, edits, revived>>

(* Mutant: a follow-up starts with a fresh budget. *)
FollowUpRefills ==
    /\ phase \in {"completed", "failed", "cancelled"}
    /\ followUps < MaxFollowUps
    /\ Cardinality(out) < MaxOut
    /\ followUps' = followUps + 1
    /\ revived' = (revived \/ phase = "cancelled")
    /\ phase' = "thinking"
    /\ budget' = Budget
    /\ Steps(out, Appended(User))
    /\ UNCHANGED <<proposalVars, calls, grants, edits>>

ContinueSession ==
    /\ phase \in {"completed", "failed", "cancelled"}
    /\ followUps < MaxFollowUps
    /\ Cardinality(out) < MaxOut
    /\ followUps' = followUps + 1
    /\ revived' = (revived \/ phase = "cancelled")
    /\ phase' = "thinking"
    /\ Steps(out, Appended(User))
    /\ UNCHANGED <<proposalVars, budget, calls, grants, edits>>

-----------------------------------------------------------------------------
(* Completions.  What comes too late for the phase is dropped. *)

ProbeEnds(o) ==
    /\ o.kind = "probe"
    /\ IF phase = "thinking"
       THEN Steps(out \ {o}, wire)
       ELSE out' = out \ {o} /\ UNCHANGED <<wire, inFlightStream>>
    /\ UNCHANGED <<phase, proposalVars, budget, calls, userVars>>

TurnIgnored(o) ==
    /\ o.kind = "turn" /\ phase # "thinking"
    /\ out' = out \ {o}
    /\ inFlightStream' = None
    /\ UNCHANGED <<phase, wire, proposalVars, budget, calls, userVars>>

(* An answer, a failed or an empty reply. *)
TurnEnds(o) ==
    /\ o.kind = "turn" /\ phase = "thinking"
    /\ phase' \in {"completed", "failed"}
    /\ out' = out \ {o}
    /\ inFlightStream' = None
    /\ UNCHANGED <<wire, proposalVars, budget, calls, userVars>>

TurnOutOfBudget(o) ==
    /\ o.kind = "turn" /\ phase = "thinking" /\ budget = 0
    /\ phase' = "budgetExhausted"
    /\ out' = out \ {o}
    /\ inFlightStream' = None
    /\ UNCHANGED <<wire, proposalVars, budget, calls, userVars>>

(* Mutant: a call is not charged. *)
RoundUnspent(o) ==
    /\ o.kind = "turn" /\ phase = "thinking" /\ budget > 0
    /\ budget' = budget
    /\ calls' = calls + 1

SpendsRound(o) ==
    /\ o.kind = "turn" /\ phase = "thinking" /\ budget > 0
    /\ budget' = budget - 1
    /\ calls' = calls + 1

(* read, an ordinary command, a web tool: runs at once. *)
TurnRunsTool(o) ==
    /\ SpendsRound(o)
    /\ wire' = Appended(ToolCall(calls + 1))
    /\ Awaits(out \ {o}, "tool", calls + 1)
    /\ inFlightStream' = None
    /\ UNCHANGED <<phase, proposalVars, userVars>>

(* write, edit, a destructive command: waits for the user. *)
TurnProposes(o) ==
    /\ SpendsRound(o)
    /\ wire' = Appended(ToolCall(calls + 1))
    /\ out' = out \ {o}
    /\ inFlightStream' = None
    /\ offered' = offered + 1
    /\ pending' = offered + 1
    /\ pendingCall' = calls + 1
    /\ phase' = "awaiting"
    /\ UNCHANGED <<runs, userVars>>

(* A tool that does not exist is answered on the spot. *)
TurnNamesUnknown(o) ==
    /\ SpendsRound(o)
    /\ Steps(out \ {o}, Appended(ToolCall(calls + 1)) \o <<ToolResult(calls + 1)>>)
    /\ UNCHANGED <<phase, proposalVars, userVars>>

(* Mutant: the result is shown, and the model is asked again without it. *)
RoundUnrecorded(o) ==
    /\ o.kind = "tool"
    /\ IF phase = "thinking"
       THEN Steps(out \ {o}, wire)
       ELSE out' = out \ {o} /\ UNCHANGED <<wire, inFlightStream>>
    /\ UNCHANGED <<phase, proposalVars, budget, calls, userVars>>

FinishRound(o) ==
    /\ o.kind = "tool"
    /\ IF phase = "thinking"
       THEN Steps(out \ {o}, Appended(ToolResult(o.call)))
       ELSE out' = out \ {o} /\ UNCHANGED <<wire, inFlightStream>>
    /\ UNCHANGED <<phase, proposalVars, budget, calls, userVars>>

(* Mutant: a late operation takes a cancelled task up again. *)
OpResumes(o) ==
    /\ o.kind = "op"
    /\ phase \in {"executing", "cancelled"}
    /\ phase' = "thinking"
    /\ pending' = None /\ pendingCall' = None
    /\ Steps(out \ {o}, Appended(ToolResult(o.call)))
    /\ UNCHANGED <<offered, runs, budget, calls, userVars>>

(* Mutant: the operation's end does not lead to the next turn. *)
OpEndsSilently(o) ==
    /\ o.kind = "op"
    /\ phase = "executing"
    /\ phase' = "thinking"
    /\ pending' = None /\ pendingCall' = None
    /\ wire' = Appended(ToolResult(o.call))
    /\ out' = out \ {o}
    /\ UNCHANGED <<inFlightStream, offered, runs, budget, calls, userVars>>

FinishConfirmed(o) ==
    /\ o.kind = "op"
    /\ phase = "executing"
    /\ phase' = "thinking"
    /\ pending' = None /\ pendingCall' = None
    /\ Steps(out \ {o}, Appended(ToolResult(o.call)))
    /\ UNCHANGED <<offered, runs, budget, calls, userVars>>

OpIgnored(o) ==
    /\ o.kind = "op"
    /\ phase # "executing"
    /\ out' = out \ {o}
    /\ UNCHANGED <<phase, wire, inFlightStream, proposalVars, budget, calls,
                   userVars>>

-----------------------------------------------------------------------------
UserActs ==
    \/ Start \/ Confirm \/ Edit \/ Cancel \/ ContinueBudget \/ ContinueSession

Completes(o) ==
    \/ ProbeEnds(o)
    \/ TurnIgnored(o) \/ TurnEnds(o) \/ TurnOutOfBudget(o)
    \/ TurnRunsTool(o) \/ TurnProposes(o) \/ TurnNamesUnknown(o)
    \/ FinishRound(o) \/ FinishConfirmed(o) \/ OpIgnored(o)

TaskNext == UserActs \/ \E o \in out : Completes(o)

TaskSpec == TaskInit /\ [][TaskNext]_taskVars

(* Every request of the task has a deadline; taken for granted here is     *)
(* that its callback is called then.  The user need not do anything.       *)
TaskFairness ==
    \A n \in 1 .. MaxOut : WF_taskVars(\E o \in out : o.n = n /\ Completes(o))

TaskFairSpec == TaskSpec /\ TaskFairness

-----------------------------------------------------------------------------
TaskTypeOK ==
    /\ phase \in Active \cup {"idle", "completed", "failed", "cancelled"}
    /\ wire \in Seq(Message)
    /\ \A o \in out :
           /\ o.n \in Nat \ {0} /\ o.call \in 0 .. MaxCalls
           /\ o.kind \in {"probe", "turn", "tool", "op"}
           /\ o.ask \in Seq(Message)
    /\ inFlightStream \in Nat
    /\ pending \in Proposal \cup {None}
    /\ pendingCall \in 0 .. MaxCalls
    /\ budget \in 0 .. MaxCalls /\ calls \in 0 .. MaxCalls
    /\ offered \in 0 .. MaxCalls + MaxEdits
    /\ runs \in [Proposal -> Nat]
    /\ grants \in 0 .. MaxGrants /\ followUps \in 0 .. MaxFollowUps
    /\ edits \in 0 .. MaxEdits
    /\ revived \in BOOLEAN

(***************************************************************************)
(* A confirmation is for one execution: whatever is clicked twice, edited, *)
(* cancelled and taken up again, and however late operations complete, no  *)
(* proposal is executed a second time.                                     *)
(***************************************************************************)
NeverTwice == \A p \in Proposal : runs[p] <= 1

(***************************************************************************)
(* The wire is "assistant tool_call / tool-result pairs": each call stands *)
(* right before its result and each result right after its call.           *)
(***************************************************************************)
Paired(w) ==
    \A i \in 1 .. Len(w) :
        /\ w[i].role = "call" => i < Len(w) /\ w[i + 1] = ToolResult(w[i].id)
        /\ w[i].role = "tool" => i > 1 /\ w[i - 1] = ToolCall(w[i].id)

WirePaired == \A o \in out : Paired(o.ask)

(***************************************************************************)
(* Phases alone tell a task's callbacks apart.  That is enough as long as  *)
(* the user does not go on with a task that was cancelled: one thing is    *)
(* outstanding at a time, and a model turn was sent the whole conversation,*)
(* in pairs.                                                               *)
(***************************************************************************)
OneTurnAtATime ==
    ~revived =>
        /\ Cardinality(out) <= 1
        /\ WirePaired
        /\ phase = "thinking" => \A o \in out : o.kind = "turn" => o.ask = wire

(***************************************************************************)
(* "25 tool calls per task, +25 on continue", "never a silent reset": the  *)
(* calls in the conversation and the budget left make up what was granted, *)
(* over all follow-ups.                                                    *)
(***************************************************************************)
BudgetAccounted ==
    Cardinality({i \in DOMAIN wire : wire[i].role = "call"}) + budget
        = Budget + Grant * grants

(***************************************************************************)
(* "a cancelled task must stop": until the user goes on with it, it asks   *)
(* for nothing more, executes nothing and says nothing to the model.       *)
(***************************************************************************)
CancelledRests ==
    [][phase = "cancelled" /\ followUps' = followUps =>
           /\ phase' = "cancelled"
           /\ out' \subseteq out
           /\ UNCHANGED <<wire, budget, runs>>]_taskVars

(***************************************************************************)
(* A task that runs comes to an answer or to the user: the budget bounds   *)
(* the rounds of a model that never stops calling tools.                   *)
(***************************************************************************)
TaskAnswers ==
    phase \in {"thinking", "executing"} ~> phase \notin {"thinking", "executing"}
=============================================================================
