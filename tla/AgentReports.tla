---------------------------- MODULE AgentReports ----------------------------
(***************************************************************************)
(* How a pane's agent badge comes about: the omp/pi extension that         *)
(* sessiond installs (sessiond/src/extension_asset.ts) reports the agent's *)
(* state and its background jobs, each report on a connection of its own,  *)
(* and the daemon's threads apply the reports to agent_states in whatever  *)
(* order they run (main.rs: serve_report, apply_report).                   *)
(*                                                                         *)
(* One pane: reports of different panes meet in different map entries.     *)
(***************************************************************************)
EXTENDS Integers, FiniteSets

CONSTANTS
    Job,            \* background jobs an agent may run
    Approvals,      \* tool approvals that may be open at once
    SameMs,         \* may two reports carry one Date.now()?
    MaxReports      \* bound: reports sent

ASSUME ReportsAssumption ==
    /\ Approvals \in Nat
    /\ SameMs \in BOOLEAN
    /\ MaxReports \in Nat

VARIABLES
    \* the extension
    agentActive, blocked, idleTimer, jobs, lastJobsKey,
    clock,          \* Date.now() of the last report
    sent,           \* reports so far
    flight,         \* reports whose connection is not served yet
    \* the daemon
    agent,          \* agent_states at the pane
    \* history
    polled,         \* pollJobs ran since the jobs last changed
    lost            \* the reports whose connection failed or timed out

extVars == <<agentActive, blocked, idleTimer, jobs, lastJobsKey>>
sendVars == <<clock, sent, flight>>
reportsVars == <<agentActive, blocked, idleTimer, jobs, lastJobsKey, clock,
                 sent, flight, agent, polled, lost>>

State(active, open) ==
    IF open > 0 THEN "blocked" ELSE IF active THEN "working" ELSE "idle"

Report == [state : {"working", "blocked", "idle"}, jobs : SUBSET Job,
           seq : Nat, no : Nat]

(* Nothing reported yet: list() leaves `agent` out and `agent_jobs` empty. *)
NoReport == [state |-> "idle", jobs |-> {}, seq |-> 0, no |-> 0]

ReportsInit ==
    /\ agentActive = FALSE
    /\ blocked = 0
    /\ idleTimer = FALSE
    /\ jobs = {}
    /\ lastJobsKey = {}
    /\ clock = 0
    /\ sent = 0
    /\ flight = {}
    /\ agent = NoReport
    /\ polled = TRUE
    /\ lost = {}

-----------------------------------------------------------------------------
(* The extension.  `report` stamps the state and opens a connection.       *)
SendsReport(state) ==
    /\ sent < MaxReports
    /\ sent' = sent + 1
    /\ clock' \in IF SameMs THEN {clock, clock + 1} ELSE {clock + 1}
    /\ flight' = flight \cup
           {[state |-> state, jobs |-> jobs, seq |-> clock', no |-> sent + 1]}

AgentStart ==
    /\ agentActive' = TRUE
    /\ idleTimer' = FALSE
    /\ SendsReport(State(TRUE, blocked))
    /\ UNCHANGED <<blocked, jobs, lastJobsKey, agent, polled, lost>>

(* Mutant: the end of a turn is never reported. *)
AgentEndSilent ==
    /\ agentActive
    /\ agentActive' = FALSE
    /\ idleTimer' = FALSE
    /\ UNCHANGED <<blocked, jobs, lastJobsKey, sendVars, agent, polled, lost>>

(* The idle report waits 250 ms: the next turn may start at once. *)
AgentEnd ==
    /\ agentActive
    /\ agentActive' = FALSE
    /\ idleTimer' = TRUE
    /\ UNCHANGED <<blocked, jobs, lastJobsKey, sendVars, agent, polled, lost>>

IdleTimerFires ==
    /\ idleTimer
    /\ idleTimer' = FALSE
    /\ SendsReport(State(agentActive, blocked))
    /\ UNCHANGED <<agentActive, blocked, jobs, lastJobsKey, agent, polled,
                   lost>>

ApprovalRequested ==
    /\ blocked < Approvals
    /\ blocked' = blocked + 1
    /\ SendsReport(State(agentActive, blocked + 1))
    /\ UNCHANGED <<agentActive, idleTimer, jobs, lastJobsKey, agent, polled,
                   lost>>

ApprovalResolved ==
    /\ blocked' = IF blocked > 0 THEN blocked - 1 ELSE 0
    /\ SendsReport(State(agentActive, blocked'))
    /\ UNCHANGED <<agentActive, idleTimer, jobs, lastJobsKey, agent, polled,
                   lost>>

(* The agent starts or ends a background job. *)
JobsChange ==
    /\ \E set \in SUBSET Job : set # jobs /\ jobs' = set
    /\ polled' = FALSE
    /\ UNCHANGED <<agentActive, blocked, idleTimer, lastJobsKey, sendVars,
                   agent, lost>>

(* Every second: a report only when the set differs from the last one that *)
(* pollJobs itself reported.                                               *)
PollJobs ==
    /\ polled' = TRUE
    /\ IF jobs = lastJobsKey
       THEN UNCHANGED <<lastJobsKey, sendVars>>
       ELSE /\ lastJobsKey' = jobs
            /\ SendsReport(State(agentActive, blocked))
    /\ UNCHANGED <<agentActive, blocked, idleTimer, jobs, agent, lost>>

-----------------------------------------------------------------------------
(* The daemon. *)

(* Mutant: the report that arrives last is the one kept. *)
ApplyUnordered(r) ==
    /\ agent' = r
    /\ flight' = flight \ {r}
    /\ UNCHANGED <<extVars, clock, sent, polled, lost>>

ApplyReport(r) ==
    /\ agent' = IF agent.seq > r.seq THEN agent ELSE r
    /\ flight' = flight \ {r}
    /\ UNCHANGED <<extVars, clock, sent, polled, lost>>

ReportLost(r) ==
    /\ flight' = flight \ {r}
    /\ lost' = lost \cup {r.no}
    /\ UNCHANGED <<extVars, clock, sent, agent, polled>>

ReportsNext ==
    \/ AgentStart \/ AgentEnd \/ IdleTimerFires
    \/ ApprovalRequested \/ ApprovalResolved
    \/ JobsChange \/ PollJobs
    \/ \E r \in flight : ApplyReport(r) \/ ReportLost(r)

ReportsSpec == ReportsInit /\ [][ReportsNext]_reportsVars

-----------------------------------------------------------------------------
ReportsTypeOK ==
    /\ agentActive \in BOOLEAN
    /\ blocked \in 0 .. Approvals
    /\ idleTimer \in BOOLEAN
    /\ jobs \subseteq Job /\ lastJobsKey \subseteq Job
    /\ clock \in Nat /\ sent \in 0 .. MaxReports
    /\ flight \subseteq Report
    /\ agent \in Report
    /\ polled \in BOOLEAN
    /\ lost \subseteq 1 .. MaxReports

(***************************************************************************)
(* "Keep the highest seq per pane so late or duplicated reports cannot     *)
(* travel the state backwards" (apply_report): the report that is shown    *)
(* was never sent before the one it replaces.                              *)
(***************************************************************************)
NeverBackwards == [][agent'.no >= agent.no]_agent

(***************************************************************************)
(* Once no report is on its way and no debounce is pending, the badge      *)
(* shows the state the agent is in, whatever order the reports arrived in  *)
(* and whichever of the earlier ones were lost.                            *)
(***************************************************************************)
StateSettles ==
    flight = {} /\ ~idleTimer /\ sent \notin lost =>
        agent.state = State(agentActive, blocked)

(***************************************************************************)
(* "Job rows re-report only on membership/status change" (pollJobs): once  *)
(* a poll has seen the jobs and every report is delivered, the daemon      *)
(* lists the jobs that run.                                                *)
(***************************************************************************)
JobsSettle == flight = {} /\ lost = {} /\ polled => agent.jobs = jobs
=============================================================================
