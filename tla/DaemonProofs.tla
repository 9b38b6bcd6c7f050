---------------------------- MODULE DaemonProofs ----------------------------
(***************************************************************************)
(* Theorems about the parts of the daemon that SessionPane does not hold:  *)
(* the reports of the agents (AgentReports), the paste tracker             *)
(* (PasteTracker) and the replay ring chunk by chunk (ReplayRing), for     *)
(* every value of their constants and every interleaving; and, with the    *)
(* registry's, the types of all of them (MCDaemon).                        *)
(*                                                                         *)
(* The reports come first, as long as no two of them carry the same        *)
(* millisecond.  With SameMs = TRUE both properties are false: of two      *)
(* reports with one clock the daemon keeps the one it applies last.        *)
(***************************************************************************)
EXTENDS MCDaemon, PaneRingProofs, RegistryProofs

(* Every report that can still be told from the newest one: those under    *)
(* way and the one shown.                                                  *)
Known == flight \cup {agent}

(* Reports are numbered as they are sent, and the clock numbers them too.  *)
Numbered ==
    /\ clock = sent
    /\ \A r \in flight : r.no \in 1 .. sent
    /\ agent.no \in 0 .. sent
    /\ \A r \in Known : r.seq = r.no
    /\ \A r, q \in Known : r.no = q.no => r = q

(* The newest report tells the agent's state, until the debounce of the    *)
(* next one begins; it is under way or shown, unless it was lost.          *)
NewestTells ==
    sent \notin lost /\ ~idleTimer =>
        \E r \in Known : r.no = sent /\ r.state = State(agentActive, blocked)

ReportsInv == ReportsTypeOK /\ Numbered /\ NewestTells

-----------------------------------------------------------------------------
(* What the extension tells is one of the three states. *)
LEMMA StateType ==
    ASSUME NEW a \in BOOLEAN, NEW n \in Nat
    PROVE  State(a, n) \in {"working", "blocked", "idle"}
BY DEF State

(* The invariant holds before the first report, *)
LEMMA ReportsInvInit ==
    ASSUME ReportsInit
    PROVE  ReportsInv
<1>1. NoReport \in Report
  BY DEF NoReport, Report
<1>2. ReportsTypeOK
  <2>1. blocked \in 0 .. Approvals /\ sent \in 0 .. MaxReports /\ clock \in Nat
    BY ReportsAssumption DEF ReportsInit
  <2>2. /\ jobs \subseteq Job /\ lastJobsKey \subseteq Job
        /\ flight \subseteq Report /\ lost \subseteq 1 .. MaxReports
    BY DEF ReportsInit
  <2> QED
    BY <1>1, <2>1, <2>2 DEF ReportsInit, ReportsTypeOK
<1>3. Numbered
  BY DEF ReportsInit, Numbered, Known, NoReport
<1>4. NewestTells
  BY DEF ReportsInit, NewestTells, Known, NoReport, State
<1> QED
  BY <1>2, <1>3, <1>4 DEF ReportsInv

(* A report is sent: it is the newest, and it tells the state. *)
LEMMA SendsNewest ==
    ASSUME SameMs = FALSE, ReportsInv, NEW s \in {"working", "blocked", "idle"},
           SendsReport(s), agent' = agent
    PROVE  /\ clock' \in Nat /\ sent' \in 0 .. MaxReports
           /\ flight' \subseteq Report
           /\ Numbered'
           /\ \E r \in Known' : r.no = sent' /\ r.state = s
<1> DEFINE new == [state |-> s, jobs |-> jobs, seq |-> clock', no |-> sent + 1]
<1>1. /\ sent < MaxReports /\ sent' = sent + 1 /\ clock' = clock + 1
      /\ flight' = flight \cup {new}
  BY DEF SendsReport
<1>2. /\ clock = sent /\ sent \in 0 .. MaxReports /\ MaxReports \in Nat
      /\ jobs \subseteq Job /\ flight \subseteq Report /\ agent \in Report
  BY ReportsAssumption DEF ReportsInv, ReportsTypeOK, Numbered
<1>3. /\ new \in Report /\ new.no = sent' /\ new.seq = new.no /\ new.state = s
  BY <1>1, <1>2 DEF Report
<1> HIDE DEF new
<1>4. clock' \in Nat /\ sent' \in 0 .. MaxReports /\ flight' \subseteq Report
  BY <1>1, <1>2, <1>3
<1>5. Known' = Known \cup {new}
  BY <1>1 DEF Known
<1>6. \A r \in Known : r.no \in 0 .. sent /\ r.seq = r.no
  BY <1>2 DEF ReportsInv, Numbered, Known
<1>7. \A r \in Known : r.no # new.no
  BY <1>1, <1>2, <1>3, <1>6
<1>8. Numbered'
  <2>1. clock' = sent'
    BY <1>1, <1>2
  <2>2. \A r \in flight' : r.no \in 1 .. sent'
    BY <1>1, <1>2, <1>3 DEF ReportsInv, Numbered
  <2>3. agent'.no \in 0 .. sent'
    BY <1>1, <1>2 DEF ReportsInv, Numbered
  <2>4. \A r \in Known' : r.seq = r.no
    BY <1>3, <1>5, <1>6
  <2>5. \A r, q \in Known' : r.no = q.no => r = q
    BY <1>5, <1>7 DEF ReportsInv, Numbered
  <2> QED
    BY <2>1, <2>2, <2>3, <2>4, <2>5 DEF Numbered
<1> QED
  BY <1>3, <1>4, <1>5, <1>8

(* and every step keeps it, as the clock moves between two reports. *)
LEMMA ReportsInvStep ==
    ASSUME SameMs = FALSE, ReportsInv, [ReportsNext]_reportsVars
    PROVE  ReportsInv'
<1>0. /\ ReportsTypeOK /\ Numbered /\ NewestTells
      /\ agentActive \in BOOLEAN /\ blocked \in Nat /\ Approvals \in Nat
  BY ReportsAssumption DEF ReportsInv, ReportsTypeOK
<1>1. CASE AgentStart
  <2>1. State(TRUE, blocked) \in {"working", "blocked", "idle"}
    BY <1>0, StateType
  <2>2. SendsReport(State(TRUE, blocked)) /\ agent' = agent
    BY <1>1 DEF AgentStart
  <2>3. /\ clock' \in Nat /\ sent' \in 0 .. MaxReports
        /\ flight' \subseteq Report
        /\ Numbered'
        /\ \E r \in Known' : r.no = sent' /\ r.state = State(TRUE, blocked)
    BY <2>1, <2>2, SendsNewest
  <2> QED
    BY <1>0, <1>1, <2>3 DEF AgentStart, ReportsInv, ReportsTypeOK, NewestTells
<1>2. CASE AgentEnd
  BY <1>0, <1>2 DEF AgentEnd, ReportsInv, ReportsTypeOK, Numbered, Known,
                    NewestTells, sendVars
<1>3. CASE IdleTimerFires
  <2>1. State(agentActive, blocked) \in {"working", "blocked", "idle"}
    BY <1>0, StateType
  <2>2. SendsReport(State(agentActive, blocked)) /\ agent' = agent
    BY <1>3 DEF IdleTimerFires
  <2>3. /\ clock' \in Nat /\ sent' \in 0 .. MaxReports
        /\ flight' \subseteq Report
        /\ Numbered'
        /\ \E r \in Known' : r.no = sent' /\ r.state = State(agentActive, blocked)
    BY <2>1, <2>2, SendsNewest
  <2> QED
    BY <1>0, <1>3, <2>3 DEF IdleTimerFires, ReportsInv, ReportsTypeOK, NewestTells
<1>4. CASE ApprovalRequested
  <2>1. State(agentActive, blocked + 1) \in {"working", "blocked", "idle"}
    BY <1>0, StateType
  <2>2. SendsReport(State(agentActive, blocked + 1)) /\ agent' = agent
    BY <1>4 DEF ApprovalRequested
  <2>3. /\ clock' \in Nat /\ sent' \in 0 .. MaxReports
        /\ flight' \subseteq Report
        /\ Numbered'
        /\ \E r \in Known' : r.no = sent' /\ r.state = State(agentActive, blocked + 1)
    BY <2>1, <2>2, SendsNewest
  <2> QED
    BY <1>0, <1>4, <2>3 DEF ApprovalRequested, ReportsInv, ReportsTypeOK, NewestTells
<1>5. CASE ApprovalResolved
  <2>0. blocked' \in 0 .. Approvals
    BY <1>0, <1>5 DEF ApprovalResolved, ReportsTypeOK
  <2>1. State(agentActive, blocked') \in {"working", "blocked", "idle"}
    BY <1>0, <2>0, StateType
  <2>2. SendsReport(State(agentActive, blocked')) /\ agent' = agent
    BY <1>5 DEF ApprovalResolved
  <2>3. /\ clock' \in Nat /\ sent' \in 0 .. MaxReports
        /\ flight' \subseteq Report
        /\ Numbered'
        /\ \E r \in Known' : r.no = sent' /\ r.state = State(agentActive, blocked')
    BY <2>1, <2>2, SendsNewest
  <2> QED
    BY <1>0, <1>5, <2>0, <2>3 DEF ApprovalResolved, ReportsInv, ReportsTypeOK, NewestTells
<1>6. CASE JobsChange
  BY <1>0, <1>6 DEF JobsChange, ReportsInv, ReportsTypeOK, Numbered, Known,
                    NewestTells, sendVars
<1>7. CASE PollJobs
  <2>1. CASE jobs = lastJobsKey
    BY <1>0, <1>7, <2>1 DEF PollJobs, ReportsInv, ReportsTypeOK, Numbered, Known,
                            NewestTells, sendVars
  <2>2. CASE jobs # lastJobsKey
    <3>1. State(agentActive, blocked) \in {"working", "blocked", "idle"}
      BY <1>0, StateType
    <3>2. SendsReport(State(agentActive, blocked)) /\ agent' = agent
      BY <1>7, <2>2 DEF PollJobs
    <3>3. /\ clock' \in Nat /\ sent' \in 0 .. MaxReports
          /\ flight' \subseteq Report
          /\ Numbered'
          /\ \E r \in Known' : r.no = sent' /\ r.state = State(agentActive, blocked)
      BY <3>1, <3>2, SendsNewest
    <3> QED
      BY <1>0, <1>7, <2>2, <3>3 DEF PollJobs, ReportsInv, ReportsTypeOK, NewestTells
  <2> QED
    BY <2>1, <2>2
<1>8. ASSUME NEW r \in flight, ApplyReport(r) PROVE ReportsInv'
  <2>1. /\ agent' = IF agent.seq > r.seq THEN agent ELSE r
        /\ flight' = flight \ {r}
        /\ UNCHANGED <<agentActive, blocked, idleTimer, jobs, lastJobsKey,
                       clock, sent, polled, lost>>
    BY <1>8 DEF ApplyReport, extVars
  <2>2. agent' \in {agent, r} /\ Known' \subseteq Known
    BY <2>1 DEF Known
  <2>3. ReportsTypeOK'
    BY <1>0, <2>1, <2>2 DEF ReportsTypeOK
  <2>4. Numbered'
    BY <1>0, <2>1, <2>2 DEF Numbered, Known
  <2>5. NewestTells'
    <3> SUFFICES ASSUME sent \notin lost, ~idleTimer
                 PROVE  \E q \in Known' : q.no = sent
                            /\ q.state = State(agentActive, blocked)
      BY <2>1 DEF NewestTells
    <3>1. PICK q \in Known : q.no = sent /\ q.state = State(agentActive, blocked)
      BY <1>0 DEF NewestTells
    <3>2. q.seq = sent /\ sent \in Nat /\ r \in Known /\ agent \in Known
      BY <1>0, <3>1 DEF Numbered, Known, ReportsTypeOK
    <3>3. CASE q \in flight /\ q # r
      BY <2>1, <3>1, <3>3 DEF Known
    <3>4. CASE q = r
      <4>1. agent.seq \in 0 .. sent /\ r.seq = sent
        BY <1>0, <3>2, <3>4 DEF Numbered
      <4>2. agent' = r
        BY <2>1, <3>2, <4>1
      <4> QED
        BY <3>1, <3>4, <4>2 DEF Known
    <3>5. CASE q = agent /\ q # r
      <4>1. r.seq \in 1 .. sent /\ r.seq # sent /\ agent.seq = sent
        BY <1>0, <3>1, <3>2, <3>5 DEF Numbered
      <4>2. agent' = agent
        BY <2>1, <3>2, <4>1
      <4> QED
        BY <3>1, <3>5, <4>2 DEF Known
    <3> QED
      BY <3>3, <3>4, <3>5 DEF Known
  <2> QED
    BY <2>3, <2>4, <2>5 DEF ReportsInv
<1>9. ASSUME NEW r \in flight, ReportLost(r) PROVE ReportsInv'
  <2>1. /\ flight' = flight \ {r} /\ lost' = lost \cup {r.no}
        /\ UNCHANGED <<agentActive, blocked, idleTimer, jobs, lastJobsKey,
                       clock, sent, agent, polled>>
    BY <1>9 DEF ReportLost, extVars
  <2>2. r.no \in 1 .. MaxReports
    BY <1>0, ReportsAssumption DEF Numbered, ReportsTypeOK
  <2>3. ReportsTypeOK'
    BY <1>0, <2>1, <2>2 DEF ReportsTypeOK
  <2>4. Numbered'
    BY <1>0, <2>1 DEF Numbered, Known
  <2>5. NewestTells'
    BY <1>0, <2>1 DEF NewestTells, Known
  <2> QED
    BY <2>3, <2>4, <2>5 DEF ReportsInv
<1>10. CASE UNCHANGED reportsVars
  BY <1>0, <1>10 DEF reportsVars, ReportsInv, ReportsTypeOK, Numbered, Known, NewestTells
<1> QED
  BY <1>1, <1>2, <1>3, <1>4, <1>5, <1>6, <1>7, <1>8, <1>9, <1>10 DEF ReportsNext

-----------------------------------------------------------------------------
(* The invariant holds in every reachable state. *)
LEMMA ReportsInvariant ==
    ASSUME SameMs = FALSE
    PROVE  ReportsSpec => []ReportsInv
<1>1. ReportsInit => ReportsInv
  BY ReportsInvInit
<1>2. ReportsInv /\ [ReportsNext]_reportsVars => ReportsInv'
  BY ReportsInvStep
<1> QED
  BY <1>1, <1>2, PTL DEF ReportsSpec

(* apply_report: however late or often overtaken reports arrive, the badge *)
(* never goes back to a report sent before the one it shows.               *)
THEOREM BadgeNeverGoesBack ==
    ASSUME SameMs = FALSE
    PROVE  ReportsSpec => NeverBackwards
<1>1. ReportsInv /\ [ReportsNext]_reportsVars => [agent'.no >= agent.no]_agent
  <2> SUFFICES ASSUME ReportsInv, ReportsNext, agent' # agent
               PROVE  agent'.no >= agent.no
    BY DEF reportsVars
  <2>1. PICK r \in flight : ApplyReport(r)
    BY DEF ReportsNext, AgentStart, AgentEnd, IdleTimerFires, ApprovalRequested,
           ApprovalResolved, JobsChange, PollJobs, ReportLost
  <2>2. agent' = r /\ ~(agent.seq > r.seq)
    BY <2>1 DEF ApplyReport
  <2>3. /\ r.seq = r.no /\ agent.seq = agent.no
        /\ r.no \in Nat /\ agent.no \in Nat
    BY DEF ReportsInv, ReportsTypeOK, Numbered, Known
  <2> QED
    BY <2>2, <2>3
<1> QED
  BY <1>1, ReportsInvariant, PTL DEF ReportsSpec, NeverBackwards

(* Once nothing is under way and no debounce is pending, the badge shows   *)
(* the agent's state, unless the newest report was lost.                   *)
THEOREM BadgeSettles ==
    ASSUME SameMs = FALSE
    PROVE  ReportsSpec => []StateSettles
<1>1. ReportsInv => StateSettles
  BY DEF ReportsInv, NewestTells, StateSettles, Known
<1> QED
  BY <1>1, ReportsInvariant, PTL

-----------------------------------------------------------------------------
(* The paste tracker.                                                      *)
(*                                                                         *)
(* A switch that ends in what was just read lies within the carry and the  *)
(* read, because the carry is one byte shorter than a switch; one that     *)
(* does not was seen before.  So the switches of the stream are the old    *)
(* ones and, behind them, those of the buffer that feed searches.          *)

(* A bound that is met is the maximum. *)
LEMMA MaxIs ==
    ASSUME NEW T \in SUBSET Int, NEW m \in T, \A y \in T : m >= y
    PROVE  Max(T) = m
<1>1. \E x \in T : \A y \in T : x >= y
  OBVIOUS
<1>2. Max(T) \in T /\ \A y \in T : Max(T) >= y
  BY <1>1 DEF Max
<1>3. Max(T) \in Int /\ m \in Int /\ Max(T) >= m /\ m >= Max(T)
  BY <1>2
<1> HIDE DEF Max
<1> QED
  BY <1>3

(* Numbers with a bound have a maximum. *)
LEMMA MaxOf ==
    ASSUME NEW n \in Nat, NEW T \in SUBSET (1 .. n), T # {}
    PROVE  Max(T) \in T /\ \A y \in T : Max(T) >= y
<1> DEFINE D == {n - x : x \in T}
<1>1. D \in SUBSET Nat /\ D # {}
  <2>1. \A x \in T : n - x \in Nat
    OBVIOUS
  <2> QED
    BY <2>1
<1>2. PICK d \in D : \A y \in D : d <= y
  BY <1>1, LeastNatural
<1>3. PICK m \in T : d = n - m
  BY <1>2
<1>4. \A y \in T : m >= y
  <2> SUFFICES ASSUME NEW y \in T PROVE m >= y
    OBVIOUS
  <2>1. n - y \in D
    OBVIOUS
  <2> QED
    BY <1>2, <1>3, <2>1
<1>5. Max(T) = m
  BY <1>4, MaxIs
<1> QED
  BY <1>4, <1>5

(* The lesser of two numbers. *)
LEMMA MinOfTwo ==
    ASSUME NEW i \in Int, NEW j \in Int
    PROVE  Min({i, j}) = IF i <= j THEN i ELSE j
<1> DEFINE m == IF i <= j THEN i ELSE j
<1>1. m \in {i, j} /\ \A y \in {i, j} : m <= y
  OBVIOUS
<1>2. Min({i, j}) \in {i, j} /\ \A y \in {i, j} : Min({i, j}) <= y
  BY <1>1 DEF Min
<1> QED
  BY <1>2

(* A word occurs where its bytes stand. *)
LEMMA OccursAt ==
    ASSUME NEW buf \in Seq(Symbol), NEW w \in Seq(Symbol)
    PROVE  Occurrences(buf, w) =
               {i \in 1 .. Len(buf) - Len(w) + 1 : \A k \in 1 .. Len(w) : buf[i + k - 1] = w[k]}
<1> DEFINE n == Len(buf)
           l == Len(w)
<1>1. n \in Nat /\ l \in Nat
  OBVIOUS
<1> SUFFICES ASSUME NEW i \in 1 .. n - l + 1
             PROVE  SubSeq(buf, i, i + l - 1) = w <=> \A k \in 1 .. l : buf[i + k - 1] = w[k]
  BY DEF Occurrences
<1> DEFINE sub == SubSeq(buf, i, i + l - 1)
<1>2. sub \in Seq(Symbol) /\ Len(sub) = l /\ \A k \in 1 .. l : sub[k] = buf[i + k - 1]
  <2>1. \A k \in i .. i + l - 1 : buf[k] \in Symbol
    BY <1>1
  <2>3. sub = [k \in 1 .. i + l - 1 - i + 1 |-> buf[i + k - 1]]
    OBVIOUS
  <2>4. i + l - 1 - i + 1 = l
    BY <1>1
  <2>5. sub = [k \in 1 .. l |-> buf[i + k - 1]]
    BY <2>3, <2>4
  <2>6. \A k \in 1 .. l : i + k - 1 \in i .. i + l - 1
    BY <1>1
  <2>7. \A k \in 1 .. l : buf[i + k - 1] \in Symbol
    BY <2>1, <2>6
  <2> HIDE DEF sub, l
  <2>8. sub \in Seq(Symbol) /\ Len(sub) = l
    BY <1>1, <2>5, <2>7
  <2>9. \A k \in 1 .. l : sub[k] = buf[i + k - 1]
    BY <2>5
  <2> QED
    BY <2>8, <2>9
<1> HIDE DEF sub
<1>3. \A k \in 1 .. l : sub[k] = buf[i + k - 1]
  BY <1>2
<1>4. sub = w <=> \A k \in 1 .. l : sub[k] = w[k]
  <2>1. ASSUME \A k \in 1 .. l : sub[k] = w[k] PROVE sub = w
    BY <1>2, <2>1, SeqEqual
  <2> QED
    BY <2>1
<1> QED
  BY <1>3, <1>4 DEF sub

(* The end of a sequence. *)
LEMMA EndOf ==
    ASSUME NEW S, NEW s \in Seq(S), NEW n \in 0 .. Len(s)
    PROVE  /\ SubSeq(s, Len(s) - n + 1, Len(s)) \in Seq(S)
           /\ Len(SubSeq(s, Len(s) - n + 1, Len(s))) = n
           /\ \A i \in 1 .. n : SubSeq(s, Len(s) - n + 1, Len(s))[i] = s[Len(s) - n + i]
<1> DEFINE m == Len(s)
           a == m - n + 1
           sub == SubSeq(s, a, m)
<1>1. m \in Nat /\ a \in 1 .. m + 1 /\ n \in Nat /\ m - a + 1 = n
  OBVIOUS
<1>2. sub = [k \in 1 .. m - a + 1 |-> s[a + k - 1]]
  OBVIOUS
<1>3. sub = [k \in 1 .. n |-> s[a + k - 1]]
  BY <1>1, <1>2
<1>4. \A k \in 1 .. n : a + k - 1 \in 1 .. m /\ a + k - 1 = m - n + k
  BY <1>1
<1>5. \A k \in 1 .. n : s[a + k - 1] \in S
  BY <1>4
<1> HIDE DEF sub
<1>6. sub \in Seq(S) /\ Len(sub) = n
  BY <1>1, <1>3, <1>5
<1>7. \A k \in 1 .. n : sub[k] = s[m - n + k]
  BY <1>3, <1>4
<1> QED
  BY <1>6, <1>7 DEF sub

LastOnes(end, s, n) == Len(end) = n /\ \A k \in 1 .. n : end[k] = s[Len(s) - n + k]

(* The end with what is added is the end of the whole. *)
LEMMA EndJoined ==
    ASSUME NEW S, NEW past \in Seq(S), NEW new \in Seq(S), NEW keep \in 0 .. Len(past),
           NEW end \in Seq(S), LastOnes(end, past, keep)
    PROVE  /\ past \o new \in Seq(S) /\ Len(past \o new) = Len(past) + Len(new)
           /\ end \o new \in Seq(S)
           /\ LastOnes(end \o new, past \o new, keep + Len(new))
<1> DEFINE m == Len(past)
           n == Len(new)
           o == m - keep
           all == past \o new
           buf == end \o new
<1>1. m \in Nat /\ n \in Nat
  OBVIOUS
<1>2. keep \in 0 .. m /\ o \in Nat
  BY <1>1
<1>3. /\ end \in Seq(S) /\ Len(end) = keep
      /\ \A k \in 1 .. keep : end[k] = past[o + k]
  BY DEF LastOnes
<1>4. /\ all \in Seq(S) /\ Len(all) = m + n
      /\ \A k \in 1 .. m + n : all[k] = IF k <= m THEN past[k] ELSE new[k - m]
  BY ConcatProperties
<1> HIDE DEF all
<1>5. /\ buf \in Seq(S) /\ Len(buf) = keep + n
      /\ \A k \in 1 .. keep + n : buf[k] = IF k <= keep THEN end[k] ELSE new[k - keep]
  <2>1. /\ buf \in Seq(S) /\ Len(buf) = Len(end) + n
        /\ \A k \in 1 .. Len(end) + n : buf[k] = IF k <= Len(end) THEN end[k] ELSE new[k - Len(end)]
    BY <1>3, ConcatProperties
  <2> QED
    BY <1>3, <2>1
<1>0. o = m - keep
  OBVIOUS
<1> HIDE DEF m, n, o, buf
<1>6. \A k \in 1 .. keep + n : o + k \in Int /\ buf[k] = all[o + k]
  <2> SUFFICES ASSUME NEW k \in 1 .. keep + n PROVE o + k \in Int /\ buf[k] = all[o + k]
    OBVIOUS
  <2>1. k \in Int /\ o + k \in 1 .. m + n /\ (o + k <= m <=> k <= keep) /\ (k > keep => o + k - m = k - keep)
    BY <1>0, <1>1, <1>2
  <2>2. CASE k <= keep
    <3>1. k \in 1 .. keep
      BY <2>1, <2>2
    <3>2. buf[k] = end[k] /\ end[k] = past[o + k]
      BY <1>3, <1>5, <2>2, <3>1 DEF o, m
    <3> QED
      BY <1>4, <2>1, <2>2, <3>2
  <2>3. CASE k > keep
    <3>1. buf[k] = new[k - keep]
      BY <1>2, <1>5, <2>1, <2>3
    <3>2. ~(o + k <= m)
      BY <1>2, <2>1, <2>3
    <3>3. all[o + k] = new[o + k - m]
      <4>1. \A x \in 1 .. m + n : ~(x <= m) => all[x] = new[x - m]
        BY <1>4
      <4>2. PICK x \in 1 .. m + n : x = o + k /\ ~(x <= m)
        BY <2>1, <3>2
      <4>3. all[x] = new[x - m]
        BY <4>1, <4>2
      <4>4. x - m = o + k - m
        BY <1>1, <1>2, <2>1, <4>2
      <4> QED
        BY <4>2, <4>3, <4>4
    <3> QED
      BY <2>1, <2>3, <3>1, <3>3
  <2> QED
    BY <1>2, <2>1, <2>2, <2>3
<1>7. LastOnes(buf, all, keep + n)
  <2>1. (m + n) - (keep + n) = o
    BY <1>0, <1>1, <1>2
  <2> QED
    BY <1>4, <1>5, <1>6, <2>1 DEF LastOnes
<1> QED
  BY <1>4, <1>5, <1>7 DEF m, n, o, all, buf

(* The words of a sequence that grew: the old ones and, further on, those  *)
(* of its end with what was added.                                         *)
LEMMA OccursAcross ==
    ASSUME NEW past \in Seq(Symbol), NEW new \in Seq(Symbol), NEW w \in Seq(Symbol), Len(w) > 0,
           NEW keep \in 0 .. Len(past), keep < Len(w), keep < Len(w) - 1 => keep = Len(past),
           NEW end \in Seq(Symbol), LastOnes(end, past, keep)
    PROVE  \A i \in Int :
              i \in Occurrences(past \o new, w) <=>
                 \/ i \in Occurrences(past, w) /\ i <= Len(past) - keep
                 \/ i - (Len(past) - keep) \in Occurrences(end \o new, w)
<1>14. \A b \in Seq(Symbol) : Occurrences(b, w) =
           {x \in 1 .. Len(b) - Len(w) + 1 : \A k \in 1 .. Len(w) : b[x + k - 1] = w[k]}
  BY OccursAt
<1>16. /\ past \o new \in Seq(Symbol) /\ Len(past \o new) = Len(past) + Len(new)
       /\ end \o new \in Seq(Symbol)
       /\ LastOnes(end \o new, past \o new, keep + Len(new))
  BY EndJoined
<1> DEFINE m == Len(past)
           n == Len(new)
           l == Len(w)
           o == m - keep
           all == past \o new
           buf == end \o new
<1>1. m \in Nat /\ n \in Nat /\ l \in Nat \ {0}
  OBVIOUS
<1>2. keep \in 0 .. m /\ keep <= l - 1 /\ o \in Nat /\ (keep < l - 1 => o = 0)
  BY <1>1
<1>4. /\ all \in Seq(Symbol) /\ buf \in Seq(Symbol)
      /\ Len(all) = m + n /\ Len(buf) = keep + n
      /\ \A k \in 1 .. keep + n : buf[k] = all[o + k]
  <2>1. (m + n) - (keep + n) = o
    BY <1>1, <1>2
  <2>2. all \in Seq(Symbol) /\ buf \in Seq(Symbol) /\ Len(all) = m + n /\ LastOnes(buf, all, keep + n)
    BY <1>16
  <2> HIDE DEF all, buf, o
  <2> QED
    BY <2>1, <2>2 DEF LastOnes
<1>15. \A k \in 1 .. m : all[k] = past[k]
  BY <1>1, ConcatProperties
<1>0. o = m - keep
  OBVIOUS
<1> HIDE DEF all, buf
<1>12. all \in Seq(Symbol) /\ buf \in Seq(Symbol)
  BY <1>4
<1>13. Len(all) - Len(w) + 1 = m + n - l + 1 /\ Len(buf) - Len(w) + 1 = keep + n - l + 1
  <2>1. Len(all) = m + n /\ Len(buf) = keep + n /\ Len(w) = l
    BY <1>4 DEF l
  <2> QED
    BY <2>1
<1> HIDE DEF m, n, l, o, buf
<1>6. \A k \in 1 .. keep + n : o + k \in Int /\ buf[k] = all[o + k]
  BY <1>1, <1>2, <1>4
<1>7. Occurrences(all, w) = {x \in 1 .. m + n - l + 1 : \A k \in 1 .. l : all[x + k - 1] = w[k]}
  <2>1. Occurrences(all, w) = {x \in 1 .. Len(all) - Len(w) + 1 :
                                  \A k \in 1 .. Len(w) : all[x + k - 1] = w[k]}
    BY <1>12, <1>14
  <2> QED
    BY <1>13, <2>1 DEF l
<1>8. Occurrences(past, w) = {x \in 1 .. m - l + 1 : \A k \in 1 .. l : past[x + k - 1] = w[k]}
  BY OccursAt DEF m, l
<1>9. Occurrences(buf, w) = {x \in 1 .. keep + n - l + 1 :
                                \A k \in 1 .. l : buf[x + k - 1] = w[k]}
  <2>1. Occurrences(buf, w) = {x \in 1 .. Len(buf) - Len(w) + 1 :
                                  \A k \in 1 .. Len(w) : buf[x + k - 1] = w[k]}
    BY <1>12, <1>14
  <2> QED
    BY <1>13, <2>1 DEF l
<1> SUFFICES ASSUME NEW i \in Int
             PROVE  i \in Occurrences(all, w) <=>
                       \/ i \in Occurrences(past, w) /\ i <= o
                       \/ i - o \in Occurrences(buf, w)
  BY DEF m, o, all, buf
<1>10. CASE i <= o
  <2>1. i - o \notin 1 .. keep + n - l + 1
    BY <1>1, <1>2, <1>10
  <2>2. i \in 1 .. m + n - l + 1 => i \in 1 .. m - l + 1
    BY <1>0, <1>1, <1>2, <1>10
  <2>3. i \in 1 .. m - l + 1 => /\ i \in 1 .. m + n - l + 1
                               /\ \A k \in 1 .. l : all[i + k - 1] = past[i + k - 1]
    <3> SUFFICES ASSUME i \in 1 .. m - l + 1
                 PROVE  /\ i \in 1 .. m + n - l + 1
                        /\ \A k \in 1 .. l : all[i + k - 1] = past[i + k - 1]
      OBVIOUS
    <3>1. \A k \in 1 .. l : i + k - 1 \in 1 .. m
      BY <1>1
    <3> QED
      BY <1>1, <1>15, <3>1
  <2>4. i \in Occurrences(all, w) <=> i \in Occurrences(past, w)
    BY <1>7, <1>8, <2>2, <2>3
  <2>5. i - o \notin Occurrences(buf, w)
    BY <1>9, <2>1
  <2> QED
    BY <1>10, <2>4, <2>5
<1>11. CASE i > o
  <2>1. i \in 1 .. m + n - l + 1 <=> i - o \in 1 .. keep + n - l + 1
    BY <1>0, <1>1, <1>2, <1>11
  <2>2. i - o \in 1 .. keep + n - l + 1 =>
            \A k \in 1 .. l : buf[i - o + k - 1] = all[i + k - 1]
    <3> SUFFICES ASSUME i - o \in 1 .. keep + n - l + 1, NEW k \in 1 .. l
                 PROVE  buf[i - o + k - 1] = all[i + k - 1]
      OBVIOUS
    <3>0. i - o >= 1 /\ i - o <= keep + n - l + 1 /\ k >= 1 /\ k <= l /\ k \in Int
      BY <1>1, <1>2
    <3>1. i - o + k - 1 \in 1 .. keep + n /\ o + (i - o + k - 1) = i + k - 1
      <4>1. i - o + k - 1 \in Int /\ i - o + k - 1 >= 1
        BY <1>1, <1>2, <3>0
      <4>2. i - o + k - 1 <= keep + n
        BY <1>1, <1>2, <3>0
      <4>3. o + (i - o + k - 1) = i + k - 1
        BY <1>1, <1>2, <3>0
      <4> QED
        BY <1>1, <1>2, <4>1, <4>2, <4>3
    <3> DEFINE x == i - o + k - 1
    <3> HIDE DEF x
    <3>2. buf[x] = all[o + x]
      BY <1>6, <3>1 DEF x
    <3> QED
      BY <3>1, <3>2 DEF x
  <2>3. i \in Occurrences(all, w) <=> i - o \in Occurrences(buf, w)
    BY <1>7, <1>9, <2>1, <2>2
  <2>4. ~(i <= o)
    BY <1>2, <1>11
  <2> QED
    BY <2>3, <2>4
<1> QED
  BY <1>2, <1>10, <1>11

Carried(s) == IF Len(s) <= Len(On) - 1 THEN Len(s) ELSE Len(On) - 1

(* What is kept is the end of what was fed. *)
LEMMA KeptIsEnd ==
    ASSUME NEW s \in Seq(Symbol)
    PROVE  /\ Kept(s) \in Seq(Symbol) /\ LastOnes(Kept(s), s, Carried(s))
           /\ Carried(s) \in 0 .. Len(s) /\ Carried(s) < Len(On)
           /\ Carried(s) < Len(On) - 1 => Carried(s) = Len(s)
<1> DEFINE keep == Carried(s)
<1>1. Len(On) \in Nat \ {0} /\ Len(s) \in Nat
  BY PasteAssumption
<1>2. keep \in 0 .. Len(s) /\ keep < Len(On) /\ (keep < Len(On) - 1 => keep = Len(s))
  BY <1>1 DEF Carried
<1>3. Min({Len(s), Len(On) - 1}) = keep
  BY <1>1, MinOfTwo DEF Carried
<1> HIDE DEF keep
<1>4. Kept(s) = SubSeq(s, Len(s) - keep + 1, Len(s))
  BY <1>3 DEF Kept
<1>5. Kept(s) \in Seq(Symbol) /\ LastOnes(Kept(s), s, keep)
  BY <1>2, <1>4, EndOf DEF LastOnes
<1> QED
  BY <1>2, <1>5 DEF keep

(* The last occurrence decides. *)
LEMMA ModeByLast ==
    ASSUME NEW buf, NEW before, NEW m \in Int,
           Occurrences(buf, On) \cup Occurrences(buf, Off) \subseteq Int,
           m \in Occurrences(buf, On) \cup Occurrences(buf, Off),
           \A i \in Occurrences(buf, On) \cup Occurrences(buf, Off) : m >= i
    PROVE  ModeAfter(buf, before) = (m \in Occurrences(buf, On))
<1> DEFINE T == Occurrences(buf, On) \cup Occurrences(buf, Off)
<1>1. T \in SUBSET Int /\ m \in T /\ \A i \in T : m >= i
  OBVIOUS
<1>2. ModeAfter(buf, before) = IF T = {} THEN before ELSE Max(T) \in Occurrences(buf, On)
  BY DEF ModeAfter
<1> HIDE DEF T
<1>3. Max(T) = m
  BY <1>1, MaxIs
<1> QED
  BY <1>1, <1>2, <1>3

(* Occurrences are numbers up to the length. *)
LEMMA OccurrencesIn ==
    ASSUME NEW buf \in Seq(Symbol), NEW w \in Seq(Symbol), Len(w) > 0
    PROVE  Occurrences(buf, w) \in SUBSET (1 .. Len(buf))
<1>1. \A i \in 1 .. Len(buf) - Len(w) + 1 : i \in 1 .. Len(buf)
  OBVIOUS
<1> QED
  BY <1>1 DEF Occurrences

(* The mode after a stream is the mode after its beginning, and then after *)
(* the carry with the rest.                                                *)
LEMMA ModeAcross ==
    ASSUME NEW past \in Seq(Symbol), NEW new \in Seq(Symbol), NEW before
    PROVE  ModeAfter(past \o new, before) = ModeAfter(Kept(past) \o new, ModeAfter(past, before))
<1> DEFINE all == past \o new
           buf == Kept(past) \o new
           o == Len(past) - Carried(past)
           Either(s) == Occurrences(s, On) \cup Occurrences(s, Off)
<1>1. /\ On \in Seq(Symbol) /\ Off \in Seq(Symbol) /\ Len(On) = Len(Off) /\ Len(On) > 0
  BY PasteAssumption
<1>2. /\ Kept(past) \in Seq(Symbol) /\ LastOnes(Kept(past), past, Carried(past))
      /\ Carried(past) \in 0 .. Len(past) /\ Carried(past) < Len(On)
      /\ Carried(past) < Len(On) - 1 => Carried(past) = Len(past)
  BY KeptIsEnd
<1>3. all \in Seq(Symbol) /\ buf \in Seq(Symbol) /\ o \in Nat
  BY <1>2, ConcatProperties
<1>4. ASSUME NEW w \in {On, Off}
      PROVE  /\ \A i \in Int : i \in Occurrences(all, w) <=>
                    \/ i \in Occurrences(past, w) /\ i <= o
                    \/ i - o \in Occurrences(buf, w)
             /\ Occurrences(all, w) \in SUBSET (1 .. Len(all))
             /\ Occurrences(past, w) \in SUBSET (1 .. Len(past))
             /\ Occurrences(buf, w) \in SUBSET (1 .. Len(buf))
             /\ \A i \in Occurrences(past, w) : i <= o
  <2>1. w \in Seq(Symbol) /\ Len(w) = Len(On)
    BY <1>1
  <2>2. \A i \in Int : i \in Occurrences(all, w) <=>
            \/ i \in Occurrences(past, w) /\ i <= o
            \/ i - o \in Occurrences(buf, w)
    BY <1>1, <1>2, <2>1, OccursAcross
  <2>3. /\ Occurrences(all, w) \in SUBSET (1 .. Len(all))
        /\ Occurrences(past, w) \in SUBSET (1 .. Len(past))
        /\ Occurrences(buf, w) \in SUBSET (1 .. Len(buf))
    BY <1>1, <1>3, <2>1, OccurrencesIn
  <2>4. ASSUME NEW i \in Occurrences(past, w) PROVE i <= o
    <3>1. i \in 1 .. Len(past) - Len(w) + 1
      BY <2>4 DEF Occurrences
    <3> QED
      BY <1>1, <1>2, <2>1, <3>1
  <2> QED
    BY <2>2, <2>3, <2>4
<1> HIDE DEF all, buf, o
<1>5. /\ Either(all) \in SUBSET (1 .. Len(all)) /\ Either(past) \in SUBSET (1 .. Len(past))
      /\ Either(buf) \in SUBSET (1 .. Len(buf))
      /\ \A i \in Int : i \in Either(all) <=> i \in Either(past) \/ i - o \in Either(buf)
      /\ \A i \in Either(past) : i <= o
  BY <1>4
<1>6. Len(all) \in Nat /\ Len(buf) \in Nat /\ Len(past) \in Nat
  BY <1>3
<1>7. CASE Either(buf) = {}
  <2>1. ModeAfter(buf, ModeAfter(past, before)) = ModeAfter(past, before)
    BY <1>7 DEF ModeAfter
  <2>2. Occurrences(all, On) = Occurrences(past, On) /\ Occurrences(all, Off) = Occurrences(past, Off)
    <3>1. ASSUME NEW w \in {On, Off}, Occurrences(buf, w) = {}
          PROVE  Occurrences(all, w) = Occurrences(past, w)
      <4>1. \A i \in Int : i - o \notin Occurrences(buf, w)
        BY <3>1
      <4>2. \A i \in Int : i \in Occurrences(all, w) <=> i \in Occurrences(past, w)
        BY <1>4, <4>1
      <4>3. Occurrences(all, w) \subseteq Int /\ Occurrences(past, w) \subseteq Int
        BY <1>4
      <4> QED
        BY <4>2, <4>3
    <3> QED
      BY <1>7, <3>1
  <2>3. ModeAfter(all, before) = ModeAfter(past, before)
    BY <2>2 DEF ModeAfter
  <2> QED
    BY <2>1, <2>3 DEF all, buf
<1>8. CASE Either(buf) # {}
  <2> DEFINE m == Max(Either(buf))
  <2>1. m \in Either(buf) /\ \A y \in Either(buf) : m >= y
    <3> HIDE DEF Either
    <3> QED
      BY <1>5, <1>6, <1>8, MaxOf
  <2> HIDE DEF m
  <2>2. m \in Int /\ m + o \in Int /\ (m + o) - o = m /\ m >= 1
    BY <1>3, <1>5, <1>6, <2>1
  <2>3. m + o \in Either(all)
    <3> HIDE DEF Either
    <3> DEFINE x == m + o
    <3>1. x \in Int /\ x - o \in Either(buf)
      BY <2>1, <2>2
    <3> HIDE DEF x
    <3>2. x \in Either(all)
      BY <1>5, <3>1
    <3> QED
      BY <3>2 DEF x
  <2>4. \A i \in Either(all) : m + o >= i
    <3> HIDE DEF Either
    <3> SUFFICES ASSUME NEW i \in Either(all) PROVE m + o >= i
      OBVIOUS
    <3>1. i \in Int
      BY <1>5
    <3>2. CASE i \in Either(past)
      BY <1>3, <1>5, <2>2, <3>1, <3>2
    <3>3. CASE i - o \in Either(buf)
      BY <1>3, <2>1, <2>2, <3>1, <3>3
    <3> QED
      BY <1>5, <3>1, <3>2, <3>3
  <2>5. ModeAfter(all, before) = (m + o \in Occurrences(all, On))
    <3>1. Either(all) \subseteq Int
      BY <1>5
    <3> DEFINE x == m + o
    <3>2. x \in Int /\ x \in Either(all) /\ \A i \in Either(all) : x >= i
      BY <2>2, <2>3, <2>4
    <3> HIDE DEF x
    <3>3. ModeAfter(all, before) = (x \in Occurrences(all, On))
      BY <3>1, <3>2, ModeByLast
    <3> QED
      BY <3>3 DEF x
  <2>6. ModeAfter(buf, ModeAfter(past, before)) = (m \in Occurrences(buf, On))
    <3>1. Either(buf) \subseteq Int
      BY <1>5
    <3> QED
      BY <2>1, <2>2, <3>1, ModeByLast
  <2>7. m + o \in Occurrences(all, On) <=> m \in Occurrences(buf, On)
    <3>1. ~(m + o <= o)
      BY <1>3, <2>2
    <3>2. m + o \in Occurrences(all, On) <=> (m + o) - o \in Occurrences(buf, On)
      <4> DEFINE x == m + o
      <4>1. x \in Int /\ ~(x <= o)
        BY <2>2, <3>1
      <4>2. \A i \in Int : i \in Occurrences(all, On) <=>
                \/ i \in Occurrences(past, On) /\ i <= o
                \/ i - o \in Occurrences(buf, On)
        BY <1>4
      <4> HIDE DEF x
      <4>3. x \in Occurrences(all, On) <=> x - o \in Occurrences(buf, On)
        BY <4>1, <4>2
      <4> QED
        BY <4>3 DEF x
    <3> QED
      BY <2>2, <3>2
  <2> QED
    BY <2>5, <2>6, <2>7 DEF all, buf
<1> QED
  BY <1>7, <1>8

(* The carry is the end of the stream, not just of the last buffer. *)
LEMMA KeptAcross ==
    ASSUME NEW past \in Seq(Symbol), NEW new \in Seq(Symbol)
    PROVE  Kept(Kept(past) \o new) = Kept(past \o new)
<1> DEFINE all == past \o new
           buf == Kept(past) \o new
           n == Carried(all)
<1>1. /\ Kept(past) \in Seq(Symbol) /\ LastOnes(Kept(past), past, Carried(past))
      /\ Carried(past) \in 0 .. Len(past)
  BY KeptIsEnd
<1>2. /\ all \in Seq(Symbol) /\ Len(all) = Len(past) + Len(new)
      /\ buf \in Seq(Symbol) /\ LastOnes(buf, all, Carried(past) + Len(new))
  BY <1>1, EndJoined
<1> HIDE DEF all, buf
<1>3. Len(buf) = Carried(past) + Len(new)
  BY <1>2 DEF LastOnes
<1>4. Carried(buf) = n
  <2>1. Len(past) \in Nat /\ Len(new) \in Nat /\ Len(On) \in Nat \ {0}
    BY PasteAssumption
  <2> QED
    BY <1>2, <1>3, <2>1 DEF Carried
<1>5. /\ Kept(buf) \in Seq(Symbol) /\ LastOnes(Kept(buf), buf, n) /\ n \in 0 .. Len(buf)
      /\ Kept(all) \in Seq(Symbol) /\ LastOnes(Kept(all), all, n) /\ n \in 0 .. Len(all)
  BY <1>2, <1>4, KeptIsEnd
<1> HIDE DEF n
<1>6. \A k \in 1 .. n : Kept(buf)[k] = Kept(all)[k]
  <2> SUFFICES ASSUME NEW k \in 1 .. n PROVE Kept(buf)[k] = Kept(all)[k]
    OBVIOUS
  <2> DEFINE x == Len(buf) - n + k
             y == Len(all) - Len(buf) + x
  <2>0. Len(buf) \in Nat /\ Len(all) \in Nat /\ n \in Nat
    BY <1>2, <1>5
  <2>1. x \in 1 .. Len(buf)
    BY <1>5, <2>0
  <2>2. y = Len(all) - n + k
    BY <2>0
  <2>3. Kept(buf)[k] = buf[x] /\ Kept(all)[k] = all[y]
    BY <1>5, <2>2 DEF LastOnes
  <2>4. buf[x] = all[y]
    <3> HIDE DEF x
    <3> QED
      BY <1>2, <1>3, <2>1 DEF LastOnes
  <2> QED
    BY <2>3, <2>4
<1>7. Len(Kept(buf)) = n /\ Len(Kept(all)) = n
  BY <1>5 DEF LastOnes
<1> QED
  BY <1>5, <1>6, <1>7, SeqEqual DEF all, buf

(* What the tracker remembers is what the stream says. *)
PasteTracks ==
    /\ stream \in Seq(Symbol)
    /\ carry = Kept(stream)
    /\ mode = ModeAfter(stream, FALSE)

(* However the reads cut the stream, the tracked mode is that of its last  *)
(* complete switch (feed, and the carry that is one byte shorter than a    *)
(* switch), for any alphabet and any two switches of one length.           *)
THEOREM TrackerSeesEverySwitch == PasteSpec => []ModeIsLastSwitch
<1>1. PasteInit => PasteTracks
  <2> SUFFICES ASSUME PasteInit PROVE PasteTracks
    OBVIOUS
  <2>1. <<>> \in Seq(Symbol) /\ Len(<<>>) = 0
    BY EmptySeq
  <2>2. Kept(<<>>) = <<>>
    <3>1. Kept(<<>>) \in Seq(Symbol) /\ Len(Kept(<<>>)) = Carried(<<>>)
      BY <2>1, KeptIsEnd DEF LastOnes
    <3>2. Carried(<<>>) = 0
      <4>1. Carried(<<>>) \in 0 .. Len(<<>>)
        BY <2>1, KeptIsEnd
      <4> QED
        BY <2>1, <4>1
    <3> QED
      BY <3>1, <3>2, EmptySeq
  <2>3. Occurrences(<<>>, On) = {} /\ Occurrences(<<>>, Off) = {}
    <3>1. /\ Occurrences(<<>>, On) \in SUBSET (1 .. Len(<<>>))
          /\ Occurrences(<<>>, Off) \in SUBSET (1 .. Len(<<>>))
      BY <2>1, PasteAssumption, OccurrencesIn
    <3> QED
      BY <2>1, <3>1
  <2>4. ModeAfter(<<>>, FALSE) = FALSE
    BY <2>3 DEF ModeAfter
  <2> QED
    BY <2>1, <2>2, <2>4 DEF PasteInit, PasteTracks
<1>2. PasteTracks /\ [PasteReads]_pasteVars => PasteTracks'
  <2> SUFFICES ASSUME PasteTracks, [PasteReads]_pasteVars PROVE PasteTracks'
    OBVIOUS
  <2>1. CASE PasteReads
    <3>1. PICK n \in 1 .. MaxFeed : \E bytes \in [1 .. n -> Symbol] :
              Feed(bytes) /\ stream' = stream \o bytes
      BY <2>1 DEF PasteReads
    <3>2. PICK bytes \in [1 .. n -> Symbol] : Feed(bytes) /\ stream' = stream \o bytes
      BY <3>1
    <3>3. bytes \in Seq(Symbol) /\ stream \in Seq(Symbol)
      BY PasteAssumption DEF PasteTracks
    <3>4. /\ mode' = ModeAfter(Kept(stream) \o bytes, ModeAfter(stream, FALSE))
          /\ carry' = Kept(Kept(stream) \o bytes)
      BY <3>2 DEF Feed, PasteTracks
    <3>5. mode' = ModeAfter(stream \o bytes, FALSE) /\ carry' = Kept(stream \o bytes)
      BY <3>3, <3>4, ModeAcross, KeptAcross
    <3>6. stream' \in Seq(Symbol)
      BY <3>2, <3>3, ConcatProperties
    <3> QED
      BY <3>2, <3>5, <3>6 DEF PasteTracks
  <2>2. CASE UNCHANGED pasteVars
    <3>1. stream' = stream /\ carry' = carry /\ mode' = mode
      BY <2>2 DEF pasteVars
    <3> QED
      BY <3>1 DEF PasteTracks
  <2> QED
    BY <2>1, <2>2
<1> QED
  BY <1>1, <1>2, PTL DEF PasteSpec, PasteTracks, ModeIsLastSwitch

(***************************************************************************)
(* Iteration.  A function that is applied again and again: the recursions  *)
(* of the ring have this form.                                             *)
(***************************************************************************)

(* What f makes of x in each of n rounds. *)
Rounds(f, x, n, h) ==
    /\ h[0] = x
    /\ \A i \in 0 .. n - 1 : h[i + 1] = f[h[i]]

(* g is what f makes of x in any number of rounds. *)
AllRounds(f, x, g) == g[0] = x /\ \A n \in Nat : g[n + 1] = f[g[n]]

(* There is such a function. *)
LEMMA Iterates ==
    ASSUME NEW S, NEW f \in [S -> S], NEW x \in S
    PROVE  \E g \in [Nat -> S] : AllRounds(f, x, g)
<1> DEFINE U == {n \in Nat : \E h \in [0 .. n -> S] : Rounds(f, x, n, h)}
<1>1. 0 \in U
  <2> DEFINE h == [i \in 0 .. 0 |-> x]
  <2>1. h \in [0 .. 0 -> S] /\ Rounds(f, x, 0, h)
    BY DEF Rounds
  <2> QED
    BY <2>1
<1>2. ASSUME NEW n \in Nat, n \in U PROVE n + 1 \in U
  <2>1. PICK h \in [0 .. n -> S] : Rounds(f, x, n, h)
    BY <1>2
  <2> DEFINE g == [i \in 0 .. n + 1 |-> IF i = n + 1 THEN f[h[n]] ELSE h[i]]
  <2>2. n \in 0 .. n /\ f[h[n]] \in S
    OBVIOUS
  <2>3. g \in [0 .. n + 1 -> S]
    BY <2>2
  <2>4. ASSUME NEW i \in 0 .. (n + 1) - 1 PROVE g[i + 1] = f[g[i]]
    <3>1. i \in 0 .. n + 1 /\ i + 1 \in 0 .. n + 1 /\ i # n + 1 /\ g[i] = h[i]
      OBVIOUS
    <3>2. CASE i = n
      BY <3>1, <3>2
    <3>3. CASE i # n
      <4>1. i \in 0 .. n - 1 /\ i + 1 # n + 1
        BY <3>3
      <4>2. h[i + 1] = f[h[i]]
        BY <2>1, <4>1 DEF Rounds
      <4> QED
        BY <3>1, <4>1, <4>2
    <3> QED
      BY <3>2, <3>3
  <2>5. g[0] = x
    <3>1. 0 \in 0 .. n + 1 /\ 0 # n + 1
      OBVIOUS
    <3> QED
      BY <2>1, <3>1 DEF Rounds
  <2> HIDE DEF g
  <2>6. Rounds(f, x, n + 1, g)
    BY <2>4, <2>5 DEF Rounds
  <2> QED
    BY <2>3, <2>6
<1>3. Nat \subseteq U
  <2> HIDE DEF U
  <2> QED
    BY <1>1, <1>2, NaturalsBySet
<1> DEFINE R(n) == CHOOSE h \in [0 .. n -> S] : Rounds(f, x, n, h)
<1>4. \A n \in Nat : R(n) \in [0 .. n -> S] /\ Rounds(f, x, n, R(n))
  <2> SUFFICES ASSUME NEW n \in Nat
               PROVE  R(n) \in [0 .. n -> S] /\ Rounds(f, x, n, R(n))
    OBVIOUS
  <2>1. \E h \in [0 .. n -> S] : Rounds(f, x, n, h)
    BY <1>3
  <2> QED
    BY <2>1
<1> HIDE DEF R
<1>5. ASSUME NEW n \in Nat PROVE R(n + 1)[n] = R(n)[n]
  <2> DEFINE V == {i \in Nat : i <= n => R(n + 1)[i] = R(n)[i]}
  <2>0. Rounds(f, x, n, R(n)) /\ Rounds(f, x, n + 1, R(n + 1))
    BY <1>4
  <2>1. 0 \in V
    BY <2>0 DEF Rounds
  <2>2. ASSUME NEW i \in Nat, i \in V PROVE i + 1 \in V
    <3>1. CASE i + 1 <= n
      <4>1. i \in 0 .. n - 1 /\ i \in 0 .. (n + 1) - 1 /\ i <= n
        BY <3>1
      <4>2. R(n)[i + 1] = f[R(n)[i]] /\ R(n + 1)[i + 1] = f[R(n + 1)[i]]
        BY <2>0, <4>1 DEF Rounds
      <4> QED
        BY <2>2, <4>1, <4>2
    <3>2. CASE ~(i + 1 <= n)
      BY <3>2
    <3> QED
      BY <3>1, <3>2
  <2> HIDE DEF V
  <2>3. Nat \subseteq V
    BY <2>1, <2>2, NaturalsBySet
  <2> QED
    BY <2>3 DEF V
<1> DEFINE g == [n \in Nat |-> R(n)[n]]
<1>6. g \in [Nat -> S]
  BY <1>4
<1>7. g[0] = x
  BY <1>4 DEF Rounds
<1>8. ASSUME NEW n \in Nat PROVE g[n + 1] = f[g[n]]
  <2>1. R(n + 1)[n + 1] = f[R(n + 1)[n]]
    <3>1. n \in 0 .. (n + 1) - 1
      OBVIOUS
    <3> QED
      BY <1>4, <3>1 DEF Rounds
  <2> QED
    BY <1>5, <2>1
<1> HIDE DEF g
<1> QED
  BY <1>6, <1>7, <1>8 DEF AllRounds

-----------------------------------------------------------------------------
(***************************************************************************)
(* Shapes: the segments of a ring in PaneRing's form.                      *)
(***************************************************************************)

(* A segment with its deque, and the segments of a ring. *)
DequeSegment == [size : Size, deque : [front : 0 .. DequeCap - 1, bytes : Seq(Nat)]]

(* A segment in PaneRing's form. *)
BareSegment == Segment(Nat)

(* The fields of a segment. *)
LEMMA DequeSegmentFields ==
    ASSUME NEW s \in DequeSegment
    PROVE  /\ s.size \in Size /\ s.deque.front \in 0 .. DequeCap - 1
           /\ s.deque.bytes \in Seq(Nat)
           /\ Bare(s) \in BareSegment
           /\ Bare(s).size = s.size /\ Bare(s).bytes = s.deque.bytes
BY DEF DequeSegment, BareSegment, Segment, Bare

(* The fields of a segment of PaneRing. *)
LEMMA BareSegmentFields ==
    /\ \A s \in BareSegment : s.size \in Size /\ s.bytes \in Seq(Nat)
                              /\ s = [size |-> s.size, bytes |-> s.bytes]
    /\ \A z \in Size : \A bs \in Seq(Nat) :
           [size |-> z, bytes |-> bs] \in BareSegment
BY DEF BareSegment, Segment

(* Each segment has its shape. *)
LEMMA BaresAre ==
    ASSUME NEW segs \in Seq(DequeSegment)
    PROVE  /\ Bares(segs) \in Seq(BareSegment)
           /\ Len(Bares(segs)) = Len(segs)
           /\ \A i \in 1 .. Len(segs) : Bares(segs)[i] = Bare(segs[i])
<1> DEFINE n == Len(segs)
           f == [i \in 1 .. n |-> Bare(segs[i])]
<1>1. n \in Nat /\ \A i \in 1 .. n : Bare(segs[i]) \in BareSegment
  BY DequeSegmentFields
<1>2. f \in Seq(BareSegment) /\ Len(f) = n /\ \A i \in 1 .. n : f[i] = Bare(segs[i])
  BY <1>1
<1>3. Bares(segs) = <<>> \o f
  BY DEF Bares
<1> HIDE DEF f
<1>4. <<>> \o f = f
  BY <1>2, ConcatEmptySeq
<1> QED
  BY <1>2, <1>3, <1>4

(* The shape of what is left when the head is popped. *)
LEMMA BaresTail ==
    ASSUME NEW segs \in Seq(DequeSegment), segs # <<>>
    PROVE  Bares(Tail(segs)) = Tail(Bares(segs))
<1> DEFINE t == Tail(segs)
           x == Bares(segs)
           a == Bares(t)
           b == Tail(x)
<1>1. /\ t \in Seq(DequeSegment) /\ Len(t) = Len(segs) - 1
      /\ \A i \in 1 .. Len(t) : t[i] = segs[i + 1]
      /\ Len(segs) \in Nat \ {0}
  BY HeadTailProperties
<1>2. /\ x \in Seq(BareSegment) /\ Len(x) = Len(segs)
      /\ \A i \in 1 .. Len(segs) : x[i] = Bare(segs[i])
  BY BaresAre
<1> HIDE DEF t, x
<1>3. /\ a \in Seq(BareSegment) /\ Len(a) = Len(t)
      /\ \A i \in 1 .. Len(t) : a[i] = Bare(t[i])
  BY <1>1, BaresAre
<1>4. x # <<>>
  BY <1>1, <1>2
<1>5. /\ b \in Seq(BareSegment) /\ Len(b) = Len(x) - 1
      /\ \A i \in 1 .. Len(b) : b[i] = x[i + 1]
  BY <1>2, <1>4, HeadTailProperties
<1> HIDE DEF a, b
<1>6. \A i \in 1 .. Len(a) : a[i] = b[i]
  <2> SUFFICES ASSUME NEW i \in 1 .. Len(a) PROVE a[i] = b[i]
    OBVIOUS
  <2>1. i \in 1 .. Len(t) /\ i \in 1 .. Len(b) /\ i + 1 \in 1 .. Len(segs)
    BY <1>1, <1>2, <1>3, <1>5
  <2> QED
    BY <1>1, <1>2, <1>3, <1>5, <2>1
<1>7. a = b
  BY <1>1, <1>2, <1>3, <1>5, <1>6, SeqEqual
<1> QED
  BY <1>7 DEF a, b, t, x

(* The shape of segments of which one is replaced. *)
LEMMA BaresExcept ==
    ASSUME NEW segs \in Seq(DequeSegment), NEW k \in 1 .. Len(segs),
           NEW s \in DequeSegment
    PROVE  /\ [segs EXCEPT ![k] = s] \in Seq(DequeSegment)
           /\ Len([segs EXCEPT ![k] = s]) = Len(segs)
           /\ Bares([segs EXCEPT ![k] = s]) = [Bares(segs) EXCEPT ![k] = Bare(s)]
<1> DEFINE t == [segs EXCEPT ![k] = s]
           x == Bares(segs)
           a == Bares(t)
           b == [x EXCEPT ![k] = Bare(s)]
<1>1. /\ t \in Seq(DequeSegment) /\ Len(t) = Len(segs)
      /\ \A i \in 1 .. Len(segs) : t[i] = IF i = k THEN s ELSE segs[i]
  BY ExceptSeq
<1>2. /\ x \in Seq(BareSegment) /\ Len(x) = Len(segs)
      /\ \A i \in 1 .. Len(segs) : x[i] = Bare(segs[i])
  BY BaresAre
<1>3. Bare(s) \in BareSegment
  BY DequeSegmentFields
<1> HIDE DEF t, x
<1>4. /\ a \in Seq(BareSegment) /\ Len(a) = Len(t)
      /\ \A i \in 1 .. Len(t) : a[i] = Bare(t[i])
  BY <1>1, BaresAre
<1>5. /\ b \in Seq(BareSegment) /\ Len(b) = Len(x)
      /\ \A i \in 1 .. Len(x) : b[i] = IF i = k THEN Bare(s) ELSE x[i]
  BY <1>2, <1>3, ExceptSeq
<1> HIDE DEF a, b
<1>6. \A i \in 1 .. Len(a) : a[i] = b[i]
  BY <1>1, <1>2, <1>4, <1>5
<1>7. a = b
  BY <1>1, <1>2, <1>4, <1>5, <1>6, SeqEqual
<1> QED
  BY <1>1, <1>7 DEF a, b, t, x

(* The shape of segments behind which one is opened. *)
LEMMA BaresAppend ==
    ASSUME NEW segs \in Seq(DequeSegment), NEW s \in DequeSegment
    PROVE  Bares(Append(segs, s)) = Append(Bares(segs), Bare(s))
<1> DEFINE t == Append(segs, s)
           x == Bares(segs)
           a == Bares(t)
           b == Append(x, Bare(s))
           n == Len(segs)
<1>1. /\ t \in Seq(DequeSegment) /\ Len(t) = n + 1 /\ t[n + 1] = s /\ n \in Nat
      /\ \A i \in 1 .. n : t[i] = segs[i]
  BY AppendProperties
<1>2. /\ x \in Seq(BareSegment) /\ Len(x) = n
      /\ \A i \in 1 .. n : x[i] = Bare(segs[i])
  BY BaresAre
<1>3. Bare(s) \in BareSegment
  BY DequeSegmentFields
<1> HIDE DEF t, x, n
<1>4. /\ a \in Seq(BareSegment) /\ Len(a) = Len(t)
      /\ \A i \in 1 .. Len(t) : a[i] = Bare(t[i])
  BY <1>1, BaresAre
<1>5. /\ b \in Seq(BareSegment) /\ Len(b) = n + 1 /\ b[n + 1] = Bare(s)
      /\ \A i \in 1 .. n : b[i] = x[i]
  BY <1>2, <1>3, AppendProperties
<1> HIDE DEF a, b
<1>6. \A i \in 1 .. Len(a) : a[i] = b[i]
  BY <1>1, <1>2, <1>4, <1>5
<1>7. a = b
  BY <1>1, <1>2, <1>4, <1>5, <1>6, SeqEqual
<1> QED
  BY <1>7 DEF a, b, t, x

(* All bytes of the segments, oldest first. *)
Content(x) == FlattenSeq(BytesIn(x))

(* Segments of which only the newest may be empty. *)
Proper(x) ==
    /\ x \in Seq(BareSegment) /\ x # <<>>
    /\ \A i \in 1 .. Len(x) - 1 : x[i].bytes # <<>>

(* They are bytes. *)
LEMMA ContentType ==
    ASSUME NEW x \in Seq(BareSegment)
    PROVE  Content(x) \in Seq(Nat)
<1>1. Carries(BareSegment, Nat)
  BY Carriers DEF BareSegment
<1>2. BytesIn(x) \in Seq(Seq(Nat))
  BY <1>1, BytesInType
<1> QED
  BY <1>2, FlattenType DEF Content

(* The bytes of a single segment. *)
LEMMA ContentOfOne ==
    ASSUME NEW s \in BareSegment
    PROVE  << s >> \in Seq(BareSegment) /\ Content(<< s >>) = s.bytes
<1> DEFINE bs == s.bytes
<1>1. bs \in Seq(Nat)
  BY BareSegmentFields
<1>2. BytesIn(<< s >>) = << bs >>
  BY DEF BytesIn
<1> HIDE DEF bs
<1>3. FlattenSeq(<< bs >>) = bs
  BY <1>1, FlattenOne
<1> QED
  BY <1>2, <1>3 DEF Content, bs

(* Segments whose head is empty hold nothing. *)
LEMMA EmptyHead ==
    ASSUME NEW x, Proper(x), x[1].bytes = <<>>
    PROVE  Len(x) = 1 /\ Content(x) = <<>>
<1>1. x \in Seq(BareSegment) /\ Len(x) \in Nat /\ Len(x) >= 1 /\ x[1] \in BareSegment
  BY DEF Proper
<1>2. Len(x) = 1
  <2> DEFINE n == Len(x)
  <2>1. ~(1 \in 1 .. n - 1)
    BY DEF Proper
  <2>2. n \in Nat /\ n >= 1
    BY <1>1
  <2> HIDE DEF n
  <2>3. n = 1
    BY <2>1, <2>2
  <2> QED
    BY <2>3 DEF n
<1>3. x = << x[1] >>
  BY <1>1, <1>2
<1>4. Content(<< x[1] >>) = <<>>
  BY <1>1, ContentOfOne
<1> QED
  BY <1>2, <1>3, <1>4

(* Segments that hold nothing are one empty segment. *)
LEMMA NothingHeld ==
    ASSUME NEW x, Proper(x), Content(x) = <<>>
    PROVE  Len(x) = 1 /\ x[1].bytes = <<>>
<1>0. x \in Seq(BareSegment) /\ Len(x) \in Nat /\ Len(x) >= 1 /\ x[1] \in BareSegment
      /\ x # <<>>
  BY DEF Proper
<1>1. Carries(BareSegment, Nat)
  BY Carriers DEF BareSegment
<1> DEFINE s == BytesIn(x)
           others == FlattenSeq(Tail(s))
<1>2. s \in Seq(Seq(Nat)) /\ Len(s) = Len(x) /\ s[1] = x[1].bytes
  BY <1>0, <1>1, BytesInType
<1> HIDE DEF s
<1>3. s # <<>> /\ Head(s) = x[1].bytes /\ Tail(s) \in Seq(Seq(Nat))
  BY <1>0, <1>2, HeadTailProperties
<1>4. others \in Seq(Nat) /\ x[1].bytes \in Seq(Nat)
  BY <1>0, <1>3, FlattenType, BareSegmentFields
<1>5. FlattenSeq(s) = x[1].bytes \o others
  BY <1>2, <1>3, FlattenHead
<1> HIDE DEF others
<1>6. Len(x[1].bytes \o others) = Len(x[1].bytes) + Len(others)
  BY <1>4, ConcatProperties
<1>7. Len(x[1].bytes \o others) = 0
  BY <1>5 DEF Content, s
<1>8. Len(x[1].bytes) = 0
  BY <1>4, <1>6, <1>7
<1>9. x[1].bytes = <<>>
  BY <1>4, <1>8, EmptySeq
<1> QED
  BY <1>9, EmptyHead

(* Whoever has bytes has one in its head. *)
LEMMA HeadHolds ==
    ASSUME NEW x, Proper(x), Len(Content(x)) > 0
    PROVE  x[1].bytes # <<>>
<1> SUFFICES ASSUME x[1].bytes = <<>> PROVE FALSE
  OBVIOUS
<1>1. Content(x) = <<>>
  BY EmptyHead
<1>2. Len(<<>>) = 0
  OBVIOUS
<1> QED
  BY <1>1, <1>2

(* The drained head, while it is not empty. *)
LEMMA DrainedHead ==
    ASSUME NEW x \in Seq(BareSegment), x # <<>>, NEW bs \in Seq(Nat)
    PROVE  LET y == [x EXCEPT ![1] = WithBytes(@, bs)]
           IN  /\ y \in Seq(BareSegment) /\ Len(y) = Len(x)
               /\ y[1] = [size |-> x[1].size, bytes |-> bs]
               /\ \A i \in 2 .. Len(x) : y[i] = x[i]
<1> DEFINE y == [x EXCEPT ![1] = WithBytes(@, bs)]
           s == WithBytes(x[1], bs)
           z == [x EXCEPT ![1] = s]
<1>1. Len(x) \in Nat /\ 1 \in 1 .. Len(x) /\ x[1] \in BareSegment
  OBVIOUS
<1>2. s \in BareSegment /\ s = [size |-> x[1].size, bytes |-> bs]
  BY <1>1, BareSegmentFields DEF WithBytes
<1>3. y = z
  OBVIOUS
<1> HIDE DEF s, y
<1>4. /\ z \in Seq(BareSegment) /\ Len(z) = Len(x)
      /\ \A i \in 1 .. Len(x) : z[i] = IF i = 1 THEN s ELSE x[i]
  BY <1>1, <1>2, ExceptSeq
<1> HIDE DEF z
<1>5. /\ y \in Seq(BareSegment) /\ Len(y) = Len(x)
      /\ y[1] = [size |-> x[1].size, bytes |-> bs]
      /\ \A i \in 2 .. Len(x) : y[i] = x[i]
  BY <1>1, <1>2, <1>3, <1>4
<1> QED
  BY <1>5 DEF y

(* A byte is drained: the others stay, and so does the newest geometry. *)
LEMMA DrainOneProper ==
    ASSUME NEW x, Proper(x), x[1].bytes # <<>>
    PROVE  /\ Proper(DrainOne(x))
           /\ Content(DrainOne(x)) = Tail(Content(x))
           /\ Len(Content(x)) \in Nat /\ Len(Content(x)) >= 1
           /\ Len(Content(DrainOne(x))) = Len(Content(x)) - 1
           /\ Len(DrainOne(x)) <= Len(x)
           /\ DrainOne(x)[Len(DrainOne(x))].size = x[Len(x)].size
<1> DEFINE rest == Tail(x[1].bytes)
           y == DrainOne(x)
           n == Len(x)
<1>1. x \in Seq(BareSegment) /\ x # <<>> /\ n \in Nat /\ n >= 1 /\ x[1] \in BareSegment
      /\ \A i \in 1 .. n - 1 : x[i].bytes # <<>>
  BY DEF Proper
<1>2. Content(y) = Tail(Content(x))
  BY <1>1, DrainOneBytes DEF Content, BareSegment
<1>3. x[1].bytes \in Seq(Nat) /\ rest \in Seq(Nat)
  BY <1>1, BareSegmentFields, HeadTailProperties
<1>4. Content(x) \in Seq(Nat) /\ Content(x) # <<>>
  <2>1. Content(x) = <<>> => x[1].bytes = <<>>
    BY NothingHeld
  <2> QED
    BY <1>1, <2>1, ContentType
<1>5. /\ Len(Content(x)) \in Nat /\ Len(Content(x)) >= 1
      /\ Len(Tail(Content(x))) = Len(Content(x)) - 1
  BY <1>4, HeadTailProperties, EmptySeq
<1>6. /\ Proper(y) /\ Len(y) <= n /\ y[Len(y)].size = x[n].size
  <2>1. CASE rest = <<>> /\ n > 1
    <3>1. y = Tail(x)
      BY <2>1 DEF DrainOne
    <3>2. /\ y \in Seq(BareSegment) /\ Len(y) = n - 1
          /\ \A i \in 1 .. Len(y) : y[i] = x[i + 1]
      BY <1>1, <3>1, HeadTailProperties
    <3> HIDE DEF y, n
    <3>3. y # <<>> /\ Len(y) \in 1 .. Len(y) /\ Len(y) + 1 = n
      BY <1>1, <2>1, <3>2
    <3>4. \A i \in 1 .. Len(y) - 1 : y[i].bytes # <<>>
      <4> SUFFICES ASSUME NEW i \in 1 .. Len(y) - 1 PROVE y[i].bytes # <<>>
        OBVIOUS
      <4>1. i \in 1 .. Len(y) /\ i + 1 \in 1 .. n - 1
        BY <1>1, <3>2
      <4> QED
        BY <1>1, <3>2, <4>1
    <3>5. y[Len(y)] = x[n]
      BY <3>2, <3>3
    <3> QED
      BY <1>1, <3>2, <3>3, <3>4, <3>5 DEF Proper
  <2>2. CASE ~(rest = <<>> /\ n > 1)
    <3>1. y = [x EXCEPT ![1] = WithBytes(@, rest)]
      BY <2>2 DEF DrainOne
    <3> HIDE DEF y, rest
    <3>2. /\ y \in Seq(BareSegment) /\ Len(y) = n
          /\ y[1] = [size |-> x[1].size, bytes |-> rest]
          /\ \A i \in 2 .. n : y[i] = x[i]
      <4> DEFINE w == [x EXCEPT ![1] = WithBytes(@, rest)]
      <4>1. /\ w \in Seq(BareSegment) /\ Len(w) = Len(x)
            /\ w[1] = [size |-> x[1].size, bytes |-> rest]
            /\ \A i \in 2 .. Len(x) : w[i] = x[i]
        BY <1>1, <1>3, DrainedHead
      <4>2. y = w
        BY <3>1
      <4> HIDE DEF w
      <4> QED
        BY <4>1, <4>2
    <3> HIDE DEF n
    <3>3. y # <<>>
      BY <1>1, <3>2
    <3>4. \A i \in 1 .. n - 1 : y[i].bytes # <<>>
      <4> SUFFICES ASSUME NEW i \in 1 .. n - 1 PROVE y[i].bytes # <<>>
        OBVIOUS
      <4>1. CASE i = 1
        <5>1. n > 1 /\ rest # <<>>
          BY <1>1, <2>2, <4>1
        <5> QED
          BY <3>2, <4>1, <5>1
      <4>2. CASE i # 1
        <5>1. i \in 2 .. n
          BY <1>1, <4>2
        <5> QED
          BY <1>1, <3>2, <5>1
      <4> QED
        BY <4>1, <4>2
    <3>5. y[n].size = x[n].size
      <4>1. CASE n = 1
        BY <3>2, <4>1
      <4>2. CASE n # 1
        <5>1. n \in 2 .. n
          BY <1>1, <4>2
        <5> QED
          BY <3>2, <5>1
      <4> QED
        BY <4>1, <4>2
    <3> QED
      BY <1>1, <3>2, <3>3, <3>4, <3>5 DEF Proper
  <2> QED
    BY <2>1, <2>2
<1> QED
  BY <1>2, <1>5, <1>6

(* All of these segments, and a byte less of them (if they have one). *)
Propers == {x \in Seq(BareSegment) : Proper(x)}

OneLess == [x \in Propers |-> IF x[1].bytes = <<>> THEN x ELSE DrainOne(x)]

(* n bytes drained, one by one. *)
Drained(x, n) ==
    (CHOOSE g \in [Nat -> Propers] : AllRounds(OneLess, x, g))[n]

(* Draining goes byte by byte. *)
LEMMA DrainedIs ==
    ASSUME NEW x, Proper(x)
    PROVE  /\ Drained(x, 0) = x
           /\ \A n \in Nat : /\ Proper(Drained(x, n))
                             /\ Drained(x, n + 1) = OneLess[Drained(x, n)]
<1>1. x \in Propers
  BY DEF Propers, Proper
<1>2. OneLess \in [Propers -> Propers]
  <2> SUFFICES ASSUME NEW y \in Propers
               PROVE  (IF y[1].bytes = <<>> THEN y ELSE DrainOne(y)) \in Propers
    BY DEF OneLess
  <2>1. CASE y[1].bytes = <<>>
    BY <2>1
  <2>2. CASE y[1].bytes # <<>>
    <3>1. Proper(y)
      BY DEF Propers
    <3>2. Proper(DrainOne(y))
      BY <2>2, <3>1, DrainOneProper
    <3> QED
      BY <2>2, <3>2 DEF Propers, Proper
  <2> QED
    BY <2>1, <2>2
<1> DEFINE c == CHOOSE g \in [Nat -> Propers] : AllRounds(OneLess, x, g)
<1>3. \E g \in [Nat -> Propers] : AllRounds(OneLess, x, g)
  BY <1>1, <1>2, Iterates
<1>4. c \in [Nat -> Propers] /\ AllRounds(OneLess, x, c)
  BY <1>3
<1>5. \A n : Drained(x, n) = c[n]
  BY DEF Drained
<1> HIDE DEF c
<1>6. \A n \in Nat : Proper(c[n])
  BY <1>4 DEF Propers
<1> QED
  BY <1>4, <1>5, <1>6 DEF AllRounds

(* Each of the bytes is drained from the head. *)
LEMMA DrainedNext ==
    ASSUME NEW x, Proper(x), NEW n \in Nat, Len(Content(Drained(x, n))) > 0
    PROVE  /\ Drained(x, n)[1].bytes # <<>>
           /\ Drained(x, n + 1) = DrainOne(Drained(x, n))
<1> DEFINE y == Drained(x, n)
<1>1. Proper(y) /\ Drained(x, n + 1) = OneLess[y]
  BY DrainedIs
<1>2. y[1].bytes # <<>>
  BY <1>1, HeadHolds
<1>3. y \in Propers
  BY <1>1 DEF Propers, Proper
<1> HIDE DEF y
<1>4. OneLess[y] = DrainOne(y)
  BY <1>2, <1>3 DEF OneLess
<1> QED
  BY <1>1, <1>2, <1>4 DEF y

(* What n drained bytes leave. *)
Less(x, n) ==
    /\ Len(Content(Drained(x, n))) = Len(Content(x)) - n
    /\ Len(Drained(x, n)) <= Len(x)
    /\ Drained(x, n)[Len(Drained(x, n))].size = x[Len(x)].size

(* As long as there are so many. *)
LEMMA DrainedLess ==
    ASSUME NEW x, Proper(x)
    PROVE  \A n \in Nat : n <= Len(Content(x)) => Less(x, n)
<1> DEFINE count == Len(Content(x))
           U == {n \in Nat : n <= count => Less(x, n)}
<1>0. count \in Nat /\ Len(x) \in Nat
  BY ContentType DEF Proper
<1>1. 0 \in U
  <2>1. Drained(x, 0) = x
    BY DrainedIs
  <2>2. count - 0 = count /\ Len(x) <= Len(x)
    BY <1>0
  <2> QED
    BY <2>1, <2>2 DEF Less
<1>2. ASSUME NEW n \in Nat, n \in U PROVE n + 1 \in U
  <2> SUFFICES ASSUME n + 1 <= count PROVE Less(x, n + 1)
    OBVIOUS
  <2> DEFINE y == Drained(x, n)
             z == Drained(x, n + 1)
  <2>1. n <= count
    BY <1>0
  <2>2. Len(Content(y)) = count - n /\ Len(y) <= Len(x) /\ y[Len(y)].size = x[Len(x)].size
    BY <1>2, <2>1 DEF Less
  <2> HIDE DEF count
  <2>3. Len(Content(y)) > 0
    BY <1>0, <2>2
  <2>4. y[1].bytes # <<>> /\ z = DrainOne(y)
    BY <2>3, DrainedNext
  <2>5. Proper(y) /\ Proper(z)
    BY DrainedIs
  <2> HIDE DEF y, z
  <2>6. /\ Len(Content(DrainOne(y))) = Len(Content(y)) - 1
        /\ Len(DrainOne(y)) <= Len(y)
        /\ DrainOne(y)[Len(DrainOne(y))].size = y[Len(y)].size
    BY <2>4, <2>5, DrainOneProper
  <2>7. Len(y) \in Nat /\ Len(z) \in Nat
    BY <2>5 DEF Proper
  <2>8. Len(Content(z)) = count - (n + 1) /\ Len(z) <= Len(x)
        /\ z[Len(z)].size = x[Len(x)].size
    BY <1>0, <2>2, <2>4, <2>6, <2>7
  <2> QED
    BY <2>8 DEF Less, z, count
<1> HIDE DEF U
<1>3. Nat \subseteq U
  BY <1>1, <1>2, NaturalsBySet
<1> QED
  BY <1>3 DEF U

(* Draining in two parts is draining once. *)
LEMMA DrainedTwice ==
    ASSUME NEW x, Proper(x), NEW a \in Nat
    PROVE  \A b \in Nat : Drained(Drained(x, a), b) = Drained(x, a + b)
<1> DEFINE y == Drained(x, a)
           U == {b \in Nat : Drained(y, b) = Drained(x, a + b)}
<1>0. Proper(y)
  BY DrainedIs
<1>1. 0 \in U
  <2>1. Drained(y, 0) = y
    BY <1>0, DrainedIs
  <2>2. a + 0 = a
    OBVIOUS
  <2> QED
    BY <2>1, <2>2
<1>2. ASSUME NEW b \in Nat, b \in U PROVE b + 1 \in U
  <2> HIDE DEF y
  <2>1. Drained(y, b + 1) = OneLess[Drained(y, b)]
    BY <1>0, DrainedIs
  <2>2. a + b \in Nat /\ (a + b) + 1 = a + (b + 1)
    OBVIOUS
  <2>3. Drained(x, (a + b) + 1) = OneLess[Drained(x, a + b)]
    BY <2>2, DrainedIs
  <2>4. Drained(y, b) = Drained(x, a + b)
    BY <1>2
  <2>5. Drained(y, b + 1) = Drained(x, a + (b + 1))
    BY <2>1, <2>2, <2>3, <2>4
  <2> QED
    BY <2>5
<1> HIDE DEF U
<1>3. Nat \subseteq U
  BY <1>1, <1>2, NaturalsBySet
<1> QED
  BY <1>3 DEF U

(* When all is drained, an empty segment of the newest geometry is left. *)
LEMMA DrainedAll ==
    ASSUME NEW x, Proper(x)
    PROVE  Drained(x, Len(Content(x))) = << [size |-> x[Len(x)].size, bytes |-> <<>>] >>
<1> DEFINE count == Len(Content(x))
           y == Drained(x, count)
<1>1. count \in Nat
  BY ContentType DEF Proper
<1> HIDE DEF count
<1>2. Proper(y)
  BY <1>1, DrainedIs
<1>3. Len(Content(y)) = count - count /\ y[Len(y)].size = x[Len(x)].size
  BY <1>1, DrainedLess DEF Less, count
<1> HIDE DEF y
<1>4. Content(y) = <<>>
  <2>1. Len(Content(y)) = 0 /\ Content(y) \in Seq(Nat)
    BY <1>1, <1>2, <1>3, ContentType DEF Proper
  <2> QED
    BY <2>1, EmptySeq
<1>5. Len(y) = 1 /\ y[1].bytes = <<>>
  BY <1>2, <1>4, NothingHeld
<1>6. y \in Seq(BareSegment)
  BY <1>2 DEF Proper
<1>7. y[1] \in BareSegment /\ y = << y[1] >>
  <2>1. y[1] \in BareSegment /\ << y[1] >> \in Seq(BareSegment)
    <3>1. y[1] \in BareSegment
      <4>1. \A i \in 1 .. Len(y) : y[i] \in BareSegment
        BY <1>6
      <4>2. 1 \in 1 .. Len(y)
        BY <1>5
      <4> QED
        BY <4>1, <4>2
    <3>2. \A e \in BareSegment : << e >> \in Seq(BareSegment)
      OBVIOUS
    <3> QED
      BY <3>1, <3>2
  <2>2. Len(<< y[1] >>) = 1 /\ << y[1] >>[1] = y[1]
    OBVIOUS
  <2> DEFINE z == << y[1] >>
  <2>3. z \in Seq(BareSegment) /\ Len(z) = 1 /\ z[1] = y[1]
    BY <2>1, <2>2
  <2> HIDE DEF z
  <2>4. Len(y) = Len(z) /\ \A i \in 1 .. Len(y) : y[i] = z[i]
    BY <1>5, <2>3
  <2>5. y = z
    BY <1>6, <2>3, <2>4, SeqEqual
  <2> QED
    BY <2>1, <2>5 DEF z
<1>8. y[1] = [size |-> y[1].size, bytes |-> y[1].bytes]
  BY <1>7, BareSegmentFields
<1>9. y = << [size |-> x[Len(x)].size, bytes |-> <<>>] >>
  BY <1>3, <1>5, <1>7, <1>8
<1> QED
  BY <1>9 DEF y, count

(* Bytes behind those of the newest segment. *)
Grown(x, bs) == [x EXCEPT ![Len(x)] = WithBytes(@, @.bytes \o bs)]

(* Only the newest segment grows. *)
LEMMA GrownIs ==
    ASSUME NEW x \in Seq(BareSegment), x # <<>>, NEW bs \in Seq(Nat)
    PROVE  /\ Grown(x, bs) \in Seq(BareSegment) /\ Len(Grown(x, bs)) = Len(x)
           /\ Grown(x, bs)[Len(x)] =
                  [size |-> x[Len(x)].size, bytes |-> x[Len(x)].bytes \o bs]
           /\ \A i \in 1 .. Len(x) - 1 : Grown(x, bs)[i] = x[i]
<1> DEFINE n == Len(x)
           s == WithBytes(x[n], x[n].bytes \o bs)
           y == Grown(x, bs)
           z == [x EXCEPT ![n] = s]
<1>1. n \in Nat /\ n \in 1 .. n /\ x[n] \in BareSegment
  OBVIOUS
<1>2. x[n].size \in Size /\ x[n].bytes \o bs \in Seq(Nat)
  BY <1>1, BareSegmentFields, ConcatProperties
<1>3. s \in BareSegment /\ s = [size |-> x[n].size, bytes |-> x[n].bytes \o bs]
  BY <1>2, BareSegmentFields DEF WithBytes
<1>4. y = z
  BY DEF Grown
<1> HIDE DEF s, y
<1>5. /\ z \in Seq(BareSegment) /\ Len(z) = n
      /\ \A i \in 1 .. n : z[i] = IF i = n THEN s ELSE x[i]
  BY <1>1, <1>3, ExceptSeq
<1> HIDE DEF z, n
<1>6. \A i \in 1 .. n - 1 : i \in 1 .. n /\ i # n
  BY <1>1
<1>7. /\ y \in Seq(BareSegment) /\ Len(y) = n
      /\ y[n] = [size |-> x[n].size, bytes |-> x[n].bytes \o bs]
      /\ \A i \in 1 .. n - 1 : y[i] = x[i]
  BY <1>1, <1>3, <1>4, <1>5, <1>6
<1> QED
  BY <1>7 DEF y, n

(* Whatever is like it is it. *)
LEMMA GrownUnique ==
    ASSUME NEW x \in Seq(BareSegment), x # <<>>, NEW bs \in Seq(Nat),
           NEW y \in Seq(BareSegment), Len(y) = Len(x),
           y[Len(x)] = [size |-> x[Len(x)].size, bytes |-> x[Len(x)].bytes \o bs],
           \A i \in 1 .. Len(x) - 1 : y[i] = x[i]
    PROVE  y = Grown(x, bs)
<1> DEFINE z == Grown(x, bs)
           n == Len(x)
<1>1. /\ z \in Seq(BareSegment) /\ Len(z) = n
      /\ z[n] = [size |-> x[n].size, bytes |-> x[n].bytes \o bs]
      /\ \A i \in 1 .. n - 1 : z[i] = x[i]
  BY GrownIs
<1>2. n \in Nat
  OBVIOUS
<1>3. /\ Len(y) = n /\ \A i \in 1 .. n - 1 : y[i] = x[i]
      /\ y[n] = z[n]
  BY <1>1
<1> HIDE DEF z, n
<1>4. \A i \in 1 .. n : i \in 1 .. n - 1 \/ i = n
  BY <1>2
<1>5. \A i \in 1 .. Len(y) : y[i] = z[i]
  <2> SUFFICES ASSUME NEW i \in 1 .. Len(y) PROVE y[i] = z[i]
    OBVIOUS
  <2>1. i \in 1 .. n - 1 \/ i = n
    BY <1>3, <1>4
  <2> QED
    BY <1>1, <1>3, <2>1
<1>6. y = z
  BY <1>1, <1>3, <1>5, SeqEqual
<1> QED
  BY <1>6 DEF z

(* A ring that grows stays proper. *)
LEMMA GrownProper ==
    ASSUME NEW x, Proper(x), NEW bs \in Seq(Nat)
    PROVE  /\ Proper(Grown(x, bs)) /\ Len(Grown(x, bs)) = Len(x)
           /\ Grown(x, bs)[Len(x)].size = x[Len(x)].size
<1>1. x \in Seq(BareSegment) /\ x # <<>> /\ Len(x) \in Nat /\ Len(x) >= 1
      /\ \A i \in 1 .. Len(x) - 1 : x[i].bytes # <<>>
  BY DEF Proper
<1> DEFINE y == Grown(x, bs)
<1>2. /\ y \in Seq(BareSegment) /\ Len(y) = Len(x)
      /\ y[Len(x)].size = x[Len(x)].size
      /\ \A i \in 1 .. Len(x) - 1 : y[i] = x[i]
  <2>1. /\ y \in Seq(BareSegment) /\ Len(y) = Len(x)
        /\ y[Len(x)] = [size |-> x[Len(x)].size, bytes |-> x[Len(x)].bytes \o bs]
        /\ \A i \in 1 .. Len(x) - 1 : y[i] = x[i]
    BY <1>1, GrownIs
  <2>2. \A z, w : [size |-> z, bytes |-> w].size = z
    OBVIOUS
  <2> HIDE DEF y
  <2>3. y[Len(x)].size = x[Len(x)].size
    BY <2>1, <2>2
  <2> QED
    BY <2>1, <2>3
<1> HIDE DEF y
<1>3. y # <<>> /\ \A i \in 1 .. Len(y) - 1 : y[i].bytes # <<>>
  <2> DEFINE n == Len(x)
  <2>1. n \in Nat /\ n >= 1 /\ Len(y) = n
        /\ \A i \in 1 .. n - 1 : y[i] = x[i] /\ x[i].bytes # <<>>
    BY <1>1, <1>2
  <2>2. y # <<>>
    BY <1>1, <1>2
  <2> HIDE DEF n
  <2> QED
    BY <2>1, <2>2
<1>4. Proper(y) /\ Len(y) = Len(x) /\ y[Len(x)].size = x[Len(x)].size
  BY <1>2, <1>3 DEF Proper
<1> QED
  BY <1>4 DEF y

(* Nothing leaves all as it is. *)
LEMMA GrownNone ==
    ASSUME NEW x \in Seq(BareSegment), x # <<>>
    PROVE  Grown(x, <<>>) = x
<1>1. Len(x) \in 1 .. Len(x) /\ x[Len(x)] \in BareSegment /\ <<>> \in Seq(Nat)
  OBVIOUS
<1>2. x[Len(x)].bytes \o <<>> = x[Len(x)].bytes
  BY <1>1, BareSegmentFields, ConcatEmptySeq
<1>3. x[Len(x)] = [size |-> x[Len(x)].size, bytes |-> x[Len(x)].bytes \o <<>>]
  BY <1>1, <1>2, BareSegmentFields
<1> QED
  BY <1>1, <1>3, GrownUnique

(* A byte behind the others. *)
LEMMA GrownAgain ==
    ASSUME NEW x \in Seq(BareSegment), x # <<>>, NEW bs \in Seq(Nat), NEW b \in Nat
    PROVE  LET y == Grown(x, bs)
           IN  [y EXCEPT ![Len(y)] = WithBytes(@, Append(@.bytes, b))]
                   = Grown(x, Append(bs, b))
<1> DEFINE y == Grown(x, bs)
           n == Len(x)
           s == WithBytes(y[n], Append(y[n].bytes, b))
           z == [y EXCEPT ![n] = s]
           more == Append(bs, b)
<1>1. n \in Nat /\ n \in 1 .. n /\ x[n] \in BareSegment /\ more \in Seq(Nat)
  OBVIOUS
<1>2. /\ y \in Seq(BareSegment) /\ Len(y) = n
      /\ y[n] = [size |-> x[n].size, bytes |-> x[n].bytes \o bs]
      /\ \A i \in 1 .. n - 1 : y[i] = x[i]
  BY GrownIs
<1>3. x[n].size \in Size /\ x[n].bytes \in Seq(Nat)
  BY <1>1, BareSegmentFields
<1>4. x[n].bytes \o more = Append(x[n].bytes \o bs, b)
  <2>1. \A p \in Seq(Nat) : p \o Append(bs, b) = Append(p \o bs, b)
    BY ConcatAppend
  <2> QED
    BY <1>3, <2>1
<1>5. x[n].bytes \o more \in Seq(Nat)
  BY <1>1, <1>3, ConcatProperties
<1>6. s = [size |-> x[n].size, bytes |-> x[n].bytes \o more]
  BY <1>2, <1>4 DEF WithBytes
<1>7. s \in BareSegment
  BY <1>3, <1>5, <1>6, BareSegmentFields
<1>8. [y EXCEPT ![Len(y)] = WithBytes(@, Append(@.bytes, b))] = z
  BY <1>2
<1> HIDE DEF y, s, more
<1>9. /\ z \in Seq(BareSegment) /\ Len(z) = n
      /\ \A i \in 1 .. n : z[i] = IF i = n THEN s ELSE y[i]
  BY <1>1, <1>2, <1>7, ExceptSeq
<1> HIDE DEF z
<1>10. z[n] = s /\ \A i \in 1 .. n - 1 : z[i] = x[i]
  <2> HIDE DEF n
  <2>1. \A i \in 1 .. n - 1 : i \in 1 .. n /\ i # n
    BY <1>1
  <2> QED
    BY <1>1, <1>2, <1>9, <2>1
<1>11. z = Grown(x, more)
  BY <1>1, <1>6, <1>9, <1>10, GrownUnique
<1> QED
  BY <1>8, <1>11 DEF y, more

(* A byte is drained, segment by segment: the head goes, ... *)
LEMMA DrainOnePops ==
    ASSUME NEW x \in Seq(BareSegment), Len(x) > 1, Tail(x[1].bytes) = <<>>
    PROVE  /\ DrainOne(x) \in Seq(BareSegment) /\ Len(DrainOne(x)) = Len(x) - 1
           /\ \A i \in 1 .. Len(x) - 1 : DrainOne(x)[i] = x[i + 1]
<1>1. DrainOne(x) = Tail(x) /\ x # <<>>
  BY DEF DrainOne
<1>2. /\ Tail(x) \in Seq(BareSegment) /\ Len(Tail(x)) = Len(x) - 1
      /\ \A i \in 1 .. Len(Tail(x)) : Tail(x)[i] = x[i + 1]
  BY <1>1, HeadTailProperties
<1> DEFINE y == Tail(x)
<1> HIDE DEF y
<1>3. /\ y \in Seq(BareSegment) /\ Len(y) = Len(x) - 1
      /\ \A i \in 1 .. Len(x) - 1 : y[i] = x[i + 1]
  BY <1>2 DEF y
<1> QED
  BY <1>1, <1>3 DEF y

(* ... or shrinks. *)
LEMMA DrainOneShrinks ==
    ASSUME NEW x \in Seq(BareSegment), x # <<>>, x[1].bytes # <<>>,
           ~(Len(x) > 1 /\ Tail(x[1].bytes) = <<>>)
    PROVE  /\ DrainOne(x) \in Seq(BareSegment) /\ Len(DrainOne(x)) = Len(x)
           /\ DrainOne(x)[1] = [size |-> x[1].size, bytes |-> Tail(x[1].bytes)]
           /\ \A i \in 2 .. Len(x) : DrainOne(x)[i] = x[i]
<1> DEFINE rest == Tail(x[1].bytes)
           y == [x EXCEPT ![1] = WithBytes(@, rest)]
<1>1. DrainOne(x) = y
  BY DEF DrainOne
<1>2. rest \in Seq(Nat)
  <2>1. x[1] \in BareSegment
    OBVIOUS
  <2>2. x[1].bytes \in Seq(Nat)
    BY <2>1, BareSegmentFields
  <2> QED
    BY <2>2, HeadTailProperties
<1> HIDE DEF rest
<1>3. /\ y \in Seq(BareSegment) /\ Len(y) = Len(x)
      /\ y[1] = [size |-> x[1].size, bytes |-> rest]
      /\ \A i \in 2 .. Len(x) : y[i] = x[i]
  BY <1>2, DrainedHead
<1> HIDE DEF y
<1> QED
  BY <1>1, <1>3 DEF rest

(* Draining what was there does not see what comes behind it. *)
LEMMA DrainOneGrown ==
    ASSUME NEW x, Proper(x), x[1].bytes # <<>>, NEW bs \in Seq(Nat)
    PROVE  /\ Grown(x, bs)[1].bytes # <<>>
           /\ DrainOne(Grown(x, bs)) = Grown(DrainOne(x), bs)
<1> DEFINE n == Len(x)
           g == Grown(x, bs)
           d == DrainOne(x)
           e == DrainOne(g)
           head == x[1].bytes
<1>1. x \in Seq(BareSegment) /\ x # <<>> /\ n \in Nat /\ n >= 1 /\ x[1] \in BareSegment
      /\ x[n] \in BareSegment
  BY DEF Proper
<1>2. head \in Seq(Nat) /\ Tail(head) \in Seq(Nat) /\ x[n].bytes \in Seq(Nat)
  BY <1>1, BareSegmentFields, HeadTailProperties
<1>3. /\ g \in Seq(BareSegment) /\ Len(g) = n
      /\ g[n] = [size |-> x[n].size, bytes |-> x[n].bytes \o bs]
      /\ \A i \in 1 .. n - 1 : g[i] = x[i]
  BY <1>1, GrownIs
<1>4. g # <<>>
  BY <1>1, <1>3
<1> HIDE DEF g
<1>5. CASE n = 1
  <2>1. g[1].bytes = head \o bs /\ g[1].size = x[1].size
    BY <1>3, <1>5
  <2>2. Tail(head \o bs) = Tail(head) \o bs
    BY <1>2, TailOfConcat
  <2>3. head \o bs # <<>>
    <3>1. Len(head \o bs) = Len(head) + Len(bs) /\ Len(head) \in Nat \ {0} /\ Len(bs) \in Nat
      BY <1>2, ConcatProperties, EmptySeq
    <3> DEFINE z == head \o bs
    <3>2. Len(z) > 0
      BY <3>1
    <3> HIDE DEF z
    <3>3. z # <<>>
      BY <3>2
    <3> QED
      BY <3>3 DEF z
  <2>4. /\ d \in Seq(BareSegment) /\ Len(d) = 1
        /\ d[1] = [size |-> x[1].size, bytes |-> Tail(head)]
    <3>1. ~(Len(x) > 1 /\ Tail(x[1].bytes) = <<>>)
      BY <1>5
    <3> QED
      BY <1>1, <1>5, <3>1, DrainOneShrinks
  <2>5. /\ e \in Seq(BareSegment) /\ Len(e) = 1
        /\ e[1] = [size |-> x[1].size, bytes |-> Tail(head) \o bs]
    <3>1. ~(Len(g) > 1 /\ Tail(g[1].bytes) = <<>>)
      BY <1>3, <1>5
    <3>2. g[1].bytes # <<>>
      BY <2>1, <2>3
    <3>3. /\ e \in Seq(BareSegment) /\ Len(e) = Len(g)
          /\ e[1] = [size |-> g[1].size, bytes |-> Tail(g[1].bytes)]
      BY <1>3, <1>4, <3>1, <3>2, DrainOneShrinks
    <3> QED
      BY <1>3, <1>5, <2>1, <2>2, <3>3
  <2> HIDE DEF d, e, head
  <2>6. d # <<>> /\ Len(e) = Len(d)
        /\ e[Len(d)] = [size |-> d[Len(d)].size, bytes |-> d[Len(d)].bytes \o bs]
        /\ \A i \in 1 .. Len(d) - 1 : e[i] = d[i]
    <3>1. d[Len(d)].size = x[1].size /\ d[Len(d)].bytes = Tail(head)
          /\ e[Len(d)] = [size |-> x[1].size, bytes |-> Tail(head) \o bs]
      BY <2>4, <2>5
    <3>2. d # <<>> /\ Len(e) = Len(d) /\ 1 .. Len(d) - 1 = {}
      <4>1. Len(d) = 1 /\ Len(e) = 1 /\ Len(d) # 0
        BY <2>4, <2>5
      <4>2. 1 .. 1 - 1 = {}
        OBVIOUS
      <4>3. d # <<>>
        BY <2>4, <4>1, EmptySeq
      <4>4. 1 .. Len(d) - 1 = {}
        BY <4>1, <4>2
      <4> QED
        BY <4>1, <4>3, <4>4
    <3> QED
      BY <3>1, <3>2
  <2>7. e = Grown(d, bs)
    BY <2>4, <2>5, <2>6, GrownUnique
  <2> QED
    BY <2>1, <2>3, <2>7 DEF e, d, g, head
<1>6. CASE n # 1 /\ Tail(head) = <<>>
  <2>1. g[1] = x[1] /\ n > 1 /\ Len(g) > 1
    <3> HIDE DEF n
    <3>1. 1 \in 1 .. n - 1 /\ n > 1
      BY <1>1, <1>6
    <3> QED
      BY <1>3, <3>1
  <2>2. /\ d \in Seq(BareSegment) /\ Len(d) = n - 1
        /\ \A i \in 1 .. n - 1 : d[i] = x[i + 1]
    BY <1>1, <1>6, <2>1, DrainOnePops
  <2>3. /\ e \in Seq(BareSegment) /\ Len(e) = n - 1
        /\ \A i \in 1 .. n - 1 : e[i] = g[i + 1]
    <3>1. Tail(g[1].bytes) = <<>>
      BY <1>6, <2>1
    <3>2. /\ e \in Seq(BareSegment) /\ Len(e) = Len(g) - 1
          /\ \A i \in 1 .. Len(g) - 1 : e[i] = g[i + 1]
      BY <1>3, <2>1, <3>1, DrainOnePops
    <3> QED
      BY <1>3, <3>2
  <2> HIDE DEF d, e, n
  <2>4. d # <<>> /\ Len(d) \in Nat /\ Len(d) >= 1 /\ Len(d) \in 1 .. n - 1 /\ Len(d) + 1 = n
    BY <1>1, <2>1, <2>2
  <2>5. d[Len(d)] = x[n] /\ e[Len(d)] = g[n]
    BY <2>2, <2>3, <2>4
  <2>6. \A i \in 1 .. Len(d) - 1 : e[i] = d[i]
    <3> SUFFICES ASSUME NEW i \in 1 .. Len(d) - 1 PROVE e[i] = d[i]
      OBVIOUS
    <3>1. i \in 1 .. n - 1 /\ i + 1 \in 1 .. n - 1
      BY <1>1, <2>2
    <3> QED
      BY <1>3, <2>2, <2>3, <3>1
  <2>7. e[Len(d)] = [size |-> d[Len(d)].size, bytes |-> d[Len(d)].bytes \o bs]
    BY <1>3, <2>5
  <2>8. e = Grown(d, bs)
    BY <2>2, <2>3, <2>4, <2>6, <2>7, GrownUnique
  <2> QED
    BY <2>1, <2>8 DEF e, d, g
<1>7. CASE n # 1 /\ Tail(head) # <<>>
  <2>1. g[1] = x[1] /\ n > 1
    <3> HIDE DEF n
    <3>1. 1 \in 1 .. n - 1 /\ n > 1
      BY <1>1, <1>7
    <3> QED
      BY <1>3, <3>1
  <2>2. /\ d \in Seq(BareSegment) /\ Len(d) = n
        /\ d[1] = [size |-> x[1].size, bytes |-> Tail(head)]
        /\ \A i \in 2 .. n : d[i] = x[i]
    BY <1>1, <1>7, DrainOneShrinks
  <2>3. /\ e \in Seq(BareSegment) /\ Len(e) = n
        /\ e[1] = [size |-> x[1].size, bytes |-> Tail(head)]
        /\ \A i \in 2 .. n : e[i] = g[i]
    <3>1. Tail(g[1].bytes) # <<>> /\ g[1].bytes # <<>>
      BY <1>7, <2>1
    <3>2. /\ e \in Seq(BareSegment) /\ Len(e) = Len(g)
          /\ e[1] = [size |-> g[1].size, bytes |-> Tail(g[1].bytes)]
          /\ \A i \in 2 .. Len(g) : e[i] = g[i]
      BY <1>3, <1>4, <3>1, DrainOneShrinks
    <3> QED
      BY <1>3, <2>1, <3>2
  <2> HIDE DEF d, e, n, head
  <2>4. d # <<>> /\ n \in 2 .. n
    BY <1>1, <2>1, <2>2
  <2>5. \A i \in 1 .. n - 1 : e[i] = d[i]
    <3> SUFFICES ASSUME NEW i \in 1 .. n - 1 PROVE e[i] = d[i]
      OBVIOUS
    <3>1. i = 1 \/ i \in 2 .. n
      BY <1>1
    <3> QED
      BY <1>3, <2>2, <2>3, <3>1
  <2>6. d[n] = x[n] /\ e[n] = g[n]
    BY <2>2, <2>3, <2>4
  <2>7. e[n] = [size |-> d[n].size, bytes |-> d[n].bytes \o bs]
    BY <1>3, <2>6
  <2>8. e = Grown(d, bs)
    BY <2>2, <2>3, <2>4, <2>5, <2>7, GrownUnique
  <2> QED
    BY <2>1, <2>8 DEF e, d, g
<1> QED
  BY <1>5, <1>6, <1>7

(* The same for many. *)
LEMMA DrainedGrown ==
    ASSUME NEW x, Proper(x), NEW bs \in Seq(Nat)
    PROVE  \A n \in Nat : n <= Len(Content(x)) =>
               Drained(Grown(x, bs), n) = Grown(Drained(x, n), bs)
<1> DEFINE g == Grown(x, bs)
           count == Len(Content(x))
           U == {n \in Nat : n <= count => Drained(g, n) = Grown(Drained(x, n), bs)}
<1>0. Proper(g) /\ count \in Nat
  <2>1. Proper(g)
    BY GrownProper
  <2>2. Content(x) \in Seq(Nat)
    BY ContentType DEF Proper
  <2> QED
    BY <2>1, <2>2
<1>1. 0 \in U
  BY <1>0, DrainedIs
<1>2. ASSUME NEW n \in Nat, n \in U PROVE n + 1 \in U
  <2> SUFFICES ASSUME n + 1 <= count
               PROVE  Drained(g, n + 1) = Grown(Drained(x, n + 1), bs)
    OBVIOUS
  <2> DEFINE y == Drained(x, n)
  <2>1. n <= count
    BY <1>0
  <2>2. Drained(g, n) = Grown(y, bs)
    BY <1>2, <2>1
  <2>3. Len(Content(y)) = count - n
    BY <2>1, DrainedLess DEF Less
  <2> HIDE DEF count, g
  <2>4. Len(Content(y)) > 0
    BY <1>0, <2>3
  <2>5. y[1].bytes # <<>> /\ Drained(x, n + 1) = DrainOne(y) /\ Proper(y)
    BY <2>4, DrainedNext, DrainedIs
  <2> HIDE DEF y
  <2>6. Grown(y, bs)[1].bytes # <<>> /\ DrainOne(Grown(y, bs)) = Grown(DrainOne(y), bs)
    BY <2>5, DrainOneGrown
  <2>7. Drained(g, n + 1) = OneLess[Grown(y, bs)]
    <3>1. Drained(g, n + 1) = OneLess[Drained(g, n)]
      BY <1>0, DrainedIs
    <3> QED
      BY <2>2, <3>1
  <2> DEFINE gy == Grown(y, bs)
  <2>8. Proper(gy)
    BY <2>5, GrownProper
  <2> HIDE DEF gy
  <2>9. gy \in Propers
    BY <2>8 DEF Propers, Proper
  <2>10. gy[1].bytes # <<>> => OneLess[gy] = DrainOne(gy)
    BY <2>9 DEF OneLess
  <2> QED
    BY <2>5, <2>6, <2>7, <2>10 DEF gy
<1> HIDE DEF U
<1>3. Nat \subseteq U
  BY <1>1, <1>2, NaturalsBySet
<1> QED
  BY <1>3 DEF U

(* What is behind the first c bytes. *)
LEMMA SuffixIs ==
    ASSUME NEW s \in Seq(Nat), NEW c \in Nat, c <= Len(s)
    PROVE  /\ SubSeq(s, c + 1, Len(s)) \in Seq(Nat)
           /\ Len(SubSeq(s, c + 1, Len(s))) = Len(s) - c
           /\ \A i \in 1 .. Len(s) - c : SubSeq(s, c + 1, Len(s))[i] = s[c + i]
<1> DEFINE n == Len(s)
           m == c + 1
           t == SubSeq(s, m, n)
<1>1. n \in Nat /\ n \in Int /\ m \in Int /\ c <= n /\ \A i \in m .. n : s[i] \in Nat
  OBVIOUS
<1>2. /\ t \in Seq(Nat)
      /\ Len(t) = IF m <= n THEN n - m + 1 ELSE 0
      /\ \A i \in 1 .. n - m + 1 : t[i] = s[m + i - 1]
  <2> HIDE DEF m, n
  <2> QED
    BY <1>1, SubSeqProperties
<1> HIDE DEF t, n
<1>3. Len(t) = n - c
  BY <1>1, <1>2
<1>4. \A i \in 1 .. n - c : t[i] = s[c + i]
  <2> SUFFICES ASSUME NEW i \in 1 .. n - c PROVE t[i] = s[c + i]
    OBVIOUS
  <2>1. i \in 1 .. n - m + 1 /\ m + i - 1 = c + i
    BY <1>1
  <2> QED
    BY <1>2, <2>1
<1> QED
  BY <1>2, <1>3, <1>4 DEF t, n

(* A byte less of it. *)
LEMMA SuffixTail ==
    ASSUME NEW s \in Seq(Nat), NEW c \in Nat, c < Len(s)
    PROVE  /\ SubSeq(s, c + 1, Len(s)) # <<>>
           /\ Tail(SubSeq(s, c + 1, Len(s))) = SubSeq(s, (c + 1) + 1, Len(s))
<1> DEFINE n == Len(s)
           t == SubSeq(s, c + 1, n)
           u == SubSeq(s, (c + 1) + 1, n)
           r == Tail(t)
<1>1. n \in Nat /\ c + 1 \in Nat /\ c <= n /\ c + 1 <= n
  OBVIOUS
<1>2. /\ t \in Seq(Nat) /\ Len(t) = n - c
      /\ \A i \in 1 .. n - c : t[i] = s[c + i]
  BY <1>1, SuffixIs
<1>3. /\ u \in Seq(Nat) /\ Len(u) = n - (c + 1)
      /\ \A i \in 1 .. n - (c + 1) : u[i] = s[(c + 1) + i]
  BY <1>1, SuffixIs
<1> HIDE DEF t, u, n
<1>4. t # <<>>
  <2>1. Len(t) # 0
    BY <1>1, <1>2
  <2> QED
    BY <1>2, <2>1, EmptySeq
<1>5. r \in Seq(Nat) /\ Len(r) = Len(t) - 1 /\ \A i \in 1 .. Len(r) : r[i] = t[i + 1]
  BY <1>2, <1>4, HeadTailProperties
<1> HIDE DEF r
<1>6. Len(r) = Len(u)
  BY <1>1, <1>2, <1>3, <1>5
<1>7. \A i \in 1 .. Len(r) : r[i] = u[i]
  <2> SUFFICES ASSUME NEW i \in 1 .. Len(r) PROVE r[i] = u[i]
    OBVIOUS
  <2>1. i + 1 \in 1 .. n - c /\ i \in 1 .. n - (c + 1) /\ c + (i + 1) = (c + 1) + i
    BY <1>1, <1>2, <1>5
  <2>2. r[i] = s[c + (i + 1)] /\ u[i] = s[(c + 1) + i]
    BY <1>2, <1>3, <1>5, <2>1
  <2> QED
    BY <2>1, <2>2
<1>8. r = u
  BY <1>3, <1>5, <1>6, <1>7, SeqEqual
<1> QED
  BY <1>4, <1>8 DEF r, t, u, n

(* y is x without the first c bytes of its head. *)
WithoutFirst(x, c, y) ==
    /\ y \in Seq(BareSegment) /\ Len(y) = Len(x)
    /\ y[1] = [size |-> x[1].size,
               bytes |-> SubSeq(x[1].bytes, c + 1, Len(x[1].bytes))]
    /\ \A i \in 2 .. Len(x) : y[i] = x[i]

(* A byte is drained as long as the head has one. *)
LEMMA DrainedStep ==
    ASSUME NEW x, Proper(x), NEW n \in Nat, Drained(x, n)[1].bytes # <<>>
    PROVE  Drained(x, n + 1) = DrainOne(Drained(x, n))
<1> DEFINE y == Drained(x, n)
<1>1. Proper(y) /\ Drained(x, n + 1) = OneLess[y]
  BY DrainedIs
<1>2. y \in Propers
  BY <1>1 DEF Propers, Proper
<1> HIDE DEF y
<1>3. y[1].bytes # <<>>
  BY DEF y
<1>4. OneLess[y] = DrainOne(y)
  BY <1>2, <1>3 DEF OneLess
<1> QED
  BY <1>1, <1>4 DEF y

(* The head loses its bytes from the front until one is left. *)
LEMMA HeadShrinks ==
    ASSUME NEW x, Proper(x), x[1].bytes # <<>>
    PROVE  \A c \in Nat : c < Len(x[1].bytes) => WithoutFirst(x, c, Drained(x, c))
<1> DEFINE head == x[1].bytes
           count == Len(head)
           U == {c \in Nat : c < count => WithoutFirst(x, c, Drained(x, c))}
<1>1. x \in Seq(BareSegment) /\ x # <<>> /\ Len(x) \in Nat /\ Len(x) >= 1
      /\ x[1] \in BareSegment
  BY DEF Proper
<1>2. head \in Seq(Nat) /\ count \in Nat
      /\ x[1] = [size |-> x[1].size, bytes |-> head]
  BY <1>1, BareSegmentFields
<1>3. 0 \in U
  <2>1. SubSeq(head, 0 + 1, count) = head
    <3>1. SubSeq(head, 1, count) = head
      BY <1>2, WholePrefix
    <3> QED
      BY <3>1
  <2>2. Drained(x, 0) = x
    BY DrainedIs
  <2> QED
    BY <1>1, <1>2, <2>1, <2>2 DEF WithoutFirst
<1>4. ASSUME NEW c \in Nat, c \in U PROVE c + 1 \in U
  <2> SUFFICES ASSUME c + 1 < count PROVE WithoutFirst(x, c + 1, Drained(x, c + 1))
    OBVIOUS
  <2> DEFINE y == Drained(x, c)
             z == Drained(x, c + 1)
             t == SubSeq(head, c + 1, count)
             u == SubSeq(head, (c + 1) + 1, count)
  <2>1. c < count /\ c + 1 <= count /\ c + 1 \in Nat
    BY <1>2
  <2>2. WithoutFirst(x, c, y)
    BY <1>4, <2>1
  <2>3. t # <<>> /\ Tail(t) = u
    BY <1>2, <2>1, SuffixTail
  <2>4. Len(u) = count - (c + 1)
    BY <1>2, <2>1, SuffixIs
  <2>5. u # <<>>
    <3> HIDE DEF count, u
    <3>1. Len(u) # 0
      BY <1>2, <2>4
    <3>2. Len(<<>>) = 0
      OBVIOUS
    <3> QED
      BY <3>1, <3>2
  <2>6. /\ y \in Seq(BareSegment) /\ Len(y) = Len(x)
        /\ y[1].size = x[1].size /\ y[1].bytes = t
        /\ \A i \in 2 .. Len(x) : y[i] = x[i]
    BY <2>2 DEF WithoutFirst
  <2>7. z = DrainOne(y)
    BY <2>3, <2>6, DrainedStep
  <2> HIDE DEF y, z, t, u
  <2>8. y # <<>> /\ y[1].bytes # <<>> /\ ~(Len(y) > 1 /\ Tail(y[1].bytes) = <<>>)
    <3>1. Len(y) # 0
      BY <1>1, <2>6
    <3>2. y # <<>>
      BY <2>6, <3>1, EmptySeq
    <3> QED
      BY <2>3, <2>5, <2>6, <3>2
  <2>9. /\ z \in Seq(BareSegment) /\ Len(z) = Len(y)
        /\ z[1] = [size |-> y[1].size, bytes |-> Tail(y[1].bytes)]
        /\ \A i \in 2 .. Len(y) : z[i] = y[i]
    BY <2>6, <2>7, <2>8, DrainOneShrinks
  <2>10. /\ z \in Seq(BareSegment) /\ Len(z) = Len(x)
         /\ z[1] = [size |-> x[1].size, bytes |-> u]
         /\ \A i \in 2 .. Len(x) : z[i] = x[i]
    BY <2>3, <2>6, <2>9
  <2> QED
    BY <2>10 DEF WithoutFirst, z, u
<1> HIDE DEF U
<1>5. Nat \subseteq U
  BY <1>3, <1>4, NaturalsBySet
<1> QED
  BY <1>5 DEF U

(* c of the head's bytes are drained; a head emptied that way is dropped   *)
(* unless it is the only segment.                                          *)
LEMMA HeadDrained ==
    ASSUME NEW x, Proper(x), NEW c \in Nat, c >= 1, c <= Len(x[1].bytes)
    PROVE  LET rest == SubSeq(x[1].bytes, c + 1, Len(x[1].bytes))
           IN  Drained(x, c) = IF rest = <<>> /\ Len(x) > 1 THEN Tail(x)
                               ELSE [x EXCEPT ![1] = WithBytes(@, rest)]
<1> DEFINE head == x[1].bytes
           count == Len(head)
           p == c - 1
           y == Drained(x, p)
           z == Drained(x, c)
           t == SubSeq(head, p + 1, count)
           u == SubSeq(head, c + 1, count)
<1>1. x \in Seq(BareSegment) /\ x # <<>> /\ Len(x) \in Nat /\ Len(x) >= 1
      /\ x[1] \in BareSegment
  BY DEF Proper
<1>2. head \in Seq(Nat) /\ count \in Nat
  BY <1>1, BareSegmentFields
<1>3. p \in Nat /\ p < count /\ p + 1 = c
  BY <1>2
<1>4. head # <<>>
  <2>1. Len(head) # 0
    BY <1>2
  <2> QED
    BY <1>2, <2>1, EmptySeq
<1>5. WithoutFirst(x, p, y)
  BY <1>3, <1>4, HeadShrinks
<1> HIDE DEF p
<1>6. t # <<>> /\ Tail(t) = u
  BY <1>2, <1>3, SuffixTail
<1>7. u \in Seq(Nat)
  BY <1>2, SuffixIs
<1>8. /\ y \in Seq(BareSegment) /\ Len(y) = Len(x)
      /\ y[1].size = x[1].size /\ y[1].bytes = t
      /\ \A i \in 2 .. Len(x) : y[i] = x[i]
  <2>1. \A a, b : /\ [size |-> a, bytes |-> b].size = a
                  /\ [size |-> a, bytes |-> b].bytes = b
    OBVIOUS
  <2>2. /\ y \in Seq(BareSegment) /\ Len(y) = Len(x)
        /\ y[1] = [size |-> x[1].size, bytes |-> t]
        /\ \A i \in 2 .. Len(x) : y[i] = x[i]
    BY <1>5 DEF WithoutFirst
  <2> HIDE DEF y, t
  <2> QED
    BY <2>1, <2>2
<1>9. z = DrainOne(y)
  BY <1>3, <1>6, <1>8, DrainedStep
<1> HIDE DEF y, z, t, u, head, count
<1>10. y # <<>>
  BY <1>1, <1>8
<1>11. CASE u = <<>> /\ Len(x) > 1
  <2> DEFINE w == Tail(x)
  <2>1. /\ z \in Seq(BareSegment) /\ Len(z) = Len(x) - 1
        /\ \A i \in 1 .. Len(x) - 1 : z[i] = y[i + 1]
    BY <1>6, <1>8, <1>9, <1>11, DrainOnePops
  <2>2. /\ w \in Seq(BareSegment) /\ Len(w) = Len(x) - 1
        /\ \A i \in 1 .. Len(w) : w[i] = x[i + 1]
    BY <1>1, HeadTailProperties
  <2> HIDE DEF w
  <2>3. \A i \in 1 .. Len(z) : z[i] = w[i]
    <3> SUFFICES ASSUME NEW i \in 1 .. Len(z) PROVE z[i] = w[i]
      OBVIOUS
    <3>1. i \in 1 .. Len(x) - 1 /\ i + 1 \in 2 .. Len(x) /\ i \in 1 .. Len(w)
      BY <1>1, <2>1, <2>2
    <3> QED
      BY <1>8, <2>1, <2>2, <3>1
  <2>4. z = w
    BY <2>1, <2>2, <2>3, SeqEqual
  <2> QED
    BY <1>11, <2>4 DEF w, z, u, head, count
<1>12. CASE ~(u = <<>> /\ Len(x) > 1)
  <2> DEFINE w == [x EXCEPT ![1] = WithBytes(@, u)]
  <2>1. /\ z \in Seq(BareSegment) /\ Len(z) = Len(x)
        /\ z[1] = [size |-> x[1].size, bytes |-> u]
        /\ \A i \in 2 .. Len(x) : z[i] = y[i]
    <3>1. ~(Len(y) > 1 /\ Tail(y[1].bytes) = <<>>) /\ y[1].bytes # <<>>
      BY <1>6, <1>8, <1>12
    <3>2. /\ z \in Seq(BareSegment) /\ Len(z) = Len(y)
          /\ z[1] = [size |-> y[1].size, bytes |-> Tail(y[1].bytes)]
          /\ \A i \in 2 .. Len(y) : z[i] = y[i]
      BY <1>8, <1>9, <1>10, <3>1, DrainOneShrinks
    <3> QED
      BY <1>6, <1>8, <3>2
  <2>2. /\ w \in Seq(BareSegment) /\ Len(w) = Len(x)
        /\ w[1] = [size |-> x[1].size, bytes |-> u]
        /\ \A i \in 2 .. Len(x) : w[i] = x[i]
    BY <1>1, <1>7, DrainedHead
  <2> HIDE DEF w
  <2>3. \A i \in 1 .. Len(z) : z[i] = w[i]
    <3> SUFFICES ASSUME NEW i \in 1 .. Len(z) PROVE z[i] = w[i]
      OBVIOUS
    <3>1. i = 1 \/ i \in 2 .. Len(x)
      BY <1>1, <2>1
    <3> QED
      BY <1>8, <2>1, <2>2, <3>1
  <2>4. z = w
    BY <2>1, <2>2, <2>3, SeqEqual
  <2> QED
    BY <1>12, <2>4 DEF w, z, u, head, count
<1> QED
  BY <1>11, <1>12

(* Draining a deque takes its first bytes. *)
LEMMA DrainIs ==
    ASSUME NEW s \in DequeSegment, NEW c \in Nat, c <= Len(s.deque.bytes)
    PROVE  LET d == Drain(s.deque, c)
               t == [size |-> s.size, deque |-> d]
           IN  /\ t \in DequeSegment
               /\ d.bytes = SubSeq(s.deque.bytes, c + 1, Len(s.deque.bytes))
<1> DEFINE bs == s.deque.bytes
           d == Drain(s.deque, c)
           u == SubSeq(bs, c + 1, Len(bs))
<1>1. /\ s.size \in Size /\ s.deque.front \in 0 .. DequeCap - 1 /\ bs \in Seq(Nat)
  BY DequeSegmentFields
<1>2. DequeCap \in Nat /\ DequeCap >= 1
  BY RingAssumption, ReplayRingAssumption
<1>3. u \in Seq(Nat) /\ Len(u) = Len(bs) - c /\ Len(bs) \in Nat
  BY <1>1, SuffixIs
<1> HIDE DEF u
<1>4. d \in [front : 0 .. DequeCap - 1, bytes : Seq(Nat)] /\ d.bytes = u
  <2>1. CASE c >= Len(bs)
    <3>1. d = [front |-> 0, bytes |-> <<>>]
      BY <2>1 DEF Drain, EmptyDeque
    <3>2. u = <<>>
      <4>1. Len(u) = 0
        BY <1>3, <2>1
      <4> QED
        BY <1>3, <4>1, EmptySeq
    <3>3. 0 \in 0 .. DequeCap - 1 /\ <<>> \in Seq(Nat)
      BY <1>2
    <3> QED
      BY <3>1, <3>2, <3>3
  <2>2. CASE ~(c >= Len(bs))
    <3>1. d = [front |-> (s.deque.front + c) % DequeCap, bytes |-> u]
      BY <2>2 DEF Drain, u
    <3>2. (s.deque.front + c) % DequeCap \in 0 .. DequeCap - 1
      <4>1. \A m, n \in Nat : n >= 1 => m % n \in 0 .. n - 1
        OBVIOUS
      <4>2. s.deque.front \in Nat
        <5>1. \A n \in Nat : \A m \in 0 .. n - 1 : m \in Nat
          OBVIOUS
        <5> QED
          BY <1>1, <1>2, <5>1
      <4>3. \A m, n \in Nat : m + n \in Nat
        OBVIOUS
      <4>4. s.deque.front + c \in Nat
        BY <4>2, <4>3
      <4> QED
        BY <1>2, <4>1, <4>4
    <3> QED
      BY <1>3, <3>1, <3>2
  <2> QED
    BY <2>1, <2>2
<1> HIDE DEF d
<1>5. [size |-> s.size, deque |-> d] \in DequeSegment
  BY <1>1, <1>4 DEF DequeSegment
<1> QED
  BY <1>4, <1>5 DEF d, u

(* How much of the overflow one pass takes. *)
PassCount(segs, overflow) ==
    IF overflow < Len(segs[1].deque.bytes) THEN overflow ELSE Len(segs[1].deque.bytes)

(* One pass of the drain loop. *)
LEMMA DrainHeadIs ==
    ASSUME NEW segs \in Seq(DequeSegment), Proper(Bares(segs)),
           segs[1].deque.bytes # <<>>, NEW overflow \in Nat, overflow > 0
    PROVE  LET p == DrainHead(segs, overflow)
               c == PassCount(segs, overflow)
           IN  /\ c \in Nat /\ c >= 1 /\ c <= overflow
               /\ p.segments \in Seq(DequeSegment) /\ p.overflow = overflow - c
               /\ p = [segments |-> p.segments, overflow |-> p.overflow]
               /\ Bares(p.segments) = Drained(Bares(segs), c)
               /\ Len(segs) > 1 /\ p.overflow > 0 => Len(p.segments) = Len(segs) - 1
<1> DEFINE x == Bares(segs)
           head == segs[1]
           bs == head.deque.bytes
           c == PassCount(segs, overflow)
           d == Drain(head.deque, c)
           t == [size |-> head.size, deque |-> d]
           rest == [segs EXCEPT ![1].deque = Drain(segs[1].deque, c)]
           more == [segs EXCEPT ![1] = t]
           u == SubSeq(bs, c + 1, Len(bs))
           p == DrainHead(segs, overflow)
<1>1. /\ x \in Seq(BareSegment) /\ x # <<>> /\ Len(x) = Len(segs)
      /\ Len(segs) \in Nat /\ Len(segs) >= 1 /\ x[1] = Bare(head) /\ head \in DequeSegment
  <2>1. x \in Seq(BareSegment) /\ x # <<>> /\ Len(x) = Len(segs)
    BY BaresAre DEF Proper
  <2>2. Len(segs) \in Nat /\ Len(segs) >= 1
    <3>1. Len(x) # 0
      BY <2>1, EmptySeq
    <3> QED
      BY <2>1, <3>1
  <2>3. 1 \in 1 .. Len(segs)
    BY <2>2
  <2> QED
    BY <2>1, <2>2, <2>3, BaresAre
<1>2. /\ bs \in Seq(Nat) /\ x[1].bytes = bs /\ x[1].size = head.size
      /\ head.size \in Size /\ head = [size |-> head.size, deque |-> head.deque]
  BY <1>1, DequeSegmentFields DEF DequeSegment
<1>3. Len(bs) \in Nat /\ Len(bs) >= 1
  BY <1>2, EmptySeq
<1>4. c \in Nat /\ c >= 1 /\ c <= Len(bs) /\ c <= overflow
      /\ (overflow - c > 0 => c = Len(bs))
  BY <1>3 DEF PassCount
<1> HIDE DEF c
<1>5. t \in DequeSegment /\ d.bytes = u
  BY <1>1, <1>4, DrainIs
<1>6. rest = more
  <2>1. rest = [segs EXCEPT ![1] = [head EXCEPT !.deque = d]]
    OBVIOUS
  <2>2. [head EXCEPT !.deque = d] = t
    BY <1>2
  <2> QED
    BY <2>1, <2>2
<1> HIDE DEF d
<1>7. 1 \in 1 .. Len(segs)
  BY <1>1
<1>8. /\ more \in Seq(DequeSegment) /\ Len(more) = Len(segs)
      /\ Bares(more) = [x EXCEPT ![1] = Bare(t)]
      /\ more[1] = t
  <2> HIDE DEF t
  <2>1. t \in DequeSegment
    BY <1>5
  <2>2. /\ more \in Seq(DequeSegment) /\ Len(more) = Len(segs)
        /\ Bares(more) = [x EXCEPT ![1] = Bare(t)]
    BY <1>7, <2>1, BaresExcept
  <2>3. more[1] = t
    BY <1>7, <2>1, ExceptSeq
  <2> QED
    BY <2>2, <2>3
<1>9. Bare(t) = WithBytes(x[1], u)
  BY <1>2, <1>5 DEF Bare, WithBytes
<1>10. Drained(x, c) = IF u = <<>> /\ Len(x) > 1 THEN Tail(x)
                       ELSE [x EXCEPT ![1] = WithBytes(@, u)]
  <2> DEFINE v == SubSeq(x[1].bytes, c + 1, Len(x[1].bytes))
  <2>1. v = u
    BY <1>2
  <2>2. Proper(x) /\ c <= Len(x[1].bytes)
    BY <1>2, <1>4
  <2> HIDE DEF x, u
  <2>3. Drained(x, c) = IF v = <<>> /\ Len(x) > 1 THEN Tail(x)
                        ELSE [x EXCEPT ![1] = WithBytes(@, v)]
    BY <1>4, <2>2, HeadDrained
  <2> HIDE DEF v
  <2> QED
    BY <2>1, <2>3
<1>11. p = [segments |-> IF rest[1].deque.bytes = <<>> /\ Len(rest) > 1
                         THEN Tail(rest) ELSE rest,
            overflow |-> overflow - c]
  BY DEF DrainHead, PassCount, c
<1>12. rest[1].deque.bytes = u /\ Len(rest) = Len(x)
  BY <1>1, <1>5, <1>6, <1>8
<1> HIDE DEF p, rest, more, t, u, x
<1>13. CASE u = <<>> /\ Len(x) > 1
  <2>1. p.segments = Tail(more) /\ p.overflow = overflow - c
        /\ p = [segments |-> p.segments, overflow |-> p.overflow]
    BY <1>6, <1>11, <1>12, <1>13
  <2>2. more # <<>>
    BY <1>1, <1>7, <1>8, EmptySeq
  <2>3. Tail(more) \in Seq(DequeSegment) /\ Len(Tail(more)) = Len(more) - 1
    BY <1>8, <2>2, HeadTailProperties
  <2>4. Bares(Tail(more)) = Tail(Bares(more))
    BY <1>8, <2>2, BaresTail
  <2>5. Tail(Bares(more)) = Tail(x)
    <3> DEFINE y == Bares(more)
               a == Tail(y)
               b == Tail(x)
    <3>1. y \in Seq(BareSegment) /\ Len(y) = Len(x)
          /\ \A i \in 2 .. Len(x) : y[i] = x[i]
      <4>1. Bare(t) = WithBytes(x[1], u) /\ u \in Seq(Nat)
        BY <1>9, <1>13
      <4> DEFINE w == [x EXCEPT ![1] = WithBytes(@, u)]
      <4>2. y = w
        BY <1>8, <4>1
      <4>3. /\ w \in Seq(BareSegment) /\ Len(w) = Len(x)
            /\ \A i \in 2 .. Len(x) : w[i] = x[i]
        BY <1>1, <4>1, DrainedHead
      <4> HIDE DEF y, w
      <4> QED
        BY <4>2, <4>3
    <3> HIDE DEF y
    <3>2. y # <<>> /\ x # <<>>
      BY <1>1, <3>1, EmptySeq
    <3>3. a \in Seq(BareSegment) /\ Len(a) = Len(y) - 1
          /\ \A i \in 1 .. Len(a) : a[i] = y[i + 1]
      BY <3>1, <3>2, HeadTailProperties
    <3>4. b \in Seq(BareSegment) /\ Len(b) = Len(x) - 1
          /\ \A i \in 1 .. Len(b) : b[i] = x[i + 1]
      BY <1>1, <3>2, HeadTailProperties
    <3> HIDE DEF a, b
    <3>5. \A i \in 1 .. Len(a) : a[i] = b[i]
      <4> SUFFICES ASSUME NEW i \in 1 .. Len(a) PROVE a[i] = b[i]
        OBVIOUS
      <4>1. i + 1 \in 2 .. Len(x) /\ i \in 1 .. Len(b)
        BY <1>1, <3>1, <3>3, <3>4
      <4> QED
        BY <3>1, <3>3, <3>4, <4>1
    <3>6. a = b
      BY <3>1, <3>3, <3>4, <3>5, SeqEqual
    <3> QED
      BY <3>6 DEF a, b, y
  <2>6. Bares(p.segments) = Drained(x, c)
    BY <1>10, <1>13, <2>1, <2>4, <2>5
  <2> QED
    BY <1>4, <1>8, <2>1, <2>3, <2>6 DEF x, p, c
<1>14. CASE ~(u = <<>> /\ Len(x) > 1)
  <2>1. p.segments = more /\ p.overflow = overflow - c
        /\ p = [segments |-> p.segments, overflow |-> p.overflow]
    BY <1>6, <1>11, <1>12, <1>14
  <2>2. Bares(p.segments) = Drained(x, c)
    BY <1>8, <1>9, <1>10, <1>14, <2>1
  <2>3. ~(Len(segs) > 1 /\ p.overflow > 0)
    <3> SUFFICES ASSUME Len(segs) > 1, p.overflow > 0 PROVE FALSE
      OBVIOUS
    <3>1. c = Len(bs)
      BY <1>4, <2>1
    <3>2. Len(u) = 0 /\ u \in Seq(Nat)
      <4>1. u \in Seq(Nat) /\ Len(u) = Len(bs) - c
        BY <1>2, <1>4, SuffixIs DEF u
      <4> QED
        BY <1>3, <3>1, <4>1
    <3>3. u = <<>>
      BY <3>2, EmptySeq
    <3> QED
      BY <1>1, <1>14, <3>3
  <2> QED
    BY <1>4, <1>8, <2>1, <2>2, <2>3 DEF x, p, c
<1> QED
  BY <1>13, <1>14

(* What the drain loop goes through. *)
PassStates ==
    {p \in [segments : Seq(DequeSegment), overflow : Nat] :
        /\ Proper(Bares(p.segments))
        /\ p.overflow <= Len(Content(Bares(p.segments)))}

(* q is what a pass makes of p. *)
Passes(p, q) ==
    /\ q \in PassStates
    /\ q.overflow <= p.overflow
    /\ Bares(q.segments) = Drained(Bares(p.segments), p.overflow - q.overflow)
    /\ q.overflow = 0 \/ Len(q.segments) = Len(p.segments) - 1

(* A pass takes what it can from the head. *)
LEMMA PassIs ==
    ASSUME NEW p \in PassStates, p.overflow # 0
    PROVE  Passes(p, DrainHead(p.segments, p.overflow))
<1> DEFINE segs == p.segments
           ov == p.overflow
           x == Bares(segs)
           count == Len(Content(x))
           q == DrainHead(segs, ov)
           c == PassCount(segs, ov)
<1>1. /\ segs \in Seq(DequeSegment) /\ ov \in Nat /\ ov > 0
      /\ Proper(x) /\ ov <= count
  BY DEF PassStates
<1>2. count \in Nat
  <2>1. x \in Seq(BareSegment)
    BY <1>1 DEF Proper
  <2> QED
    BY <2>1, ContentType
<1>3. x \in Seq(BareSegment) /\ Len(x) = Len(segs) /\ x # <<>>
      /\ \A i \in 1 .. Len(segs) : x[i] = Bare(segs[i])
  BY <1>1, BaresAre DEF Proper
<1>4. Len(segs) \in Nat /\ Len(segs) >= 1
  <2>1. Len(x) # 0
    BY <1>3, EmptySeq
  <2> QED
    BY <1>1, <1>3, <2>1
<1>5. 1 \in 1 .. Len(segs)
  BY <1>4
<1>6. segs[1] \in DequeSegment /\ x[1] = Bare(segs[1])
  BY <1>1, <1>3, <1>5
<1>7. x[1].bytes = segs[1].deque.bytes /\ x[1].bytes \in Seq(Nat)
  BY <1>6, DequeSegmentFields
<1>8. segs[1].deque.bytes # <<>>
  <2>1. x[1].bytes # <<>>
    BY <1>1, <1>2, HeadHolds
  <2> QED
    BY <1>7, <2>1
<1>9. /\ c \in Nat /\ c >= 1 /\ c <= ov
      /\ q.segments \in Seq(DequeSegment) /\ q.overflow = ov - c
      /\ q = [segments |-> q.segments, overflow |-> q.overflow]
      /\ Bares(q.segments) = Drained(x, c)
      /\ Len(segs) > 1 /\ q.overflow > 0 => Len(q.segments) = Len(segs) - 1
  BY <1>1, <1>8, DrainHeadIs
<1>10. c = IF ov < Len(segs[1].deque.bytes) THEN ov ELSE Len(segs[1].deque.bytes)
  BY DEF PassCount
<1> HIDE DEF q, c
<1>11. q.overflow = 0 \/ Len(q.segments) = Len(segs) - 1
  <2>1. CASE Len(segs) > 1
    BY <1>1, <1>9, <2>1
  <2>2. CASE ~(Len(segs) > 1)
    <3>1. Len(x) = 1
      <4>1. Len(segs) = 1
        <5>1. \A k \in Nat : k >= 1 => k > 1 \/ k = 1
          OBVIOUS
        <5> QED
          BY <1>4, <2>2, <5>1
      <4> QED
        BY <1>3, <4>1
    <3>2. x = << x[1] >>
      BY <1>3, <3>1
    <3>3. x[1] \in BareSegment
      BY <1>3, <3>1
    <3>4. Content(x) = x[1].bytes
      <4> DEFINE s == x[1]
      <4> HIDE DEF s
      <4>1. Content(<< s >>) = s.bytes
        BY <3>3, ContentOfOne DEF s
      <4> QED
        BY <3>2, <4>1 DEF s
    <3>5. count = Len(segs[1].deque.bytes)
      BY <1>7, <3>4
    <3> HIDE DEF count
    <3>6. c = ov
      BY <1>1, <1>2, <1>10, <3>5
    <3> QED
      BY <1>1, <1>9, <3>6
  <2> QED
    BY <2>1, <2>2
<1>12. /\ Proper(Drained(x, c))
       /\ Len(Content(Drained(x, c))) = count - c
  <2>1. Less(x, c)
    BY <1>1, <1>2, <1>9, DrainedLess
  <2> QED
    BY <1>1, <1>9, <2>1, DrainedIs DEF Less
<1> HIDE DEF count
<1>13. q \in PassStates
  <2>1. q.overflow \in Nat /\ q.overflow <= count - c
    BY <1>1, <1>2, <1>9
  <2>2. q \in [segments : Seq(DequeSegment), overflow : Nat]
    BY <1>9, <2>1
  <2>3. Proper(Bares(q.segments)) /\ Len(Content(Bares(q.segments))) = count - c
    BY <1>9, <1>12
  <2> QED
    BY <2>1, <2>2, <2>3 DEF PassStates
<1>14. q.overflow <= ov /\ ov - q.overflow = c
  BY <1>1, <1>9
<1>15. Bares(q.segments) = Drained(x, ov - q.overflow)
  BY <1>9, <1>14
<1>16. Passes(p, q)
  BY <1>11, <1>13, <1>14, <1>15 DEF Passes
<1> QED
  BY <1>16 DEF q

(* One round of the loop. *)
OnePass == [p \in PassStates |->
               IF p.overflow = 0 THEN p ELSE DrainHead(p.segments, p.overflow)]

(* The rounds of the loop, as DrainHeads counts them. *)
PassesFrom(g, segs, overflow) ==
    [n \in Nat |->
        IF n = 0 THEN [segments |-> segs, overflow |-> overflow]
        ELSE IF g[n - 1].overflow = 0 THEN g[n - 1]
        ELSE DrainHead(g[n - 1].segments, g[n - 1].overflow)]

(* There is such a function. *)
LEMMA PassesExist ==
    ASSUME NEW segs, NEW overflow,
           [segments |-> segs, overflow |-> overflow] \in PassStates
    PROVE  \E g : g = PassesFrom(g, segs, overflow)
<1> DEFINE p0 == [segments |-> segs, overflow |-> overflow]
<1>1. OnePass \in [PassStates -> PassStates]
  <2>1. \A p \in PassStates :
            (IF p.overflow = 0 THEN p ELSE DrainHead(p.segments, p.overflow))
                \in PassStates
    BY PassIs DEF Passes
  <2> QED
    BY <2>1 DEF OnePass
<1>2. PICK g \in [Nat -> PassStates] : AllRounds(OnePass, p0, g)
  BY <1>1, Iterates
<1> DEFINE h == PassesFrom(g, segs, overflow)
<1>3. \A n \in Nat : g[n] = h[n]
  <2> SUFFICES ASSUME NEW n \in Nat PROVE g[n] = h[n]
    OBVIOUS
  <2>1. CASE n = 0
    <3>1. g[0] = p0
      BY <1>2 DEF AllRounds
    <3>2. h[0] = p0
      BY DEF PassesFrom
    <3> QED
      BY <2>1, <3>1, <3>2
  <2>2. CASE n # 0
    <3> DEFINE m == n - 1
    <3>1. m \in Nat /\ m + 1 = n
      BY <2>2
    <3> HIDE DEF m
    <3>2. g[m + 1] = OnePass[g[m]] /\ g[m] \in PassStates
      BY <1>2, <3>1 DEF AllRounds
    <3>3. g[n] = IF g[m].overflow = 0 THEN g[m]
                 ELSE DrainHead(g[m].segments, g[m].overflow)
      BY <3>1, <3>2 DEF OnePass
    <3>4. h[n] = IF g[n - 1].overflow = 0 THEN g[n - 1]
                 ELSE DrainHead(g[n - 1].segments, g[n - 1].overflow)
      BY <2>2 DEF PassesFrom
    <3> QED
      BY <3>3, <3>4 DEF m
  <2> QED
    BY <2>1, <2>2
<1>4. g = [n \in Nat |-> g[n]]
  OBVIOUS
<1>5. h = [n \in Nat |-> h[n]]
  BY DEF PassesFrom
<1>6. g = h
  <2> HIDE DEF h
  <2> QED
    BY <1>3, <1>4, <1>5
<1> QED
  BY <1>6

(* Where the loop is after n passes. *)
LoopAt(segs, overflow, n, p) ==
    /\ p \in PassStates
    /\ p.overflow <= overflow
    /\ Bares(p.segments) = Drained(Bares(segs), overflow - p.overflow)
    /\ p.overflow = 0 \/ Len(p.segments) + n = Len(segs)

(* A round more. *)
LEMMA LoopGoesOn ==
    ASSUME NEW segs \in Seq(DequeSegment), Proper(Bares(segs)),
           NEW overflow \in Nat, NEW n \in Nat, NEW p,
           LoopAt(segs, overflow, n, p), p.overflow # 0
    PROVE  LoopAt(segs, overflow, n + 1, DrainHead(p.segments, p.overflow))
<1> DEFINE q == DrainHead(p.segments, p.overflow)
           x == Bares(segs)
           a == overflow - p.overflow
           b == p.overflow - q.overflow
<1>1. /\ p \in PassStates /\ p.overflow <= overflow /\ p.overflow \in Nat
      /\ p.segments \in Seq(DequeSegment)
      /\ Bares(p.segments) = Drained(x, a)
      /\ Len(p.segments) + n = Len(segs)
  BY DEF LoopAt, PassStates
<1>2. Passes(p, q)
  BY <1>1, PassIs
<1>3. /\ q \in PassStates /\ q.overflow \in Nat /\ q.overflow <= p.overflow
      /\ q.segments \in Seq(DequeSegment)
      /\ Bares(q.segments) = Drained(Bares(p.segments), b)
      /\ q.overflow = 0 \/ Len(q.segments) = Len(p.segments) - 1
  BY <1>2 DEF Passes, PassStates
<1> HIDE DEF q, x
<1>4. a \in Nat /\ b \in Nat /\ a + b = overflow - q.overflow
  BY <1>1, <1>3
<1> HIDE DEF a, b
<1>5. Bares(q.segments) = Drained(x, a + b)
  <2>1. Bares(q.segments) = Drained(Drained(x, a), b)
    BY <1>1, <1>3
  <2>2. Proper(x)
    BY DEF x
  <2>3. Drained(Drained(x, a), b) = Drained(x, a + b)
    BY <1>4, <2>2, DrainedTwice
  <2> QED
    BY <2>1, <2>3
<1>6. Bares(q.segments) = Drained(x, overflow - q.overflow)
  BY <1>4, <1>5
<1>7. q.overflow = 0 \/ Len(q.segments) + (n + 1) = Len(segs)
  <2> DEFINE l == Len(q.segments)
             m == Len(p.segments)
  <2>1. l \in Nat /\ m \in Nat
    BY <1>1, <1>3
  <2>2. (q.overflow = 0 \/ l = m - 1) /\ m + n = Len(segs)
    BY <1>1, <1>3
  <2> HIDE DEF l, m
  <2>3. q.overflow = 0 \/ l + (n + 1) = Len(segs)
    BY <2>1, <2>2
  <2> QED
    BY <2>3 DEF l
<1>8. q.overflow <= overflow
  BY <1>1, <1>3
<1>9. LoopAt(segs, overflow, n + 1, q)
  BY <1>3, <1>6, <1>7, <1>8 DEF LoopAt, x
<1> QED
  BY <1>9 DEF q

(* The loop drains the overflow, byte by byte, and is done when it has met *)
(* every segment (the drain loop of append).                               *)
LEMMA DrainHeadsShape ==
    ASSUME NEW segs \in Seq(DequeSegment), Proper(Bares(segs)),
           NEW overflow \in Nat, overflow <= Len(Content(Bares(segs)))
    PROVE  /\ DrainHeads(segs, overflow) \in Seq(DequeSegment)
           /\ Bares(DrainHeads(segs, overflow)) = Drained(Bares(segs), overflow)
<1> DEFINE p0 == [segments |-> segs, overflow |-> overflow]
           g == CHOOSE h : h = PassesFrom(h, segs, overflow)
           last == g[Len(segs)]
           U == {n \in Nat : LoopAt(segs, overflow, n, g[n])}
<1>1. p0 \in PassStates
  BY DEF PassStates
<1>2. g = PassesFrom(g, segs, overflow)
  BY <1>1, PassesExist
<1>3. DrainHeads(segs, overflow) = last.segments
  BY DEF DrainHeads, PassesFrom
<1> HIDE DEF g
<1>4. 0 \in U
  <2>1. g[0] = p0
    BY <1>2 DEF PassesFrom
  <2>2. Bares(segs) = Drained(Bares(segs), 0)
    BY DrainedIs
  <2>3. overflow - overflow = 0 /\ Len(segs) + 0 = Len(segs)
    OBVIOUS
  <2>4. LoopAt(segs, overflow, 0, p0)
    BY <1>1, <2>2, <2>3 DEF LoopAt
  <2> QED
    BY <2>1, <2>4
<1>5. ASSUME NEW n \in Nat, n \in U
      PROVE  n + 1 \in U
  <2> DEFINE p == g[n]
  <2>1. LoopAt(segs, overflow, n, p)
    BY <1>5
  <2>2. g[n + 1] = IF p.overflow = 0 THEN p ELSE DrainHead(p.segments, p.overflow)
    <3>1. \A m \in Nat : m + 1 \in Nat /\ m + 1 # 0 /\ (m + 1) - 1 = m
      OBVIOUS
    <3>2. \A m \in Nat : m # 0 =>
              g[m] = IF g[m - 1].overflow = 0 THEN g[m - 1]
                     ELSE DrainHead(g[m - 1].segments, g[m - 1].overflow)
      BY <1>2 DEF PassesFrom
    <3> QED
      BY <3>1, <3>2
  <2> HIDE DEF p
  <2>3. LoopAt(segs, overflow, n + 1, g[n + 1])
    <3>1. CASE p.overflow = 0
      BY <2>1, <2>2, <3>1 DEF LoopAt
    <3>2. CASE p.overflow # 0
      BY <2>1, <2>2, <3>2, LoopGoesOn
    <3> QED
      BY <3>1, <3>2
  <2> QED
    BY <2>3
<1> HIDE DEF U
<1>6. Nat \subseteq U
  BY <1>4, <1>5, NaturalsBySet
<1>7. LoopAt(segs, overflow, Len(segs), last)
  BY <1>6 DEF U
<1> HIDE DEF last
<1>8. last.segments \in Seq(DequeSegment) /\ Proper(Bares(last.segments))
      /\ last.overflow \in Nat
  BY <1>7 DEF LoopAt, PassStates
<1>9. Len(last.segments) \in Nat /\ Len(last.segments) # 0
  <2>1. Len(Bares(last.segments)) = Len(last.segments)
    BY <1>8, BaresAre
  <2>2. Bares(last.segments) \in Seq(BareSegment) /\ Bares(last.segments) # <<>>
    BY <1>8 DEF Proper
  <2>3. Len(Bares(last.segments)) # 0
    BY <2>2, EmptySeq
  <2> QED
    BY <1>8, <2>1, <2>3
<1>10. last.overflow = 0
  <2>1. last.overflow = 0 \/ Len(last.segments) + Len(segs) = Len(segs)
    BY <1>7 DEF LoopAt
  <2>2. Len(segs) \in Nat
    OBVIOUS
  <2> QED
    BY <1>9, <2>1, <2>2
<1>11. Bares(last.segments) = Drained(Bares(segs), overflow)
  <2>1. Bares(last.segments) = Drained(Bares(segs), overflow - last.overflow)
    BY <1>7 DEF LoopAt
  <2>2. overflow - last.overflow = overflow
    BY <1>10
  <2> QED
    BY <2>1, <2>2
<1> QED
  BY <1>3, <1>8, <1>11

(* The bytes of segments that grow. *)
LEMMA GrownContent ==
    ASSUME NEW x, Proper(x), NEW bs \in Seq(Nat)
    PROVE  /\ Content(Grown(x, bs)) = Content(x) \o bs
           /\ Len(Content(x)) \in Nat
           /\ Len(Content(Grown(x, bs))) = Len(Content(x)) + Len(bs)
<1> DEFINE n == Len(x)
           s == WithBytes(x[n], x[n].bytes \o bs)
           front == FlattenSeq(SubSeq(BytesIn(x), 1, Len(BytesIn(x)) - 1))
           c == Content(x)
           d == Content(Grown(x, bs))
<1>1. x \in Seq(BareSegment) /\ x # <<>> /\ n \in Nat /\ n >= 1
  <2>1. x \in Seq(BareSegment) /\ x # <<>>
    BY DEF Proper
  <2>2. n \in Nat \ {0}
    BY <2>1, EmptySeq
  <2> QED
    BY <2>1, <2>2
<1>2. x[n] \in BareSegment
  BY <1>1
<1>3. x[n].bytes \in Seq(Nat) /\ x[n].size \in Size
  BY <1>2, BareSegmentFields
<1>4. x[n].bytes \o bs \in Seq(Nat)
  BY <1>3, ConcatProperties
<1>5. s \in BareSegment /\ s.bytes = x[n].bytes \o bs
  <2> DEFINE t == x[n].bytes \o bs
  <2>1. t \in Seq(Nat)
    BY <1>4
  <2> HIDE DEF t
  <2>2. [size |-> x[n].size, bytes |-> t] \in BareSegment
        /\ [size |-> x[n].size, bytes |-> t].bytes = t
    BY <1>3, <2>1, BareSegmentFields
  <2>3. s = [size |-> x[n].size, bytes |-> t]
    BY DEF WithBytes, t
  <2> QED
    BY <2>2, <2>3 DEF t
<1>6. Grown(x, bs) = [x EXCEPT ![n] = s]
  BY DEF Grown
<1> HIDE DEF s
<1>7. /\ front \in Seq(Nat) /\ c = front \o x[n].bytes
      /\ FlattenSeq(BytesIn([x EXCEPT ![n] = s])) = front \o s.bytes
  BY <1>1, <1>5, NewestReplaced DEF BareSegment, Content
<1>8. d = front \o (x[n].bytes \o bs)
  BY <1>5, <1>6, <1>7 DEF Content
<1> HIDE DEF front, n
<1>9. front \o (x[n].bytes \o bs) = (front \o x[n].bytes) \o bs
  <2> DEFINE v == x[n].bytes
  <2>1. v \in Seq(Nat)
    BY <1>3
  <2> HIDE DEF v
  <2>2. front \o (v \o bs) = (front \o v) \o bs
    BY <1>7, <2>1, ConcatAssociative
  <2> QED
    BY <2>2 DEF v
<1>10. d = c \o bs
  BY <1>7, <1>8, <1>9
<1>11. c \in Seq(Nat)
  BY <1>1, ContentType
<1> HIDE DEF c, d
<1>12. Len(c) \in Nat /\ Len(c \o bs) = Len(c) + Len(bs)
  BY <1>11, ConcatProperties
<1> QED
  BY <1>10, <1>12 DEF c, d

(***************************************************************************)
(* append, on shapes.                                                      *)
(***************************************************************************)

(* A ring as append and resize leave it. *)
GoodShape(y) ==
    /\ y = [segments |-> y.segments, len |-> y.len]
    /\ Proper(y.segments)
    /\ y.len = Len(Content(y.segments)) /\ y.len <= RingCap

(* What must be drained of so many bytes. *)
Excess(n) == IF n > RingCap THEN n - RingCap ELSE 0

(* A chunk shorter than the ring grows the newest segment, ... *)
GrownRing(y, bs) ==
    LET n == y.len + Len(bs)
    IN  [segments |-> Drained(Grown(y.segments, bs), Excess(n)), len |-> n - Excess(n)]

(* ... a longer one replaces the ring. *)
FilledRing(y, bs) ==
    [segments |-> << [size |-> Newest(y).size,
                      bytes |-> SubSeq(bs, Len(bs) - RingCap + 1, Len(bs))] >>,
     len |-> RingCap]

Appended(y, bs) == IF Len(bs) >= RingCap THEN FilledRing(y, bs) ELSE GrownRing(y, bs)

(* The numbers of a ring. *)
LEMMA GoodNumbers ==
    ASSUME NEW y, GoodShape(y)
    PROVE  /\ y.len \in Nat /\ y.len <= RingCap /\ RingCap \in Nat /\ RingCap >= 1
           /\ y.len = Len(Content(y.segments))
           /\ y.segments \in Seq(BareSegment) /\ y.segments # <<>>
           /\ Len(y.segments) \in Nat /\ Len(y.segments) >= 1
           /\ Newest(y) = y.segments[Len(y.segments)] /\ Newest(y).size \in Size
<1>1. y.segments \in Seq(BareSegment) /\ y.segments # <<>>
  BY DEF GoodShape, Proper
<1>2. Len(y.segments) \in Nat \ {0}
  BY <1>1, EmptySeq
<1>3. y.segments[Len(y.segments)] \in BareSegment
  BY <1>1, <1>2
<1>4. Len(Content(y.segments)) \in Nat
  BY <1>1, ContentType
<1>5. RingCap \in Nat /\ RingCap >= 1
  BY RingAssumption
<1>6. Newest(y) = y.segments[Len(y.segments)] /\ Newest(y).size \in Size
  BY <1>3, BareSegmentFields DEF Newest
<1> QED
  BY <1>1, <1>2, <1>4, <1>5, <1>6 DEF GoodShape

(* An empty chunk changes nothing. *)
LEMMA AppendedNothing ==
    ASSUME NEW y, GoodShape(y)
    PROVE  GrownRing(y, <<>>) = y /\ Appended(y, <<>>) = y
<1>1. /\ y.len \in Nat /\ y.len <= RingCap /\ RingCap \in Nat /\ RingCap >= 1
      /\ y.segments \in Seq(BareSegment) /\ y.segments # <<>>
      /\ Proper(y.segments) /\ y = [segments |-> y.segments, len |-> y.len]
  BY GoodNumbers DEF GoodShape
<1>2. Len(<<>>) = 0
  BY EmptySeq
<1>3. y.len + 0 = y.len /\ y.len - 0 = y.len /\ Excess(y.len) = 0
  BY <1>1 DEF Excess
<1>4. Drained(Grown(y.segments, <<>>), 0) = y.segments
  BY <1>1, GrownNone, DrainedIs
<1>5. GrownRing(y, <<>>) = [segments |-> y.segments, len |-> y.len]
  BY <1>2, <1>3, <1>4 DEF GrownRing
<1>6. ~(Len(<<>>) >= RingCap)
  BY <1>1, <1>2
<1> QED
  BY <1>1, <1>5, <1>6 DEF Appended

(* A byte more, while the chunk is shorter than the ring. *)
LEMMA GrownRingNext ==
    ASSUME NEW y, GoodShape(y), RingCap # 1,
           NEW bs \in Seq(Nat), Len(bs) < RingCap, NEW b \in Nat
    PROVE  GrownRing(y, Append(bs, b)) = RingPush(GrownRing(y, bs), b)
<1> DEFINE x == y.segments
           len == y.len
           m == Len(bs)
           more == Append(bs, b)
           k == Excess(len + m)
           G == Grown(x, more)
           S == Drained(Grown(x, bs), k)
           grown == [S EXCEPT ![Len(S)] = WithBytes(@, Append(@.bytes, b))]
           z == GrownRing(y, bs)
<1>1. /\ len \in Nat /\ len <= RingCap /\ RingCap \in Nat /\ RingCap >= 1
      /\ len = Len(Content(x)) /\ Proper(x)
  BY GoodNumbers DEF GoodShape
<1>2. more \in Seq(Nat) /\ Len(more) = m + 1 /\ m \in Nat /\ m < RingCap
  BY AppendProperties
<1>3. k \in Nat /\ k <= len /\ (len + m) - k <= RingCap
      /\ (len + m < RingCap => k = 0)
      /\ (~(len + m < RingCap) => (len + m) - k = RingCap)
  BY <1>1, <1>2 DEF Excess
<1>4. z = [segments |-> S, len |-> (len + m) - k]
  BY DEF GrownRing
<1>5. Proper(G) /\ Len(Content(G)) = len + (m + 1)
  <2>1. Proper(G) /\ Len(Content(G)) = Len(Content(x)) + Len(more)
    BY <1>1, <1>2, GrownProper, GrownContent
  <2> QED
    BY <1>1, <1>2, <2>1
<1> HIDE DEF m, k, more, x, len
<1>6. grown = Drained(G, k)
  <2> DEFINE w == Drained(x, k)
             v == Grown(w, bs)
  <2>1. Proper(w)
    BY <1>1, <1>3, DrainedIs
  <2>2. S = v
    BY <1>1, <1>3, DrainedGrown
  <2>3. [v EXCEPT ![Len(v)] = WithBytes(@, Append(@.bytes, b))] = Grown(w, more)
    <3>1. w \in Seq(BareSegment) /\ w # <<>>
      BY <2>1 DEF Proper
    <3> HIDE DEF w
    <3> QED
      BY <3>1, GrownAgain DEF more
  <2>4. Drained(G, k) = Grown(w, more)
    BY <1>1, <1>2, <1>3, DrainedGrown
  <2> HIDE DEF v, w, S, G
  <2> QED
    BY <2>2, <2>3, <2>4
<1> HIDE DEF S, z, G
<1>7. RingPush(z, b) = IF (len + m) - k < RingCap
                       THEN [segments |-> grown, len |-> ((len + m) - k) + 1]
                       ELSE [segments |-> DrainOne(grown), len |-> (len + m) - k]
  <2>1. z.segments = S /\ z.len = (len + m) - k
    BY <1>4
  <2> QED
    BY <2>1 DEF RingPush
<1> HIDE DEF grown
<1>8. GrownRing(y, more) = [segments |-> Drained(G, Excess(len + (m + 1))),
                            len |-> (len + (m + 1)) - Excess(len + (m + 1))]
  BY <1>2 DEF GrownRing, G, x, len
<1>9. CASE len + m < RingCap
  <2>1. k = 0 /\ Excess(len + (m + 1)) = 0
    BY <1>1, <1>2, <1>3, <1>9 DEF Excess
  <2>2. (len + (m + 1)) - 0 = ((len + m) - 0) + 1 /\ (len + m) - 0 < RingCap
    BY <1>1, <1>2, <1>9
  <2>3. GrownRing(y, more) = RingPush(z, b)
    BY <1>6, <1>7, <1>8, <2>1, <2>2
  <2> QED
    BY <2>3 DEF more, z
<1>10. CASE ~(len + m < RingCap)
  <2>1. Excess(len + (m + 1)) = k + 1
    BY <1>1, <1>2, <1>3, <1>10 DEF Excess
  <2>2. (len + (m + 1)) - (k + 1) = (len + m) - k /\ ~((len + m) - k < RingCap)
    BY <1>1, <1>2, <1>3, <1>10
  <2>3. Drained(G, k + 1) = DrainOne(Drained(G, k))
    <3>1. k <= len + (m + 1) /\ (len + (m + 1)) - k > 0
      BY <1>1, <1>2, <1>3
    <3>2. Less(G, k)
      BY <1>3, <1>5, <3>1, DrainedLess
    <3>3. Len(Content(Drained(G, k))) > 0
      <4>1. Len(Content(Drained(G, k))) = (len + (m + 1)) - k
        BY <1>5, <3>2 DEF Less
      <4> QED
        BY <3>1, <4>1
    <3> QED
      BY <1>3, <1>5, <3>3, DrainedNext
  <2>4. GrownRing(y, more) = RingPush(z, b)
    BY <1>6, <1>7, <1>8, <2>1, <2>2, <2>3
  <2> QED
    BY <2>4 DEF more, z
<1> QED
  BY <1>9, <1>10

(* The last bytes of a chunk at least as long as the ring. *)
LEMMA LastBytes ==
    ASSUME NEW bs \in Seq(Nat), RingCap <= Len(bs)
    PROVE  LET t == SubSeq(bs, Len(bs) - RingCap + 1, Len(bs))
           IN  /\ t \in Seq(Nat) /\ Len(t) = RingCap
               /\ \A i \in 1 .. RingCap : t[i] = bs[(Len(bs) - RingCap) + i]
<1> DEFINE c == Len(bs) - RingCap
           t == SubSeq(bs, c + 1, Len(bs))
<1>1. c \in Nat /\ c <= Len(bs) /\ Len(bs) - c = RingCap
  BY RingAssumption
<1> HIDE DEF c
<1>2. /\ t \in Seq(Nat) /\ Len(t) = Len(bs) - c
      /\ \A i \in 1 .. Len(bs) - c : t[i] = bs[c + i]
  BY <1>1, SuffixIs
<1> QED
  BY <1>1, <1>2 DEF c

(* A chunk as long as the ring leaves nothing else in it. *)
LEMMA FullChunk ==
    ASSUME NEW y, GoodShape(y), NEW bs \in Seq(Nat), Len(bs) = RingCap
    PROVE  GrownRing(y, bs) = FilledRing(y, bs)
<1> DEFINE x == y.segments
           len == y.len
           z == x[Len(x)].size
           one == << [size |-> z, bytes |-> <<>>] >>
           t == SubSeq(bs, RingCap - RingCap + 1, RingCap)
<1>1. /\ len \in Nat /\ RingCap \in Nat /\ RingCap >= 1
      /\ len = Len(Content(x)) /\ Proper(x)
      /\ z \in Size /\ Newest(y).size = z
  BY GoodNumbers DEF GoodShape
<1>2. Excess(len + RingCap) = len /\ (len + RingCap) - len = RingCap
  BY <1>1 DEF Excess
<1>3. GrownRing(y, bs) = [segments |-> Drained(Grown(x, bs), len), len |-> RingCap]
  BY <1>2 DEF GrownRing
<1> HIDE DEF len, x
<1>4. Drained(Grown(x, bs), len) = Grown(Drained(x, len), bs)
  <2>1. len <= Len(Content(x))
    BY <1>1
  <2> QED
    BY <1>1, <2>1, DrainedGrown
<1>5. Drained(x, len) = one
  BY <1>1, DrainedAll
<1> HIDE DEF z
<1>6. Grown(one, bs) = << [size |-> z, bytes |-> bs] >>
  <2>1. Len(one) = 1 /\ one[1] = [size |-> z, bytes |-> <<>>]
    OBVIOUS
  <2>2. <<>> \o bs = bs
    BY ConcatEmptySeq
  <2>3. WithBytes(one[1], one[1].bytes \o bs) = [size |-> z, bytes |-> bs]
    BY <2>1, <2>2 DEF WithBytes
  <2>4. Grown(one, bs) = [one EXCEPT ![1] = WithBytes(one[1], one[1].bytes \o bs)]
    BY <2>1 DEF Grown
  <2>5. \A a, b : [<< a >> EXCEPT ![1] = b] = << b >>
    OBVIOUS
  <2> QED
    BY <2>3, <2>4, <2>5
<1>7. t = bs
  <2>1. RingCap - RingCap + 1 = 1
    BY <1>1
  <2>2. SubSeq(bs, 1, Len(bs)) = bs
    BY WholePrefix
  <2> QED
    BY <2>1, <2>2
<1>8. FilledRing(y, bs) = [segments |-> << [size |-> z, bytes |-> bs] >>, len |-> RingCap]
  BY <1>1, <1>7 DEF FilledRing
<1> QED
  BY <1>3, <1>4, <1>5, <1>6, <1>8

(* A byte more behind a chunk that fills the ring. *)
LEMMA FilledRingNext ==
    ASSUME NEW y, GoodShape(y), RingCap # 1,
           NEW bs \in Seq(Nat), RingCap <= Len(bs), NEW b \in Nat
    PROVE  FilledRing(y, Append(bs, b)) = RingPush(FilledRing(y, bs), b)
<1> DEFINE z == Newest(y).size
           m == Len(bs)
           c == m - RingCap
           more == Append(bs, b)
           t == SubSeq(bs, m - RingCap + 1, m)
           u == SubSeq(more, (m + 1) - RingCap + 1, m + 1)
           r == FilledRing(y, bs)
           one == << [size |-> z, bytes |-> t] >>
           grown == << [size |-> z, bytes |-> Append(t, b)] >>
<1>1. RingCap \in Nat /\ RingCap >= 1 /\ m \in Nat /\ RingCap <= m
  BY GoodNumbers
<1>2. more \in Seq(Nat) /\ Len(more) = m + 1
  BY AppendProperties
<1>3. c \in Nat /\ c < m + 1 /\ c + 1 = m - RingCap + 1
      /\ (c + 1) + 1 = (m + 1) - RingCap + 1 /\ c + 1 \in 1 .. m + 1
  BY <1>1
<1>4. r = [segments |-> one, len |-> RingCap]
  BY DEF FilledRing
<1>5. FilledRing(y, more) = [segments |-> << [size |-> z, bytes |-> u] >>, len |-> RingCap]
  BY <1>2 DEF FilledRing
<1> HIDE DEF r
<1>6. Append(t, b) = SubSeq(more, c + 1, m + 1)
  <2> HIDE DEF c
  <2>1. SubSeq(Append(bs, b), c + 1, Len(bs) + 1) = Append(SubSeq(bs, c + 1, Len(bs)), b)
    BY <1>3, SubSeqAppend
  <2> QED
    BY <1>3, <2>1
<1>7. Tail(Append(t, b)) = u
  <2> HIDE DEF c, more
  <2>1. c < Len(more)
    BY <1>2, <1>3
  <2>2. Tail(SubSeq(more, c + 1, Len(more))) = SubSeq(more, (c + 1) + 1, Len(more))
    BY <1>2, <1>3, <2>1, SuffixTail
  <2> QED
    BY <1>2, <1>3, <1>6, <2>2
<1>8. DrainOne(grown) = << [size |-> z, bytes |-> u] >>
  <2> DEFINE v == Append(t, b)
  <2>1. Tail(v) = u
    BY <1>7
  <2> HIDE DEF v, u
  <2>2. grown = << [size |-> z, bytes |-> v] >>
    BY DEF v
  <2>3. \A a, d : [<< a >> EXCEPT ![1] = d] = << d >>
    OBVIOUS
  <2>4. Len(grown) = 1 /\ grown[1].bytes = v /\ grown[1].size = z
    BY <2>2
  <2>5. \A d : [grown EXCEPT ![1] = d] = << d >>
    BY <2>2, <2>3
  <2> HIDE DEF grown
  <2>6. ~(Len(grown) > 1)
    BY <2>4
  <2>7. DrainOne(grown) = [grown EXCEPT ![1] = WithBytes(grown[1], Tail(v))]
    BY <2>4, <2>6 DEF DrainOne
  <2>8. WithBytes(grown[1], Tail(v)) = [size |-> z, bytes |-> u]
    BY <2>1, <2>4 DEF WithBytes
  <2> QED
    BY <2>5, <2>7, <2>8
<1>9. RingPush(r, b) = [segments |-> DrainOne(grown), len |-> RingCap]
  <2> HIDE DEF t, z
  <2>1. r.segments = one /\ r.len = RingCap
    BY <1>4
  <2>2. Len(one) = 1 /\ one[1].bytes = t /\ one[1].size = z
    OBVIOUS
  <2>3. \A a, d : [<< a >> EXCEPT ![1] = d] = << d >>
    OBVIOUS
  <2>4. [one EXCEPT ![Len(one)] = WithBytes(@, Append(@.bytes, b))] = grown
    BY <2>2, <2>3 DEF WithBytes
  <2>5. ~(RingCap < RingCap)
    BY <1>1
  <2> HIDE DEF one, grown
  <2> QED
    BY <2>1, <2>4, <2>5 DEF RingPush
<1> HIDE DEF grown, u
<1>10. FilledRing(y, more) = RingPush(r, b)
  BY <1>5, <1>8, <1>9
<1> QED
  BY <1>10 DEF more, r

(* The ring of a single byte. *)
LEMMA TinyRingNext ==
    ASSUME NEW y, GoodShape(y), RingCap = 1, NEW bs \in Seq(Nat), NEW b \in Nat
    PROVE  Appended(y, Append(bs, b)) = RingPush(Appended(y, bs), b)
<1> DEFINE z == Newest(y).size
           m == Len(bs)
           more == Append(bs, b)
           r == Appended(y, bs)
<1>1. m \in Nat /\ more \in Seq(Nat) /\ Len(more) = m + 1
  BY AppendProperties
<1>2. Newest(r).size = z
  <2>1. CASE m = 0
    <3>1. bs = <<>>
      BY <2>1, EmptySeq
    <3>2. r = y
      BY <3>1, AppendedNothing
    <3> QED
      BY <3>2
  <2>2. CASE m # 0
    <3> DEFINE t == SubSeq(bs, m - 1 + 1, m)
               one == << [size |-> z, bytes |-> t] >>
    <3>1. m >= RingCap
      BY <1>1, <2>2
    <3> HIDE DEF z
    <3>2. r = [segments |-> one, len |-> 1]
      BY <3>1 DEF Appended, FilledRing, z
    <3> HIDE DEF t, r
    <3>3. Len(one) = 1 /\ one[1].size = z
      OBVIOUS
    <3>4. r.segments = one
      BY <3>2
    <3> HIDE DEF one
    <3> QED
      BY <3>3, <3>4 DEF Newest
  <2> QED
    BY <2>1, <2>2
<1>3. SubSeq(more, (m + 1) - 1 + 1, m + 1) = << b >>
  <2>1. (m + 1) - 1 + 1 = m + 1 /\ m + 1 \in 1 .. m + 1 /\ m < m + 1
    BY <1>1
  <2>2. SubSeq(Append(bs, b), m + 1, Len(bs) + 1) = Append(SubSeq(bs, m + 1, Len(bs)), b)
    BY <2>1, SubSeqAppend
  <2>3. SubSeq(bs, m + 1, m) = <<>>
    <3>1. \A i, j \in Int : j < i => SubSeq(bs, i, j) = <<>>
      BY SubSeqEmpty
    <3> QED
      BY <1>1, <2>1, <3>1
  <2>4. Append(<<>>, b) = << b >>
    OBVIOUS
  <2> QED
    BY <2>1, <2>2, <2>3, <2>4
<1>4. Len(more) >= RingCap
  BY <1>1
<1>5. Appended(y, more) = [segments |-> << [size |-> z, bytes |-> << b >>] >>, len |-> 1]
  BY <1>1, <1>3, <1>4 DEF Appended, FilledRing
<1> HIDE DEF r
<1>6. RingPush(r, b) = [segments |-> << [size |-> Newest(r).size, bytes |-> << b >>] >>,
                        len |-> 1]
  BY DEF RingPush
<1>7. Appended(y, more) = RingPush(r, b)
  BY <1>2, <1>5, <1>6
<1> QED
  BY <1>7 DEF r

(* A chunk is appended as its bytes are pushed, one after the other. *)
LEMMA AppendedNext ==
    ASSUME NEW y, GoodShape(y), NEW bs \in Seq(Nat), NEW b \in Nat
    PROVE  Appended(y, Append(bs, b)) = RingPush(Appended(y, bs), b)
<1> DEFINE m == Len(bs)
           more == Append(bs, b)
<1>1. m \in Nat /\ more \in Seq(Nat) /\ Len(more) = m + 1
      /\ RingCap \in Nat /\ RingCap >= 1
  BY AppendProperties, GoodNumbers
<1>2. CASE RingCap = 1
  BY <1>2, TinyRingNext
<1>3. CASE RingCap # 1 /\ m < RingCap
  <2>1. Appended(y, bs) = GrownRing(y, bs)
    BY <1>1, <1>3 DEF Appended
  <2>2. GrownRing(y, more) = RingPush(GrownRing(y, bs), b)
    BY <1>1, <1>3, GrownRingNext
  <2>3. Appended(y, more) = GrownRing(y, more)
    <3>1. CASE m + 1 = RingCap
      <4>1. GrownRing(y, more) = FilledRing(y, more)
        BY <1>1, <3>1, FullChunk
      <4> QED
        BY <1>1, <3>1, <4>1 DEF Appended
    <3>2. CASE m + 1 # RingCap
      <4>1. ~(Len(more) >= RingCap)
        BY <1>1, <1>3, <3>2
      <4> QED
        BY <4>1 DEF Appended
    <3> QED
      BY <3>1, <3>2
  <2> QED
    BY <2>1, <2>2, <2>3
<1>4. CASE RingCap # 1 /\ ~(m < RingCap)
  <2>1. RingCap <= m /\ m >= RingCap /\ Len(more) >= RingCap
    BY <1>1, <1>4
  <2>2. FilledRing(y, more) = RingPush(FilledRing(y, bs), b)
    BY <1>4, <2>1, FilledRingNext
  <2> QED
    BY <2>1, <2>2 DEF Appended
<1> QED
  BY <1>2, <1>3, <1>4

(* The same in PaneRing's terms. *)
LEMMA GoodShapeIs ==
    ASSUME NEW y
    PROVE  GoodShape(y) <=> RingOK(y, Nat) /\ RingExact(y)
<1>1. ASSUME GoodShape(y) PROVE RingOK(y, Nat) /\ RingExact(y)
  <2>1. y \in Ring(Nat)
    <3>1. y.segments \in Seq(Segment(Nat)) /\ y.len \in Nat
          /\ y = [segments |-> y.segments, len |-> y.len]
      BY <1>1, GoodNumbers DEF GoodShape, BareSegment
    <3> QED
      BY <3>1 DEF Ring
  <2>2. OnlyNewestEmpty(y) /\ y.segments # <<>>
    BY <1>1 DEF GoodShape, Proper, OnlyNewestEmpty
  <2>3. RingExact(y)
    BY <1>1 DEF GoodShape, RingExact, RingBytes, Content
  <2> QED
    BY <2>1, <2>2, <2>3 DEF RingOK
<1>2. ASSUME RingOK(y, Nat), RingExact(y) PROVE GoodShape(y)
  <2>1. /\ y = [segments |-> y.segments, len |-> y.len]
        /\ y.segments \in Seq(BareSegment) /\ y.segments # <<>>
    BY <1>2 DEF RingOK, Ring, BareSegment
  <2>2. Proper(y.segments)
    BY <1>2, <2>1 DEF RingOK, OnlyNewestEmpty, Proper
  <2> QED
    BY <1>2, <2>1, <2>2 DEF GoodShape, RingExact, RingBytes, Content
<1> QED
  BY <1>1, <1>2

(* A pushed byte leaves a ring. *)
LEMMA PushedGood ==
    ASSUME NEW y, GoodShape(y), NEW b \in Nat
    PROVE  GoodShape(RingPush(y, b))
<1>1. RingOK(y, Nat) /\ RingExact(y)
  BY GoodShapeIs
<1>2. RingOK(RingPush(y, b), Nat) /\ RingExact(RingPush(y, b))
  BY <1>1, RingPushOK, PushBytes
<1> QED
  BY <1>2, GoodShapeIs

(* And so does a chunk. *)
LEMMA AppendedGood ==
    ASSUME NEW y, GoodShape(y)
    PROVE  \A bs \in Seq(Nat) : GoodShape(Appended(y, bs))
<1> DEFINE U == {bs \in Seq(Nat) : GoodShape(Appended(y, bs))}
<1>1. <<>> \in U
  BY AppendedNothing
<1>2. ASSUME NEW bs \in Seq(Nat), NEW b \in Nat, bs \in U
      PROVE  Append(bs, b) \in U
  <2>1. GoodShape(Appended(y, bs))
    BY <1>2
  <2>2. Appended(y, Append(bs, b)) = RingPush(Appended(y, bs), b)
    BY AppendedNext
  <2>3. GoodShape(Appended(y, Append(bs, b)))
    BY <2>1, <2>2, PushedGood
  <2>4. Append(bs, b) \in Seq(Nat)
    BY AppendProperties
  <2> QED
    BY <2>3, <2>4
<1> HIDE DEF U
<1>3. Seq(Nat) \subseteq U
  BY <1>1, <1>2, SequencesBySet
<1> QED
  BY <1>3 DEF U

(* Two chunks are their concatenation. *)
LEMMA AppendedTwice ==
    ASSUME NEW y, GoodShape(y), NEW s \in Seq(Nat)
    PROVE  \A t \in Seq(Nat) : Appended(Appended(y, s), t) = Appended(y, s \o t)
<1> DEFINE z == Appended(y, s)
           U == {t \in Seq(Nat) : Appended(z, t) = Appended(y, s \o t)}
<1>1. GoodShape(z)
  BY AppendedGood
<1> HIDE DEF z
<1>2. <<>> \in U
  <2>1. Appended(z, <<>>) = z /\ s \o <<>> = s
    BY <1>1, AppendedNothing, ConcatEmptySeq
  <2> QED
    BY <2>1 DEF z
<1>3. ASSUME NEW t \in Seq(Nat), NEW b \in Nat, t \in U
      PROVE  Append(t, b) \in U
  <2> DEFINE st == s \o t
  <2>1. Appended(z, t) = Appended(y, st)
    BY <1>3
  <2>2. Append(t, b) \in Seq(Nat) /\ st \in Seq(Nat)
    BY AppendProperties, ConcatProperties
  <2>3. s \o Append(t, b) = Append(st, b)
    BY ConcatAppend
  <2> HIDE DEF st
  <2>4. Appended(z, Append(t, b)) = RingPush(Appended(z, t), b)
    BY <1>1, AppendedNext
  <2>5. Appended(y, Append(st, b)) = RingPush(Appended(y, st), b)
    BY <2>2, AppendedNext
  <2>6. Appended(z, Append(t, b)) = Appended(y, s \o Append(t, b))
    BY <2>1, <2>3, <2>4, <2>5
  <2> QED
    BY <2>2, <2>6
<1> HIDE DEF U
<1>4. Seq(Nat) \subseteq U
  BY <1>2, <1>3, SequencesBySet
<1> QED
  BY <1>4 DEF U, z

(***************************************************************************)
(* Rings with their deques.                                                *)
(***************************************************************************)

GoodRing(r) ==
    /\ r = [segments |-> r.segments, len |-> r.len]
    /\ r.segments \in Seq(DequeSegment)
    /\ GoodShape(Shape(r))

(* The numbers of such a ring. *)
LEMMA GoodRingIs ==
    ASSUME NEW r, GoodRing(r)
    PROVE  LET n == Len(r.segments)
           IN  /\ r = [segments |-> r.segments, len |-> r.len]
               /\ r.segments \in Seq(DequeSegment) /\ n \in Nat /\ n >= 1
               /\ GoodShape(Shape(r)) /\ Shape(r).len = r.len
               /\ Shape(r).segments = Bares(r.segments) /\ Len(Bares(r.segments)) = n
               /\ Proper(Bares(r.segments))
               /\ r.segments[n] \in DequeSegment
               /\ Newest(Shape(r)) = Bare(r.segments[n])
<1> DEFINE segs == r.segments
           n == Len(segs)
           x == Bares(segs)
<1>1. /\ r = [segments |-> segs, len |-> r.len] /\ segs \in Seq(DequeSegment)
      /\ GoodShape(Shape(r))
  BY DEF GoodRing
<1>2. Shape(r).len = r.len /\ Shape(r).segments = x
  BY DEF Shape
<1>3. /\ Len(x) = n /\ x \in Seq(BareSegment)
      /\ \A i \in 1 .. n : x[i] = Bare(segs[i])
  BY <1>1, BaresAre
<1>4. Proper(x)
  BY <1>1, <1>2 DEF GoodShape
<1>5. n \in Nat /\ n >= 1
  <2>1. Len(x) \in Nat /\ Len(x) >= 1
    BY <1>1, <1>2, GoodNumbers
  <2> QED
    BY <1>3, <2>1
<1>6. n \in 1 .. n
  BY <1>5
<1>7. segs[n] \in DequeSegment
  BY <1>1, <1>6
<1>8. Newest(Shape(r)) = Bare(segs[n])
  BY <1>2, <1>3, <1>6 DEF Newest
<1> QED
  BY <1>1, <1>2, <1>3, <1>4, <1>5, <1>7, <1>8

(* Bytes behind those of the newest deque. *)
LEMMA GrownShape ==
    ASSUME NEW r, GoodRing(r), NEW bs \in Seq(Nat)
    PROVE  LET n == Len(r.segments)
               grown == [r.segments EXCEPT ![n].deque.bytes = @ \o bs]
           IN  grown \in Seq(DequeSegment) /\ Bares(grown) = Grown(Bares(r.segments), bs)
<1> DEFINE segs == r.segments
           n == Len(segs)
           s == segs[n]
           x == Bares(segs)
           t == [size |-> s.size,
                 deque |-> [front |-> s.deque.front, bytes |-> s.deque.bytes \o bs]]
           grown == [segs EXCEPT ![n].deque.bytes = @ \o bs]
           more == [segs EXCEPT ![n] = t]
<1>1. segs \in Seq(DequeSegment) /\ n \in Nat /\ n >= 1 /\ s \in DequeSegment
      /\ Proper(x) /\ Len(x) = n
  BY GoodRingIs
<1>2. n \in 1 .. n
  BY <1>1
<1>3. /\ s.size \in Size /\ s.deque.front \in 0 .. DequeCap - 1
      /\ s.deque.bytes \in Seq(Nat)
      /\ Bare(s).size = s.size /\ Bare(s).bytes = s.deque.bytes
  BY <1>1, DequeSegmentFields
<1>4. s = [size |-> s.size, deque |-> [front |-> s.deque.front, bytes |-> s.deque.bytes]]
  BY <1>1 DEF DequeSegment
<1>5. s.deque.bytes \o bs \in Seq(Nat)
  BY <1>3, ConcatProperties
<1>6. t \in DequeSegment
  <2> DEFINE v == s.deque.bytes \o bs
  <2>1. v \in Seq(Nat)
    BY <1>5
  <2> HIDE DEF v
  <2>2. [size |-> s.size, deque |-> [front |-> s.deque.front, bytes |-> v]] \in DequeSegment
    BY <1>3, <2>1 DEF DequeSegment
  <2> QED
    BY <2>2 DEF v
<1>7. Bare(t) = WithBytes(Bare(s), Bare(s).bytes \o bs)
  BY <1>3 DEF Bare, WithBytes
<1>8. grown = more
  <2>1. grown = [segs EXCEPT ![n] = [s EXCEPT !.deque = [s.deque EXCEPT !.bytes =
                                        s.deque.bytes \o bs]]]
    OBVIOUS
  <2>2. [s EXCEPT !.deque = [s.deque EXCEPT !.bytes = s.deque.bytes \o bs]] = t
    <3> DEFINE d == s.deque
               v == d.bytes \o bs
    <3>1. s = [size |-> s.size, deque |-> d] /\ d = [front |-> d.front, bytes |-> d.bytes]
      BY <1>4
    <3>2. t = [size |-> s.size, deque |-> [front |-> d.front, bytes |-> v]]
      OBVIOUS
    <3> HIDE DEF v, t
    <3>3. [d EXCEPT !.bytes = v] = [front |-> d.front, bytes |-> v]
      BY <3>1
    <3> HIDE DEF d, s
    <3>4. [s EXCEPT !.deque = [d EXCEPT !.bytes = v]] = t
      BY <3>1, <3>2, <3>3
    <3> QED
      BY <3>4 DEF s, d, v
  <2> QED
    BY <2>1, <2>2
<1> HIDE DEF t, grown
<1>9. /\ more \in Seq(DequeSegment)
      /\ Bares(more) = [x EXCEPT ![n] = Bare(t)]
  BY <1>1, <1>2, <1>6, BaresExcept
<1>10. x[n] = Bare(s)
  BY <1>1, <1>2, BaresAre
<1>11. [x EXCEPT ![n] = Bare(t)] = Grown(x, bs)
  <2> HIDE DEF x, s
  <2> QED
    BY <1>1, <1>7, <1>10 DEF Grown
<1>12. grown \in Seq(DequeSegment) /\ Bares(grown) = Grown(x, bs)
  BY <1>8, <1>9, <1>11
<1> QED
  BY <1>12 DEF grown

(* A chunk at least as long as the ring starts it over. *)
LEMMA ShapeOfFilled ==
    ASSUME NEW r, GoodRing(r), NEW bs \in Seq(Nat), Len(bs) >= RingCap
    PROVE  LET q == ReplayRingAppend(r, bs)
           IN  /\ q.segments \in Seq(DequeSegment)
               /\ q = [segments |-> q.segments, len |-> q.len]
               /\ Shape(q) = FilledRing(Shape(r), bs)
<1> DEFINE n == Len(r.segments)
           s == r.segments[n]
           t == SubSeq(bs, Len(bs) - RingCap + 1, Len(bs))
           d == Extend(EmptyDeque, t)
           e == [size |-> s.size, deque |-> d]
           one == << e >>
           q == ReplayRingAppend(r, bs)
<1>1. s \in DequeSegment /\ Newest(Shape(r)) = Bare(s) /\ GoodShape(Shape(r))
  BY GoodRingIs
<1>2. s.size \in Size /\ Newest(Shape(r)).size = s.size
  BY <1>1, DequeSegmentFields
<1>3. RingCap \in Nat /\ RingCap >= 1 /\ DequeCap \in Nat /\ DequeCap >= 1
  BY RingAssumption, ReplayRingAssumption
<1>4. t \in Seq(Nat)
  <2>1. RingCap <= Len(bs)
    BY <1>3
  <2> QED
    BY <2>1, LastBytes
<1>5. bs # <<>>
  <2>1. Len(bs) # 0
    BY <1>3
  <2> QED
    BY <2>1, EmptySeq
<1>6. q = [segments |-> one, len |-> RingCap]
  BY <1>5 DEF ReplayRingAppend
<1> HIDE DEF q, t, s, n
<1>7. d = [front |-> 0, bytes |-> t]
  <2>1. <<>> \o t = t
    BY <1>4, ConcatEmptySeq
  <2> QED
    BY <2>1 DEF Extend, EmptyDeque
<1> HIDE DEF d
<1>8. e \in DequeSegment /\ Bare(e) = [size |-> s.size, bytes |-> t]
  <2>1. 0 \in 0 .. DequeCap - 1
    BY <1>3
  <2> QED
    BY <1>2, <1>4, <1>7, <2>1 DEF DequeSegment, Bare
<1> HIDE DEF e
<1>9. one \in Seq(DequeSegment) /\ Len(one) = 1 /\ one[1] = e
  BY <1>8
<1>10. Bares(one) = << Bare(e) >>
  <2> DEFINE x == Bares(one)
  <2>1. /\ x \in Seq(BareSegment) /\ Len(x) = 1 /\ x[1] = Bare(e)
    <3> HIDE DEF one
    <3>1. 1 \in 1 .. Len(one)
      BY <1>9
    <3> QED
      BY <1>9, <3>1, BaresAre
  <2> HIDE DEF x
  <2>2. x = << x[1] >>
    BY <2>1
  <2> QED
    BY <2>1, <2>2 DEF x
<1>11. Shape(q) = [segments |-> << [size |-> s.size, bytes |-> t] >>, len |-> RingCap]
  <2> HIDE DEF one
  <2> QED
    BY <1>6, <1>8, <1>10 DEF Shape
<1>12. FilledRing(Shape(r), bs)
           = [segments |-> << [size |-> s.size, bytes |-> t] >>, len |-> RingCap]
  BY <1>2 DEF FilledRing, t
<1>13. q.segments = one
  BY <1>6
<1> QED
  BY <1>6, <1>9, <1>11, <1>12, <1>13 DEF q

(* A shorter one drains the oldest bytes. *)
LEMMA ShapeOfGrown ==
    ASSUME NEW r, GoodRing(r), NEW bs \in Seq(Nat), ~(Len(bs) >= RingCap)
    PROVE  LET q == ReplayRingAppend(r, bs)
           IN  /\ q.segments \in Seq(DequeSegment)
               /\ q = [segments |-> q.segments, len |-> q.len]
               /\ Shape(q) = GrownRing(Shape(r), bs)
<1> DEFINE n == Len(r.segments)
           x == Bares(r.segments)
           len == r.len + Len(bs)
           k == Excess(len)
           grown == [r.segments EXCEPT ![n].deque.bytes = @ \o bs]
           q == ReplayRingAppend(r, bs)
           left == DrainHeads(grown, k)
<1>1. /\ r = [segments |-> r.segments, len |-> r.len]
      /\ r.segments \in Seq(DequeSegment)
      /\ GoodShape(Shape(r)) /\ Shape(r).len = r.len
      /\ Shape(r).segments = x /\ Proper(x)
  BY GoodRingIs
<1>2. CASE bs = <<>>
  <2>1. q = r
    BY <1>2 DEF ReplayRingAppend
  <2>2. GrownRing(Shape(r), bs) = Shape(r)
    BY <1>1, <1>2, AppendedNothing
  <2> QED
    BY <1>1, <2>1, <2>2
<1>3. CASE bs # <<>>
  <2>1. q = [segments |-> left, len |-> len - k]
    BY <1>3 DEF ReplayRingAppend, Excess
  <2>2. grown \in Seq(DequeSegment) /\ Bares(grown) = Grown(x, bs)
    BY GrownShape
  <2>3. r.len \in Nat /\ r.len = Len(Content(x)) /\ RingCap \in Nat /\ RingCap >= 1
    <3> DEFINE y == Shape(r)
    <3>1. GoodShape(y) /\ y.len = r.len /\ y.segments = x
      BY <1>1
    <3> HIDE DEF y, x
    <3>2. y.len \in Nat /\ y.len = Len(Content(y.segments)) /\ RingCap \in Nat /\ RingCap >= 1
      BY <3>1, GoodNumbers
    <3> QED
      BY <3>1, <3>2
  <2> HIDE DEF grown, x, q
  <2>4. Proper(Bares(grown)) /\ Len(Content(Bares(grown))) = len
    BY <1>1, <2>2, <2>3, GrownProper, GrownContent
  <2>5. k \in Nat /\ k <= len
    BY <2>3 DEF Excess
  <2> HIDE DEF len, k
  <2>6. left \in Seq(DequeSegment) /\ Bares(left) = Drained(Grown(x, bs), k)
    <3>1. k <= Len(Content(Bares(grown)))
      BY <2>4, <2>5
    <3>2. left \in Seq(DequeSegment) /\ Bares(left) = Drained(Bares(grown), k)
      BY <2>2, <2>4, <2>5, <3>1, DrainHeadsShape
    <3> QED
      BY <2>2, <3>2
  <2> HIDE DEF left
  <2>7. q.segments = left /\ q.len = len - k
    BY <2>1
  <2>8. Shape(q) = [segments |-> Drained(Grown(x, bs), k), len |-> len - k]
    BY <2>6, <2>7 DEF Shape
  <2>9. GrownRing(Shape(r), bs)
            = [segments |-> Drained(Grown(x, bs), k), len |-> len - k]
    BY <1>1 DEF GrownRing, k, len
  <2> QED
    BY <2>1, <2>6, <2>7, <2>8, <2>9 DEF q
<1> QED
  BY <1>2, <1>3

(* append, with its deques, is append on shapes. *)
LEMMA ShapeOfAppend ==
    ASSUME NEW r, GoodRing(r), NEW bs \in Seq(Nat)
    PROVE  /\ GoodRing(ReplayRingAppend(r, bs))
           /\ Shape(ReplayRingAppend(r, bs)) = Appended(Shape(r), bs)
<1> DEFINE q == ReplayRingAppend(r, bs)
<1>1. /\ q.segments \in Seq(DequeSegment)
      /\ q = [segments |-> q.segments, len |-> q.len]
      /\ Shape(q) = Appended(Shape(r), bs)
  <2>1. CASE Len(bs) >= RingCap
    BY <2>1, ShapeOfFilled DEF Appended
  <2>2. CASE ~(Len(bs) >= RingCap)
    BY <2>2, ShapeOfGrown DEF Appended
  <2> QED
    BY <2>1, <2>2
<1>2. GoodShape(Shape(r))
  BY GoodRingIs
<1>3. GoodShape(Appended(Shape(r), bs))
  BY <1>2, AppendedGood
<1> QED
  BY <1>1, <1>3 DEF GoodRing

(* The two oldest deques become one. *)
LEMMA MergedHeadShape ==
    ASSUME NEW segs \in Seq(DequeSegment), segs # <<>>
    PROVE  /\ MergedHead(segs) \in Seq(DequeSegment)
           /\ Bares(MergedHead(segs)) = MergeOldest(Bares(segs))
<1> DEFINE x == Bares(segs)
           n == Len(segs)
           a == segs[1]
           b == segs[2]
           bytes == a.deque.bytes \o b.deque.bytes
           d == Extend(a.deque, b.deque.bytes)
           t == [size |-> b.size, deque |-> d]
           rest == [segs EXCEPT ![2].deque = d]
           more == [segs EXCEPT ![2] = t]
<1>1. /\ Len(x) = n /\ x \in Seq(BareSegment) /\ n \in Nat
      /\ \A i \in 1 .. n : x[i] = Bare(segs[i])
  BY BaresAre
<1>2. CASE n >= MaxSegments
  <2>1. n >= 2 /\ 1 \in 1 .. n /\ 2 \in 1 .. n
    BY <1>1, <1>2, RingAssumption
  <2>2. a \in DequeSegment /\ b \in DequeSegment /\ x[1] = Bare(a) /\ x[2] = Bare(b)
    BY <1>1, <2>1
  <2>3. /\ b.size \in Size /\ a.deque.front \in 0 .. DequeCap - 1
        /\ a.deque.bytes \in Seq(Nat) /\ b.deque.bytes \in Seq(Nat)
        /\ x[1].bytes = a.deque.bytes /\ x[2].bytes = b.deque.bytes
        /\ x[2].size = b.size
    BY <2>2, DequeSegmentFields
  <2>4. b = [size |-> b.size, deque |-> b.deque]
    BY <2>2 DEF DequeSegment
  <2>5. bytes \in Seq(Nat)
    BY <2>3, ConcatProperties
  <2>6. d = [front |-> a.deque.front, bytes |-> bytes]
    BY DEF Extend
  <2> HIDE DEF bytes, d
  <2>7. t \in DequeSegment /\ Bare(t) = [size |-> b.size, bytes |-> bytes]
    BY <2>3, <2>5, <2>6 DEF DequeSegment, Bare
  <2>8. rest = more
    <3>1. rest = [segs EXCEPT ![2] = [b EXCEPT !.deque = d]]
      OBVIOUS
    <3> HIDE DEF b
    <3>2. [b EXCEPT !.deque = d] = t
      BY <2>4
    <3> QED
      BY <3>1, <3>2
  <2>9. MergedHead(segs) = Tail(more)
    <3>1. MergedHead(segs) = Tail(rest)
      BY <1>2 DEF MergedHead, d
    <3> QED
      BY <2>8, <3>1
  <2> HIDE DEF t, rest
  <2>10. /\ more \in Seq(DequeSegment) /\ Len(more) = n
         /\ Bares(more) = [x EXCEPT ![2] = Bare(t)]
    BY <2>1, <2>7, BaresExcept
  <2> HIDE DEF more
  <2>11. more # <<>>
    BY <2>1, <2>10, EmptySeq
  <2>12. Tail(more) \in Seq(DequeSegment) /\ Bares(Tail(more)) = Tail(Bares(more))
    BY <2>10, <2>11, BaresTail, HeadTailProperties
  <2>13. Bare(t) = WithBytes(x[2], x[1].bytes \o x[2].bytes)
    BY <2>3, <2>7 DEF WithBytes, bytes
  <2>14. MergeOldest(x) = Tail([x EXCEPT ![2] = Bare(t)])
    <3> DEFINE w == WithBytes(x[2], x[1].bytes \o x[2].bytes)
    <3>1. MergeOldest(x) = Tail([x EXCEPT ![2] = w])
      BY <1>1, <1>2 DEF MergeOldest
    <3> HIDE DEF x
    <3> QED
      BY <2>13, <3>1
  <2> QED
    BY <2>9, <2>10, <2>12, <2>14
<1>3. CASE ~(n >= MaxSegments)
  <2>1. MergedHead(segs) = segs
    BY <1>3 DEF MergedHead
  <2>2. MergeOldest(x) = x
    BY <1>1, <1>3 DEF MergeOldest
  <2> QED
    BY <2>1, <2>2
<1> QED
  BY <1>2, <1>3

(* What resize does, on shapes. *)
ResizeAgrees(r, s) ==
    LET q == ReplayRingResize(r, s)
    IN  /\ q.ring.segments \in Seq(DequeSegment)
        /\ q.ring = [segments |-> q.ring.segments, len |-> q.ring.len]
        /\ Shape(q.ring) = RingResize(Shape(r), s)
        /\ q.changed = RingResizes(Shape(r), s)

(* resize, with its deques, is resize on shapes. *)
LEMMA ShapeOfResize ==
    ASSUME NEW r, GoodRing(r), NEW s \in Size
    PROVE  ResizeAgrees(r, s)
<1> DEFINE segs == r.segments
           n == Len(segs)
           last == segs[n]
           x == Bares(segs)
           y == Shape(r)
           q == ReplayRingResize(r, s)
           empty == [size |-> s, bytes |-> <<>>]
<1>1. /\ r = [segments |-> segs, len |-> r.len]
      /\ segs \in Seq(DequeSegment) /\ n \in Nat /\ n >= 1
      /\ y.len = r.len /\ y.segments = x /\ Len(x) = n
      /\ last \in DequeSegment /\ Newest(y) = Bare(last)
  BY GoodRingIs
<1>2. y = [segments |-> x, len |-> r.len]
  BY DEF Shape
<1>3. Newest(y).size = last.size /\ Newest(y).bytes = last.deque.bytes
  BY <1>1, DequeSegmentFields
<1>4. RingResizes(y, s) <=> last.size # s
  BY <1>3 DEF RingResizes
<1>5. n \in 1 .. n
  BY <1>1
<1>6. CASE last.size = s
  <2>1. q = [ring |-> r, changed |-> FALSE]
    BY <1>6 DEF ReplayRingResize
  <2>2. RingResize(y, s) = y /\ ~RingResizes(y, s)
    BY <1>4, <1>6 DEF RingResize
  <2>3. q.ring = r /\ q.changed = FALSE
    BY <2>1
  <2> HIDE DEF q
  <2>4. q.changed = RingResizes(y, s)
    <3>1. RingResizes(y, s) = FALSE
      BY <2>2 DEF RingResizes
    <3> QED
      BY <2>3, <3>1
  <2> HIDE DEF y
  <2>5. /\ q.ring.segments \in Seq(DequeSegment)
        /\ q.ring = [segments |-> q.ring.segments, len |-> q.ring.len]
        /\ Shape(q.ring) = RingResize(y, s)
    BY <1>1, <2>2, <2>3 DEF y
  <2> QED
    BY <2>4, <2>5 DEF ResizeAgrees, q, y
<1>7. CASE last.size # s /\ last.deque.bytes = <<>>
  <2> DEFINE t == [size |-> s, deque |-> last.deque]
             more == [segs EXCEPT ![n] = t]
  <2>1. q = [ring |-> [r EXCEPT !.segments[n].size = s], changed |-> TRUE]
    BY <1>7 DEF ReplayRingResize
  <2>2. [r EXCEPT !.segments[n].size = s] = [segments |-> more, len |-> r.len]
    <3>1. last = [size |-> last.size, deque |-> last.deque]
      BY <1>1 DEF DequeSegment
    <3>2. [last EXCEPT !.size = s] = t
      <4> HIDE DEF last
      <4> QED
        BY <3>1
    <3>3. [r EXCEPT !.segments[n].size = s]
              = [r EXCEPT !.segments = [segs EXCEPT ![n] = [last EXCEPT !.size = s]]]
      OBVIOUS
    <3>4. [r EXCEPT !.segments[n].size = s] = [r EXCEPT !.segments = more]
      BY <3>2, <3>3
    <3>5. \A v : [r EXCEPT !.segments = v] = [segments |-> v, len |-> r.len]
      <4> DEFINE g == r.segments
                 l == r.len
      <4>1. r = [segments |-> g, len |-> l]
        BY <1>1
      <4> HIDE DEF g, l
      <4>2. \A v : [r EXCEPT !.segments = v] = [segments |-> v, len |-> l]
        BY <4>1
      <4> QED
        BY <4>2 DEF l
    <3> HIDE DEF more
    <3> QED
      BY <3>4, <3>5
  <2>3. t \in DequeSegment /\ Bare(t) = empty
    <3>1. last.deque \in [front : 0 .. DequeCap - 1, bytes : Seq(Nat)]
      BY <1>1 DEF DequeSegment
    <3>2. t \in DequeSegment
      BY <3>1 DEF DequeSegment
    <3>3. Bare(t) = empty
      BY <1>7 DEF Bare
    <3> QED
      BY <3>2, <3>3
  <2> HIDE DEF t, q
  <2>4. more \in Seq(DequeSegment) /\ Bares(more) = [x EXCEPT ![n] = Bare(t)]
    <3>1. n \in 1 .. Len(segs) /\ segs \in Seq(DequeSegment)
      BY <1>1, <1>5
    <3> HIDE DEF n, segs
    <3> QED
      BY <2>3, <3>1, BaresExcept
  <2> HIDE DEF more
  <2>5. q.ring = [segments |-> more, len |-> r.len] /\ q.changed = TRUE
    BY <2>1, <2>2
  <2>6. q.ring.segments = more /\ q.ring.len = r.len
    BY <2>5
  <2>7. Shape(q.ring) = [segments |-> [x EXCEPT ![n] = empty], len |-> r.len]
    BY <2>3, <2>4, <2>6 DEF Shape
  <2>8. RingResizes(y, s) /\ RingResizes(y, s) = TRUE
    BY <1>4, <1>7 DEF RingResizes
  <2>9. RingResize(y, s) = [y EXCEPT !.segments[Len(y.segments)] = empty]
    BY <1>3, <1>7, <2>8 DEF RingResize
  <2> HIDE DEF x, empty
  <2>10. [y EXCEPT !.segments[Len(y.segments)] = empty]
             = [segments |-> [x EXCEPT ![n] = empty], len |-> r.len]
    <3>1. [y EXCEPT !.segments[Len(y.segments)] = empty]
              = [y EXCEPT !.segments = [y.segments EXCEPT ![Len(y.segments)] = empty]]
      OBVIOUS
    <3> HIDE DEF y
    <3>2. [y EXCEPT !.segments = [y.segments EXCEPT ![Len(y.segments)] = empty]]
              = [y EXCEPT !.segments = [x EXCEPT ![n] = empty]]
      BY <1>1
    <3> DEFINE v == [x EXCEPT ![n] = empty]
               l == r.len
    <3>3. y = [segments |-> x, len |-> l]
      BY <1>2
    <3> HIDE DEF v, l
    <3>4. [y EXCEPT !.segments = v] = [segments |-> v, len |-> l]
      BY <3>3
    <3> QED
      BY <3>1, <3>2, <3>4 DEF v, l
  <2> HIDE DEF y
  <2>11. Shape(q.ring) = RingResize(y, s)
    BY <2>7, <2>9, <2>10
  <2>12. q.changed = RingResizes(y, s)
    BY <2>5, <2>8
  <2> QED
    BY <2>4, <2>5, <2>6, <2>11, <2>12 DEF ResizeAgrees, q, y
<1>8. CASE last.size # s /\ last.deque.bytes # <<>>
  <2> DEFINE t == RingSegmentEmpty(s)
             merged == MergedHead(segs)
             more == Append(merged, t)
  <2>1. q = [ring |-> [r EXCEPT !.segments = more], changed |-> TRUE]
    BY <1>8 DEF ReplayRingResize
  <2>2. [r EXCEPT !.segments = more] = [segments |-> more, len |-> r.len]
    <3> DEFINE g == r.segments
               l == r.len
    <3>1. r = [segments |-> g, len |-> l]
      BY <1>1
    <3> HIDE DEF g, l, more
    <3>2. [r EXCEPT !.segments = more] = [segments |-> more, len |-> l]
      BY <3>1
    <3> QED
      BY <3>2 DEF l
  <2>3. segs # <<>>
    BY <1>1, EmptySeq
  <2>4. merged \in Seq(DequeSegment) /\ Bares(merged) = MergeOldest(x)
    BY <1>1, <2>3, MergedHeadShape
  <2>5. t \in DequeSegment /\ Bare(t) = empty
    <3>1. 0 \in 0 .. DequeCap - 1 /\ <<>> \in Seq(Nat)
      BY RingAssumption, ReplayRingAssumption
    <3> QED
      BY <3>1 DEF RingSegmentEmpty, EmptyDeque, DequeSegment, Bare
  <2> HIDE DEF t, merged, q
  <2>6. more \in Seq(DequeSegment) /\ Bares(more) = Append(MergeOldest(x), empty)
    <3>1. more \in Seq(DequeSegment)
      BY <2>4, <2>5, AppendProperties
    <3>2. Bares(more) = Append(Bares(merged), Bare(t))
      BY <2>4, <2>5, BaresAppend
    <3> QED
      BY <2>4, <2>5, <3>1, <3>2
  <2> HIDE DEF more, empty, x
  <2>7. q.ring = [segments |-> more, len |-> r.len] /\ q.changed = TRUE
    BY <2>1, <2>2
  <2>8. q.ring.segments = more /\ q.ring.len = r.len
    BY <2>7
  <2>9. Shape(q.ring) = [segments |-> Append(MergeOldest(x), empty), len |-> r.len]
    BY <2>6, <2>8 DEF Shape
  <2>10. RingResizes(y, s) /\ RingResizes(y, s) = TRUE
    BY <1>4, <1>8 DEF RingResizes
  <2>11. RingResize(y, s) = [y EXCEPT !.segments = Append(MergeOldest(y.segments), empty)]
    BY <1>3, <1>8, <2>10 DEF RingResize, empty
  <2> HIDE DEF y
  <2>12. [y EXCEPT !.segments = Append(MergeOldest(y.segments), empty)]
             = [segments |-> Append(MergeOldest(x), empty), len |-> r.len]
    <3> DEFINE l == r.len
               v == Append(MergeOldest(x), empty)
    <3>1. y = [segments |-> x, len |-> l] /\ y.segments = x
      BY <1>1, <1>2 DEF y
    <3>2. Append(MergeOldest(y.segments), empty) = v
      BY <3>1
    <3> HIDE DEF l, v
    <3>3. [y EXCEPT !.segments = v] = [segments |-> v, len |-> l]
      BY <3>1
    <3> QED
      BY <3>2, <3>3 DEF v, l
  <2>13. Shape(q.ring) = RingResize(y, s)
    BY <2>9, <2>11, <2>12
  <2>14. q.changed = RingResizes(y, s)
    BY <2>7, <2>10
  <2> QED
    BY <2>6, <2>7, <2>8, <2>13, <2>14 DEF ResizeAgrees, q, y
<1> QED
  BY <1>6, <1>7, <1>8

(* A resized ring is a ring. *)
LEMMA ResizedGood ==
    ASSUME NEW r, GoodRing(r), NEW s \in Size
    PROVE  GoodRing(ReplayRingResize(r, s).ring)
<1> DEFINE y == Shape(r)
           z == RingResize(y, s)
           q == ReplayRingResize(r, s).ring
<1>1. /\ q.segments \in Seq(DequeSegment)
      /\ q = [segments |-> q.segments, len |-> q.len]
      /\ Shape(q) = z
  BY ShapeOfResize DEF ResizeAgrees
<1>2. RingOK(y, Nat) /\ RingExact(y)
  BY GoodRingIs, GoodShapeIs
<1> HIDE DEF y
<1>3. RingOK(z, Nat)
  BY <1>2, RingResizeOK
<1>4. RingExact(z)
  <2>1. RingBytes(z) = RingBytes(y) /\ z.len = y.len
    BY <1>2, ResizeBytes
  <2> HIDE DEF z
  <2> QED
    BY <1>2, <2>1 DEF RingExact
<1>5. GoodShape(z)
  BY <1>3, <1>4, GoodShapeIs
<1> HIDE DEF q, z
<1>6. GoodRing(q)
  BY <1>1, <1>5 DEF GoodRing
<1> QED
  BY <1>6 DEF q

(* The two slices of a deque are its bytes. *)
LEMMA SlicesAre ==
    ASSUME NEW s \in DequeSegment
    PROVE  SegmentBytes(s) = s.deque.bytes
<1> DEFINE bs == s.deque.bytes
           room == DequeCap - s.deque.front
           a == IF Len(bs) <= room THEN Len(bs) ELSE room
           t == SubSeq(bs, 1, a)
           u == SubSeq(bs, a + 1, Len(bs))
<1>1. s.deque.front \in 0 .. DequeCap - 1 /\ bs \in Seq(Nat)
  BY DequeSegmentFields
<1>2. DequeCap \in Nat /\ DequeCap >= 1
  BY RingAssumption, ReplayRingAssumption
<1>3. AsSlices(s.deque) = << t, u >>
  BY DEF AsSlices
<1>4. SegmentBytes(s) = t \o u
  <2> DEFINE v == << t, u >>
  <2>1. v[1] = t /\ v[2] = u
    OBVIOUS
  <2> HIDE DEF v, t, u
  <2> QED
    BY <1>3, <2>1 DEF SegmentBytes, v
<1>5. Len(bs) \in Nat
  BY <1>1
<1>6. a \in 0 .. Len(bs)
  <2> DEFINE f == s.deque.front
             l == Len(bs)
  <2>1. f \in 0 .. DequeCap - 1 /\ l \in Nat
    BY <1>1, <1>5
  <2> HIDE DEF f, l
  <2>2. (IF l <= DequeCap - f THEN l ELSE DequeCap - f) \in 0 .. l
    BY <1>2, <2>1
  <2> QED
    BY <2>2 DEF f, l
<1> HIDE DEF a, bs
<1>7. a \in Nat /\ a <= Len(bs)
  BY <1>5, <1>6
<1>8. t \in Seq(Nat) /\ Len(t) = a /\ \A i \in 1 .. a : t[i] = bs[i]
  BY <1>1, <1>6, FirstOf
<1>9. /\ u \in Seq(Nat) /\ Len(u) = Len(bs) - a
      /\ \A i \in 1 .. Len(bs) - a : u[i] = bs[a + i]
  BY <1>1, <1>7, SuffixIs
<1> HIDE DEF t, u
<1>10. /\ t \o u \in Seq(Nat) /\ Len(t \o u) = Len(bs)
       /\ \A i \in 1 .. Len(bs) : (t \o u)[i] = IF i <= a THEN t[i] ELSE u[i - a]
  <2>1. /\ t \o u \in Seq(Nat) /\ Len(t \o u) = Len(t) + Len(u)
        /\ \A i \in 1 .. Len(t) + Len(u) :
               (t \o u)[i] = IF i <= Len(t) THEN t[i] ELSE u[i - Len(t)]
    BY <1>8, <1>9, ConcatProperties
  <2>2. Len(t) + Len(u) = Len(bs)
    BY <1>5, <1>7, <1>8, <1>9
  <2> QED
    BY <1>8, <2>1, <2>2
<1> DEFINE w == t \o u
<1> HIDE DEF w
<1>11. \A i \in 1 .. Len(bs) : w[i] = bs[i]
  <2> SUFFICES ASSUME NEW i \in 1 .. Len(bs) PROVE w[i] = bs[i]
    OBVIOUS
  <2>1. CASE i <= a
    BY <1>7, <1>8, <1>10, <2>1 DEF w
  <2>2. CASE ~(i <= a)
    <3>1. i - a \in 1 .. Len(bs) - a /\ a + (i - a) = i
      BY <1>5, <1>7, <2>2
    <3>2. u[i - a] = bs[a + (i - a)]
      BY <1>9, <3>1
    <3>3. w[i] = u[i - a]
      BY <1>10, <2>2 DEF w
    <3> QED
      BY <3>1, <3>2, <3>3
  <2> QED
    BY <2>1, <2>2
<1>12. w = bs
  BY <1>1, <1>10, <1>11, SeqEqual DEF w
<1> QED
  BY <1>4, <1>12 DEF w, bs

(***************************************************************************)
(* The replay, segment by segment.                                         *)
(***************************************************************************)

(* Frame i of the replay of segments that all hold bytes. *)
ReplayFrame(x, i) ==
    IF i % 2 = 1 THEN SizeFrame(x[(i + 1) \div 2].size)
                 ELSE BytesFrame("SNAPSHOT", x[i \div 2].bytes)

TwoFrames(x) == [i \in 1 .. 2 * Len(x) |-> ReplayFrame(x, i)]

(* The frames of one segment. *)
FramesOfOne(s) ==
    IF s.bytes = <<>> THEN << SizeFrame(s.size) >>
    ELSE << SizeFrame(s.size), BytesFrame("SNAPSHOT", s.bytes) >>

(* They are frames. *)
LEMMA FramesOfOneType ==
    ASSUME NEW s \in BareSegment
    PROVE  /\ SizeFrame(s.size) \in Frame(Nat)
           /\ BytesFrame("SNAPSHOT", s.bytes) \in Frame(Nat)
           /\ FramesOfOne(s) \in Seq(Frame(Nat))
<1>1. s.size \in Size /\ s.bytes \in Seq(Nat) /\ <<>> \in Seq(Nat)
  BY BareSegmentFields
<1>2. SizeFrame(s.size) \in Frame(Nat) /\ BytesFrame("SNAPSHOT", s.bytes) \in Frame(Nat)
  BY <1>1 DEF SizeFrame, BytesFrame, Frame
<1> DEFINE a == SizeFrame(s.size)
           b == BytesFrame("SNAPSHOT", s.bytes)
<1>3. a \in Frame(Nat) /\ b \in Frame(Nat)
  BY <1>2
<1>4. FramesOfOne(s) = IF s.bytes = <<>> THEN << a >> ELSE << a, b >>
  BY DEF FramesOfOne
<1> HIDE DEF a, b
<1>5. << a >> \in Seq(Frame(Nat)) /\ << a, b >> \in Seq(Frame(Nat))
  BY <1>3
<1> QED
  BY <1>2, <1>4, <1>5

(* A segment more: its frames come last. *)
LEMMA ReplayGrows ==
    ASSUME NEW x \in Seq(BareSegment), NEW s \in BareSegment
    PROVE  LET y == Append(x, s)
               k == IF s.bytes = <<>> THEN 2 * Len(y) - 1 ELSE 2 * Len(y)
           IN  /\ TwoFrames(x) \in Seq(Frame(Nat))
               /\ [i \in 1 .. k |-> ReplayFrame(y, i)] = TwoFrames(x) \o FramesOfOne(s)
<1> DEFINE n == Len(x)
           y == Append(x, s)
           k == IF s.bytes = <<>> THEN 2 * Len(y) - 1 ELSE 2 * Len(y)
           l == IF s.bytes = <<>> THEN 1 ELSE 2
           f == [i \in 1 .. k |-> ReplayFrame(y, i)]
           t == TwoFrames(x)
           u == FramesOfOne(s)
<1>1. /\ n \in Nat /\ y \in Seq(BareSegment) /\ Len(y) = n + 1
      /\ \A i \in 1 .. n : y[i] = x[i]
      /\ y[n + 1] = s
  BY AppendProperties
<1>2. k = 2 * n + l /\ k \in Nat /\ l \in {1, 2}
  BY <1>1
<1>3. u \in Seq(Frame(Nat)) /\ Len(u) = l
      /\ u[1] = SizeFrame(s.size)
      /\ (l = 2 => u[2] = BytesFrame("SNAPSHOT", s.bytes))
  <2> DEFINE a == SizeFrame(s.size)
             b == BytesFrame("SNAPSHOT", s.bytes)
  <2>1. u \in Seq(Frame(Nat)) /\ u = IF s.bytes = <<>> THEN << a >> ELSE << a, b >>
    BY FramesOfOneType DEF FramesOfOne
  <2> HIDE DEF a, b, u
  <2>2. /\ Len(<< a >>) = 1 /\ << a >>[1] = a
        /\ Len(<< a, b >>) = 2 /\ << a, b >>[1] = a /\ << a, b >>[2] = b
    OBVIOUS
  <2>3. Len(u) = l /\ u[1] = a /\ (l = 2 => u[2] = b)
    BY <2>1, <2>2
  <2> QED
    BY <2>1, <2>3 DEF a, b
<1> HIDE DEF y, k, l, u
<1>4. \A z \in Seq(BareSegment) : \A i \in 1 .. 2 * Len(z) :
          ReplayFrame(z, i) \in Frame(Nat)
  <2> SUFFICES ASSUME NEW z \in Seq(BareSegment), NEW i \in 1 .. 2 * Len(z)
               PROVE  ReplayFrame(z, i) \in Frame(Nat)
    OBVIOUS
  <2>1. Len(z) \in Nat
    OBVIOUS
  <2>2. CASE i % 2 = 1
    <3> DEFINE j == (i + 1) \div 2
    <3>1. j \in 1 .. Len(z)
      BY <2>1, <2>2
    <3> HIDE DEF j
    <3>2. z[j] \in BareSegment
      BY <3>1
    <3>3. SizeFrame(z[j].size) \in Frame(Nat)
      BY <3>2, FramesOfOneType
    <3> QED
      BY <2>2, <3>3 DEF ReplayFrame, j
  <2>3. CASE i % 2 # 1
    <3> DEFINE j == i \div 2
    <3>1. j \in 1 .. Len(z)
      BY <2>1, <2>3
    <3> HIDE DEF j
    <3>2. z[j] \in BareSegment
      BY <3>1
    <3>3. BytesFrame("SNAPSHOT", z[j].bytes) \in Frame(Nat)
      BY <3>2, FramesOfOneType
    <3> QED
      BY <2>3, <3>3 DEF ReplayFrame, j
  <2> QED
    BY <2>2, <2>3
<1>5. /\ t \in Seq(Frame(Nat)) /\ Len(t) = 2 * n
      /\ \A i \in 1 .. 2 * n : t[i] = ReplayFrame(x, i)
  <2>1. t = [i \in 1 .. 2 * n |-> ReplayFrame(x, i)] /\ 2 * n \in Nat
    BY <1>1 DEF TwoFrames
  <2>2. \A i \in 1 .. 2 * n : ReplayFrame(x, i) \in Frame(Nat)
    BY <1>4
  <2> HIDE DEF t, n
  <2> QED
    BY <2>1, <2>2
<1>6. /\ f \in Seq(Frame(Nat)) /\ Len(f) = k
      /\ \A i \in 1 .. k : f[i] = ReplayFrame(y, i)
  <2>1. k <= 2 * Len(y)
    BY <1>1, <1>2
  <2>2. \A i \in 1 .. k : ReplayFrame(y, i) \in Frame(Nat)
    <3>1. \A i \in 1 .. k : i \in 1 .. 2 * Len(y)
      BY <1>1, <1>2, <2>1
    <3> QED
      BY <1>1, <1>4, <3>1
  <2> QED
    BY <1>2, <2>2
<1> HIDE DEF f, t, n
<1>7. /\ t \o u \in Seq(Frame(Nat)) /\ Len(t \o u) = k
      /\ \A i \in 1 .. k : (t \o u)[i] = IF i <= 2 * n THEN t[i] ELSE u[i - 2 * n]
  BY <1>2, <1>3, <1>5, ConcatProperties
<1> DEFINE w == t \o u
<1> HIDE DEF w
<1>8. \A i \in 1 .. k : f[i] = w[i]
  <2> SUFFICES ASSUME NEW i \in 1 .. k PROVE f[i] = w[i]
    OBVIOUS
  <2>1. f[i] = ReplayFrame(y, i)
    BY <1>6
  <2>2. CASE i <= 2 * n
    <3>1. w[i] = t[i] /\ t[i] = ReplayFrame(x, i)
      BY <1>1, <1>5, <1>7, <2>2 DEF w
    <3>2. ReplayFrame(y, i) = ReplayFrame(x, i)
      <4>1. CASE i % 2 = 1
        <5> DEFINE j == (i + 1) \div 2
        <5>1. j \in 1 .. n
          BY <1>1, <2>2, <4>1
        <5> HIDE DEF j
        <5>2. y[j] = x[j]
          BY <1>1, <5>1
        <5> QED
          BY <4>1, <5>2 DEF ReplayFrame, j
      <4>2. CASE i % 2 # 1
        <5> DEFINE j == i \div 2
        <5>1. j \in 1 .. n
          BY <1>1, <2>2, <4>2
        <5> HIDE DEF j
        <5>2. y[j] = x[j]
          BY <1>1, <5>1
        <5> QED
          BY <4>2, <5>2 DEF ReplayFrame, j
      <4> QED
        BY <4>1, <4>2
    <3> QED
      BY <2>1, <3>1, <3>2
  <2>3. CASE i = 2 * n + 1
    <3>1. w[i] = u[1]
      <4>1. i - 2 * n = 1 /\ ~(i <= 2 * n)
        BY <1>1, <2>3
      <4> QED
        BY <1>7, <4>1 DEF w
    <3>2. i % 2 = 1 /\ (i + 1) \div 2 = n + 1
      BY <1>1, <2>3
    <3>3. ReplayFrame(y, i) = SizeFrame(s.size)
      BY <1>1, <3>2 DEF ReplayFrame
    <3> QED
      BY <1>3, <2>1, <3>1, <3>3
  <2>4. CASE i = 2 * n + 2
    <3>1. w[i] = u[2] /\ l = 2
      <4>1. i - 2 * n = 2 /\ ~(i <= 2 * n) /\ l = 2
        BY <1>1, <1>2, <2>4
      <4> QED
        BY <1>7, <4>1 DEF w
    <3>2. i % 2 # 1 /\ i \div 2 = n + 1
      BY <1>1, <2>4
    <3>3. ReplayFrame(y, i) = BytesFrame("SNAPSHOT", s.bytes)
      BY <1>1, <3>2 DEF ReplayFrame
    <3> QED
      BY <1>3, <2>1, <3>1, <3>3
  <2>5. i <= 2 * n \/ i = 2 * n + 1 \/ i = 2 * n + 2
    BY <1>1, <1>2
  <2> QED
    BY <2>2, <2>3, <2>4, <2>5
<1>9. f = w
  BY <1>2, <1>6, <1>7, <1>8, SeqEqual DEF w
<1> QED
  BY <1>5, <1>9 DEF f, t, u, w, y, k

(* The frames of each segment. *)
FramesIn(segs) == [i \in 1 .. Len(segs) |-> SegmentFrames(segs[i])]

(* A segment's frames do not depend on where its deque starts. *)
LEMMA SegmentFramesAre ==
    ASSUME NEW s \in DequeSegment
    PROVE  /\ SegmentFrames(s) = FramesOfOne(Bare(s))
           /\ SegmentFrames(s) \in Seq(Frame(Nat))
<1> DEFINE a == SizeFrame(s.size)
           b == BytesFrame("SNAPSHOT", s.deque.bytes)
<1>1. /\ Bare(s) \in BareSegment
      /\ Bare(s).size = s.size /\ Bare(s).bytes = s.deque.bytes
  BY DequeSegmentFields
<1>2. FramesOfOne(Bare(s)) = IF s.deque.bytes = <<>> THEN << a >> ELSE << a, b >>
  BY <1>1 DEF FramesOfOne
<1>3. SegmentFrames(s) = << a >> \o (IF s.deque.bytes = <<>> THEN <<>> ELSE << b >>)
  BY SlicesAre DEF SegmentFrames
<1>4. FramesOfOne(Bare(s)) \in Seq(Frame(Nat))
  BY <1>1, FramesOfOneType
<1> HIDE DEF a, b
<1>5. << a >> \o <<>> = << a >> /\ << a >> \o << b >> = << a, b >>
  <2> DEFINE S == {a, b}
             t == << a >>
             u == << b >>
             v == << a, b >>
  <2>1. /\ t \in Seq(S) /\ Len(t) = 1 /\ t[1] = a
        /\ u \in Seq(S) /\ Len(u) = 1 /\ u[1] = b
        /\ v \in Seq(S) /\ Len(v) = 2 /\ v[1] = a /\ v[2] = b
    OBVIOUS
  <2> HIDE DEF S, t, u, v
  <2>2. t \o <<>> = t
    BY <2>1, ConcatEmptySeq
  <2>3. /\ t \o u \in Seq(S) /\ Len(t \o u) = Len(t) + Len(u)
        /\ \A i \in 1 .. Len(t) + Len(u) :
               (t \o u)[i] = IF i <= Len(t) THEN t[i] ELSE u[i - Len(t)]
    BY <2>1, ConcatProperties
  <2> DEFINE w == t \o u
  <2> HIDE DEF w
  <2>4. w \in Seq(S) /\ Len(w) = 2 /\ w[1] = a /\ w[2] = b
    BY <2>1, <2>3 DEF w
  <2>5. \A i \in 1 .. Len(v) : v[i] = w[i]
    BY <2>1, <2>4
  <2>6. w = v
    BY <2>1, <2>4, <2>5, SeqEqual
  <2> QED
    BY <2>2, <2>6 DEF t, u, v, w
<1> QED
  BY <1>2, <1>3, <1>4, <1>5

(* The frames of a segment more. *)
LEMMA FramesInAppend ==
    ASSUME NEW segs \in Seq(DequeSegment), NEW s \in DequeSegment
    PROVE  /\ FramesIn(segs) \in Seq(Seq(Frame(Nat)))
           /\ FramesIn(Append(segs, s)) = Append(FramesIn(segs), SegmentFrames(s))
<1> DEFINE S == Seq(Frame(Nat))
           n == Len(segs)
           t == Append(segs, s)
           f == FramesIn(segs)
           g == FramesIn(t)
           h == Append(f, SegmentFrames(s))
<1>1. /\ n \in Nat /\ t \in Seq(DequeSegment) /\ Len(t) = n + 1
      /\ \A i \in 1 .. n : t[i] = segs[i]
      /\ t[n + 1] = s
  BY AppendProperties
<1>2. \A z \in DequeSegment : SegmentFrames(z) \in S
  BY SegmentFramesAre
<1> HIDE DEF t, S
<1>3. f \in Seq(S) /\ Len(f) = n /\ \A i \in 1 .. n : f[i] = SegmentFrames(segs[i])
  <2>1. \A i \in 1 .. n : SegmentFrames(segs[i]) \in S
    BY <1>2
  <2> QED
    BY <1>1, <2>1 DEF FramesIn
<1>4. g \in Seq(S) /\ Len(g) = n + 1
      /\ \A i \in 1 .. n + 1 : g[i] = SegmentFrames(t[i])
  <2>1. \A i \in 1 .. n + 1 : SegmentFrames(t[i]) \in S
    BY <1>1, <1>2
  <2> QED
    BY <1>1, <2>1 DEF FramesIn
<1>5. SegmentFrames(s) \in S
  BY <1>2
<1> HIDE DEF f, g, n
<1>6. /\ h \in Seq(S) /\ Len(h) = n + 1
      /\ \A i \in 1 .. n : h[i] = f[i]
      /\ h[n + 1] = SegmentFrames(s)
  BY <1>3, <1>5, AppendProperties
<1> HIDE DEF h
<1>7. \A i \in 1 .. n + 1 : g[i] = h[i]
  <2> SUFFICES ASSUME NEW i \in 1 .. n + 1 PROVE g[i] = h[i]
    OBVIOUS
  <2>1. i \in 1 .. n \/ i = n + 1
    BY <1>1
  <2> QED
    BY <1>1, <1>3, <1>4, <1>6, <2>1
<1>8. g = h
  BY <1>4, <1>6, <1>7, SeqEqual
<1> QED
  BY <1>3, <1>8 DEF f, g, h, t, S

(* What replay has left when it has dropped the empty segments. *)
FullSegment == {s \in DequeSegment : s.deque.bytes # <<>>}

(* Segments that hold bytes give two frames each. *)
LEMMA FullFrames ==
    \A segs \in Seq(FullSegment) : FlattenSeq(FramesIn(segs)) = TwoFrames(Bares(segs))
<1> DEFINE U == {segs \in Seq(FullSegment) :
                    FlattenSeq(FramesIn(segs)) = TwoFrames(Bares(segs))}
<1>1. <<>> \in U
  <2>1. Len(<<>>) = 0 /\ <<>> \in Seq(FullSegment) /\ <<>> \in Seq(DequeSegment)
    BY EmptySeq
  <2>2. \A i \in 1 .. 0 : FALSE
    OBVIOUS
  <2>3. \A f : (DOMAIN f = {} /\ f = [i \in DOMAIN f |-> f[i]]) => f = <<>>
    OBVIOUS
  <2>4. FramesIn(<<>>) = <<>>
    <3>1. FramesIn(<<>>) = [i \in 1 .. 0 |-> SegmentFrames(<<>>[i])]
      BY <2>1 DEF FramesIn
    <3> QED
      BY <2>2, <3>1
  <2>5. Len(Bares(<<>>)) = 0
    BY <2>1, BaresAre
  <2>6. TwoFrames(Bares(<<>>)) = <<>>
    <3>1. TwoFrames(Bares(<<>>)) = [i \in 1 .. 0 |-> ReplayFrame(Bares(<<>>), i)]
      BY <2>5 DEF TwoFrames
    <3> QED
      BY <2>2, <3>1
  <2> QED
    BY <2>1, <2>4, <2>6, FlattenEmpty
<1>2. ASSUME NEW segs \in Seq(FullSegment), NEW s \in FullSegment, segs \in U
      PROVE  Append(segs, s) \in U
  <2> DEFINE x == Bares(segs)
             t == Append(segs, s)
             f == FramesIn(segs)
  <2>1. FlattenSeq(f) = TwoFrames(x)
    BY <1>2
  <2>2. segs \in Seq(DequeSegment) /\ s \in DequeSegment /\ s.deque.bytes # <<>>
    BY DEF FullSegment
  <2>3. f \in Seq(Seq(Frame(Nat))) /\ FramesIn(t) = Append(f, SegmentFrames(s))
    BY <2>2, FramesInAppend
  <2>4. /\ SegmentFrames(s) = FramesOfOne(Bare(s))
        /\ SegmentFrames(s) \in Seq(Frame(Nat))
    BY <2>2, SegmentFramesAre
  <2>5. Bares(t) = Append(x, Bare(s)) /\ x \in Seq(BareSegment)
        /\ Bare(s) \in BareSegment /\ Bare(s).bytes # <<>>
    BY <2>2, BaresAppend, BaresAre, DequeSegmentFields
  <2>6. t \in Seq(FullSegment)
    BY AppendProperties
  <2> HIDE DEF f, x, t
  <2>7. FlattenSeq(FramesIn(t)) = TwoFrames(x) \o FramesOfOne(Bare(s))
    <3>1. FlattenSeq(f) \in Seq(Frame(Nat))
      BY <2>3, FlattenType
    <3>2. FlattenSeq(Append(f, SegmentFrames(s))) = FlattenSeq(f) \o SegmentFrames(s)
      BY <2>3, <2>4, <3>1, FlattenAppend
    <3> QED
      BY <2>1, <2>3, <2>4, <3>2
  <2>8. TwoFrames(Append(x, Bare(s))) = TwoFrames(x) \o FramesOfOne(Bare(s))
    <3> DEFINE b == Bare(s)
    <3>1. b \in BareSegment /\ b.bytes # <<>>
      BY <2>5
    <3> HIDE DEF b
    <3>2. [i \in 1 .. 2 * Len(Append(x, b)) |-> ReplayFrame(Append(x, b), i)]
              = TwoFrames(x) \o FramesOfOne(b)
      BY <2>5, <3>1, ReplayGrows
    <3> QED
      BY <3>2 DEF TwoFrames, b
  <2>9. FlattenSeq(FramesIn(t)) = TwoFrames(Bares(t))
    BY <2>5, <2>7, <2>8
  <2> QED
    BY <2>6, <2>9 DEF t
<1> HIDE DEF U
<1>3. Seq(FullSegment) \subseteq U
  BY <1>1, <1>2, SequencesBySet
<1> QED
  BY <1>3 DEF U

(* replay, from the slices of the deques, is replay on shapes. *)
LEMMA ReplayOfShape ==
    ASSUME NEW r, GoodRing(r)
    PROVE  RingReplay(Shape(r)) = ReplayRingReplay(r)
<1> DEFINE segs == r.segments
           n == Len(segs)
           last == segs[n]
           front == SubSeq(segs, 1, n - 1)
           x == Bares(segs)
           w == Bares(front)
           y == Shape(r)
<1>1. /\ segs \in Seq(DequeSegment) /\ n \in Nat /\ n >= 1
      /\ y.segments = x /\ Proper(x) /\ Len(x) = n
      /\ last \in DequeSegment /\ Newest(y) = Bare(last)
  BY GoodRingIs
<1>2. /\ front \in Seq(DequeSegment) /\ Len(front) = n - 1
      /\ \A i \in 1 .. n - 1 : front[i] = segs[i]
  <2>1. n - 1 \in 0 .. Len(segs)
    BY <1>1
  <2> QED
    BY <1>1, <2>1, FirstOf
<1>3. segs = Append(front, last)
  <2>1. n - 1 \in Nat /\ n - 1 < Len(segs) /\ (n - 1) + 1 = n
    BY <1>1
  <2>2. SubSeq(segs, 1, (n - 1) + 1) = Append(SubSeq(segs, 1, n - 1), segs[(n - 1) + 1])
    BY <1>1, <2>1, PrefixGrows
  <2>3. SubSeq(segs, 1, n) = segs
    BY <1>1, WholePrefix
  <2> QED
    BY <2>1, <2>2, <2>3
<1>4. front \in Seq(FullSegment)
  <2>1. \A i \in 1 .. n - 1 : front[i] \in FullSegment
    <3> SUFFICES ASSUME NEW i \in 1 .. n - 1 PROVE front[i] \in FullSegment
      OBVIOUS
    <3>1. i \in 1 .. n /\ i \in 1 .. Len(x) - 1
      BY <1>1
    <3>2. front[i] = segs[i] /\ segs[i] \in DequeSegment /\ x[i] = Bare(segs[i])
      BY <1>1, <1>2, <3>1, BaresAre
    <3>3. x[i].bytes # <<>>
      BY <1>1, <3>1 DEF Proper
    <3>4. x[i].bytes = segs[i].deque.bytes
      BY <3>2, DequeSegmentFields
    <3> QED
      BY <3>2, <3>3, <3>4 DEF FullSegment
  <2> HIDE DEF front, n
  <2> QED
    BY <1>1, <1>2, <2>1
<1> HIDE DEF front, last
<1>5. x = Append(w, Bare(last)) /\ w \in Seq(BareSegment)
      /\ Bare(last) \in BareSegment
  <2>1. Bares(Append(front, last)) = Append(w, Bare(last))
    BY <1>1, <1>2, BaresAppend
  <2> QED
    BY <1>1, <1>2, <1>3, <2>1, BaresAre, DequeSegmentFields
<1>6. ReplayRingReplay(r) = TwoFrames(w) \o FramesOfOne(Bare(last))
  <2> DEFINE f == FramesIn(front)
  <2>1. ReplayRingReplay(r) = FlattenSeq(FramesIn(segs))
    BY DEF ReplayRingReplay, FramesIn
  <2>2. f \in Seq(Seq(Frame(Nat))) /\ FramesIn(segs) = Append(f, SegmentFrames(last))
    <3> HIDE DEF segs
    <3> QED
      BY <1>1, <1>2, <1>3, FramesInAppend
  <2>3. /\ SegmentFrames(last) = FramesOfOne(Bare(last))
        /\ SegmentFrames(last) \in Seq(Frame(Nat))
    BY <1>1, SegmentFramesAre
  <2>4. FlattenSeq(f) = TwoFrames(w)
    BY <1>4, FullFrames
  <2> HIDE DEF f, w, segs
  <2>5. FlattenSeq(f) \in Seq(Frame(Nat))
    BY <2>2, FlattenType
  <2>6. FlattenSeq(Append(f, SegmentFrames(last))) = FlattenSeq(f) \o SegmentFrames(last)
    BY <2>2, <2>3, <2>5, FlattenAppend
  <2> QED
    BY <2>1, <2>2, <2>3, <2>4, <2>6
<1> HIDE DEF x, w, y
<1> DEFINE b == Bare(last)
           k == IF b.bytes = <<>> THEN 2 * Len(x) - 1 ELSE 2 * Len(x)
<1>7. RingReplay(y) = [i \in 1 .. k |-> ReplayFrame(x, i)]
  BY <1>1 DEF RingReplay, ReplayFrame
<1>8. [i \in 1 .. k |-> ReplayFrame(x, i)] = TwoFrames(w) \o FramesOfOne(b)
  <2>1. b \in BareSegment
    BY <1>5
  <2> HIDE DEF b
  <2> DEFINE v == Append(w, b)
             l == IF b.bytes = <<>> THEN 2 * Len(v) - 1 ELSE 2 * Len(v)
  <2>2. [i \in 1 .. l |-> ReplayFrame(v, i)] = TwoFrames(w) \o FramesOfOne(b)
    BY <1>5, <2>1, ReplayGrows
  <2>3. x = v
    BY <1>5 DEF b
  <2> HIDE DEF v
  <2> QED
    BY <2>2, <2>3
<1> QED
  BY <1>6, <1>7, <1>8 DEF y

(***************************************************************************)
(* What the ring keeps of a stream of t bytes, of which byte k came under  *)
(* the geometry g[k].                                                      *)
(***************************************************************************)

(* Each byte is one of the stream's; outside the oldest segment, and as    *)
(* the last of the oldest, it is kept under its own geometry.              *)
GeometryOf(x, t, g) ==
    \A i \in 1 .. Len(x) : \A j \in 1 .. Len(x[i].bytes) :
        /\ x[i].bytes[j] \in 1 .. t
        /\ i > 1 \/ j = Len(x[i].bytes) => g[x[i].bytes[j]] = x[i].size

(* A byte more behind the others. *)
LEMMA GeometryGrows ==
    ASSUME NEW x \in Seq(BareSegment), x # <<>>, NEW t \in Nat,
           NEW g \in Seq(Size), Len(g) = t, GeometryOf(x, t, g)
    PROVE  LET z == x[Len(x)].size
               y == [x EXCEPT ![Len(x)] = WithBytes(@, Append(@.bytes, t + 1))]
           IN  /\ y \in Seq(BareSegment) /\ Len(y) = Len(x) /\ y[Len(x)].size = z
               /\ GeometryOf(y, t + 1, Append(g, z))
<1> DEFINE n == Len(x)
           z == x[n].size
           h == Append(g, z)
           bs == x[n].bytes
           more == Append(bs, t + 1)
           s == WithBytes(x[n], more)
           y == [x EXCEPT ![n] = s]
<1>1. n \in Nat /\ n >= 1
  BY EmptySeq
<1>2. x[n] \in BareSegment
  BY <1>1
<1>3. z \in Size /\ bs \in Seq(Nat)
  BY <1>2, BareSegmentFields
<1>4. /\ more \in Seq(Nat) /\ Len(more) = Len(bs) + 1 /\ Len(bs) \in Nat
      /\ \A j \in 1 .. Len(bs) : more[j] = bs[j]
      /\ more[Len(bs) + 1] = t + 1
  BY <1>3, AppendProperties
<1>5. /\ h \in Seq(Size)
      /\ \A k \in 1 .. t : h[k] = g[k]
      /\ h[t + 1] = z
  BY <1>3, AppendProperties
<1> HIDE DEF more, h
<1>6. s \in BareSegment /\ s.size = z /\ s.bytes = more
  BY <1>3, <1>4, BareSegmentFields DEF WithBytes
<1> HIDE DEF s
<1>7. /\ y \in Seq(BareSegment) /\ Len(y) = n
      /\ \A i \in 1 .. n : y[i] = IF i = n THEN s ELSE x[i]
  BY <1>1, <1>6, ExceptSeq
<1> HIDE DEF y
<1>8. GeometryOf(y, t + 1, h)
  <2> SUFFICES ASSUME NEW i \in 1 .. n, NEW j \in 1 .. Len(y[i].bytes)
               PROVE  /\ y[i].bytes[j] \in 1 .. t + 1
                      /\ i > 1 \/ j = Len(y[i].bytes) => h[y[i].bytes[j]] = y[i].size
    BY <1>7 DEF GeometryOf
  <2>1. CASE i # n
    <3>1. y[i] = x[i]
      BY <1>7, <2>1
    <3>2. /\ x[i].bytes[j] \in 1 .. t
          /\ i > 1 \/ j = Len(x[i].bytes) => g[x[i].bytes[j]] = x[i].size
      BY <3>1 DEF GeometryOf
    <3> DEFINE b == x[i].bytes[j]
    <3>3. b \in 1 .. t
      BY <3>2
    <3> HIDE DEF b
    <3>4. b \in 1 .. t + 1 /\ h[b] = g[b]
      BY <1>5, <3>3
    <3> QED
      BY <3>1, <3>2, <3>4 DEF b
  <2>2. CASE i = n /\ j \in 1 .. Len(bs)
    <3>1. y[i].bytes = more /\ y[i].size = z
      BY <1>6, <1>7, <2>2
    <3>2. y[i].bytes[j] = bs[j]
      BY <1>4, <2>2, <3>1
    <3>3. /\ bs[j] \in 1 .. t
          /\ n > 1 => g[bs[j]] = z
      <4>1. n \in 1 .. Len(x) /\ j \in 1 .. Len(x[n].bytes)
        BY <1>1, <2>2
      <4>2. /\ x[n].bytes[j] \in 1 .. t
            /\ n > 1 \/ j = Len(x[n].bytes) => g[x[n].bytes[j]] = x[n].size
        BY <4>1 DEF GeometryOf
      <4> QED
        BY <4>2
    <3>4. j # Len(y[i].bytes)
      BY <1>4, <2>2, <3>1
    <3> DEFINE b == bs[j]
    <3>5. b \in 1 .. t
      BY <3>3
    <3> HIDE DEF b
    <3>6. b \in 1 .. t + 1 /\ h[b] = g[b]
      BY <1>5, <3>5
    <3> QED
      BY <2>2, <3>1, <3>2, <3>3, <3>4, <3>6 DEF b
  <2>3. CASE i = n /\ j \notin 1 .. Len(bs)
    <3>1. y[i].bytes = more /\ y[i].size = z
      BY <1>6, <1>7, <2>3
    <3>2. j = Len(bs) + 1
      BY <1>4, <2>3, <3>1
    <3>3. y[i].bytes[j] = t + 1
      BY <1>4, <3>1, <3>2
    <3> QED
      BY <1>5, <3>1, <3>3
  <2> QED
    BY <2>1, <2>2, <2>3
<1>9. y[n].size = z
  <2>1. n \in 1 .. n
    BY <1>1
  <2> QED
    BY <1>6, <1>7, <2>1
<1>10. y = [x EXCEPT ![n] = WithBytes(@, Append(@.bytes, t + 1))]
  BY DEF y, s, more
<1> QED
  BY <1>7, <1>8, <1>9, <1>10 DEF h

(* A byte less at the front. *)
LEMMA GeometryDrains ==
    ASSUME NEW x \in Seq(BareSegment), x # <<>>, x[1].bytes # <<>>,
           NEW t \in Nat, NEW g, GeometryOf(x, t, g)
    PROVE  GeometryOf(DrainOne(x), t, g)
<1> DEFINE y == DrainOne(x)
           n == Len(x)
           head == x[1].bytes
<1>1. n \in Nat /\ n >= 1
  BY EmptySeq
<1>2. x[1] \in BareSegment
  BY <1>1
<1>3. head \in Seq(Nat) /\ head # <<>>
  BY <1>2, BareSegmentFields
<1>4. CASE n > 1 /\ Tail(head) = <<>>
  <2>1. /\ y \in Seq(BareSegment) /\ Len(y) = n - 1
        /\ \A i \in 1 .. n - 1 : y[i] = x[i + 1]
    BY <1>4, DrainOnePops
  <2> HIDE DEF y
  <2> SUFFICES ASSUME NEW i \in 1 .. n - 1, NEW j \in 1 .. Len(y[i].bytes)
               PROVE  /\ y[i].bytes[j] \in 1 .. t
                      /\ i > 1 \/ j = Len(y[i].bytes) => g[y[i].bytes[j]] = y[i].size
    BY <2>1 DEF GeometryOf, y
  <2>2. y[i] = x[i + 1] /\ i + 1 \in 1 .. n /\ i + 1 > 1
    BY <1>1, <2>1
  <2>3. j \in 1 .. Len(x[i + 1].bytes)
    BY <2>2
  <2>4. x[i + 1].bytes[j] \in 1 .. t /\ g[x[i + 1].bytes[j]] = x[i + 1].size
    BY <2>2, <2>3 DEF GeometryOf
  <2> QED
    BY <2>2, <2>4
<1>5. CASE ~(n > 1 /\ Tail(head) = <<>>)
  <2> DEFINE rest == Tail(head)
  <2>1. /\ y \in Seq(BareSegment) /\ Len(y) = n
        /\ y[1] = [size |-> x[1].size, bytes |-> rest]
        /\ \A i \in 2 .. n : y[i] = x[i]
    BY <1>5, DrainOneShrinks
  <2>2. /\ Len(rest) = Len(head) - 1 /\ Len(head) \in Nat
        /\ \A j \in 1 .. Len(rest) : rest[j] = head[j + 1]
    BY <1>3, HeadTailProperties
  <2> HIDE DEF y, rest
  <2> SUFFICES ASSUME NEW i \in 1 .. n, NEW j \in 1 .. Len(y[i].bytes)
               PROVE  /\ y[i].bytes[j] \in 1 .. t
                      /\ i > 1 \/ j = Len(y[i].bytes) => g[y[i].bytes[j]] = y[i].size
    BY <2>1 DEF GeometryOf, y
  <2>3. CASE i = 1
    <3>1. y[i].bytes = rest /\ y[i].size = x[1].size
      BY <2>1, <2>3
    <3>2. j \in 1 .. Len(rest)
      BY <3>1
    <3>3. rest[j] = head[j + 1] /\ j + 1 \in 1 .. Len(head)
          /\ (j = Len(rest) => j + 1 = Len(head))
      BY <2>2, <3>2
    <3>4. /\ head[j + 1] \in 1 .. t
          /\ j + 1 = Len(head) => g[head[j + 1]] = x[1].size
      <4>1. 1 \in 1 .. Len(x)
        BY <1>1
      <4> DEFINE k == j + 1
      <4>2. k \in 1 .. Len(x[1].bytes)
        BY <3>3
      <4> HIDE DEF k
      <4>3. /\ x[1].bytes[k] \in 1 .. t
            /\ 1 > 1 \/ k = Len(x[1].bytes) => g[x[1].bytes[k]] = x[1].size
        BY <4>1, <4>2 DEF GeometryOf
      <4> QED
        BY <4>3 DEF k
    <3>5. ~(i > 1)
      BY <2>3
    <3> QED
      BY <3>1, <3>3, <3>4, <3>5
  <2>4. CASE i # 1
    <3>1. y[i] = x[i]
      BY <1>1, <2>1, <2>4
    <3> QED
      BY <3>1 DEF GeometryOf
  <2> QED
    BY <2>3, <2>4
<1> QED
  BY <1>4, <1>5

(* A new geometry for the bytes to come, ... *)
LEMMA GeometryOpens ==
    ASSUME NEW x \in Seq(BareSegment), NEW t \in Nat, NEW g, GeometryOf(x, t, g),
           NEW s \in Size
    PROVE  GeometryOf(Append(x, [size |-> s, bytes |-> <<>>]), t, g)
<1> DEFINE e == [size |-> s, bytes |-> <<>>]
           y == Append(x, e)
           n == Len(x)
<1>1. e \in BareSegment /\ Len(e.bytes) = 0
  <2>1. <<>> \in Seq(Nat) /\ Len(<<>>) = 0
    BY EmptySeq
  <2> QED
    BY <2>1, BareSegmentFields
<1> HIDE DEF e
<1>2. /\ n \in Nat /\ Len(y) = n + 1
      /\ \A i \in 1 .. n : y[i] = x[i]
      /\ y[n + 1] = e
  BY <1>1, AppendProperties
<1> HIDE DEF y
<1> SUFFICES ASSUME NEW i \in 1 .. n + 1, NEW j \in 1 .. Len(y[i].bytes)
             PROVE  /\ y[i].bytes[j] \in 1 .. t
                    /\ i > 1 \/ j = Len(y[i].bytes) => g[y[i].bytes[j]] = y[i].size
  BY <1>2 DEF GeometryOf, y, e
<1>3. i # n + 1
  BY <1>1, <1>2
<1>4. i \in 1 .. n /\ y[i] = x[i]
  BY <1>2, <1>3
<1> QED
  BY <1>4 DEF GeometryOf

(* ... or for a newest segment that has none yet. *)
LEMMA GeometryRenews ==
    ASSUME NEW x \in Seq(BareSegment), x # <<>>, NEW t \in Nat, NEW g,
           GeometryOf(x, t, g), NEW s \in Size
    PROVE  GeometryOf([x EXCEPT ![Len(x)] = [size |-> s, bytes |-> <<>>]], t, g)
<1> DEFINE e == [size |-> s, bytes |-> <<>>]
           n == Len(x)
           y == [x EXCEPT ![n] = e]
<1>1. e \in BareSegment /\ Len(e.bytes) = 0
  <2>1. <<>> \in Seq(Nat) /\ Len(<<>>) = 0
    BY EmptySeq
  <2> QED
    BY <2>1, BareSegmentFields
<1> HIDE DEF e
<1>2. n \in Nat /\ n >= 1
  BY EmptySeq
<1>3. /\ Len(y) = n
      /\ \A i \in 1 .. n : y[i] = IF i = n THEN e ELSE x[i]
  BY <1>1, <1>2, ExceptSeq
<1> HIDE DEF y
<1> SUFFICES ASSUME NEW i \in 1 .. n, NEW j \in 1 .. Len(y[i].bytes)
             PROVE  /\ y[i].bytes[j] \in 1 .. t
                    /\ i > 1 \/ j = Len(y[i].bytes) => g[y[i].bytes[j]] = y[i].size
  BY <1>3 DEF GeometryOf, y, e
<1>4. i # n
  BY <1>1, <1>3
<1>5. y[i] = x[i]
  BY <1>3, <1>4
<1> QED
  BY <1>5 DEF GeometryOf

(* The merged oldest segments. *)
LEMMA MergedIs ==
    ASSUME NEW x \in Seq(BareSegment), Len(x) >= MaxSegments
    PROVE  LET s == WithBytes(x[2], x[1].bytes \o x[2].bytes)
               m == MergeOldest(x)
           IN  /\ Len(x) >= 2 /\ m \in Seq(BareSegment) /\ Len(m) = Len(x) - 1
               /\ m[1] = s
               /\ \A i \in 2 .. Len(x) - 1 : m[i] = x[i + 1]
<1> DEFINE n == Len(x)
           bs == x[1].bytes \o x[2].bytes
           s == WithBytes(x[2], bs)
           y == [x EXCEPT ![2] = s]
           m == MergeOldest(x)
<1>1. n \in Nat /\ n >= 2
  BY RingAssumption
<1>2. x[1] \in BareSegment /\ x[2] \in BareSegment /\ 2 \in 1 .. n
  BY <1>1
<1>3. bs \in Seq(Nat) /\ x[2].size \in Size
  <2>1. x[1].bytes \in Seq(Nat) /\ x[2].bytes \in Seq(Nat) /\ x[2].size \in Size
    BY <1>2, BareSegmentFields
  <2> QED
    BY <2>1, ConcatProperties
<1>4. m = Tail(y)
  BY DEF MergeOldest
<1> HIDE DEF bs, m
<1>5. s \in BareSegment
  BY <1>3, BareSegmentFields DEF WithBytes
<1> HIDE DEF s
<1>6. /\ y \in Seq(BareSegment) /\ Len(y) = n
      /\ \A i \in 1 .. n : y[i] = IF i = 2 THEN s ELSE x[i]
  BY <1>2, <1>5, ExceptSeq
<1> HIDE DEF y
<1>7. y # <<>>
  BY <1>1, <1>6, EmptySeq
<1>8. /\ m \in Seq(BareSegment) /\ Len(m) = n - 1
      /\ \A i \in 1 .. n - 1 : m[i] = y[i + 1]
  BY <1>4, <1>6, <1>7, HeadTailProperties
<1>9. m[1] = s
  BY <1>1, <1>6, <1>8
<1>10. \A i \in 2 .. n - 1 : m[i] = x[i + 1]
  <2> SUFFICES ASSUME NEW i \in 2 .. n - 1 PROVE m[i] = x[i + 1]
    OBVIOUS
  <2>1. i \in 1 .. n - 1 /\ i + 1 \in 1 .. n /\ i + 1 # 2
    BY <1>1
  <2> QED
    BY <1>6, <1>8, <2>1
<1> QED
  BY <1>1, <1>8, <1>9, <1>10 DEF m, s, bs

(* Merging keeps the younger segment's geometry for the last byte. *)
LEMMA GeometryMerges ==
    ASSUME NEW x \in Seq(BareSegment), NEW t \in Nat, NEW g, GeometryOf(x, t, g),
           \A i \in 1 .. Len(x) : x[i].bytes # <<>>
    PROVE  GeometryOf(MergeOldest(x), t, g)
<1> DEFINE n == Len(x)
           m == MergeOldest(x)
<1>1. CASE n >= MaxSegments
  <2> DEFINE a == x[1].bytes
             b == x[2].bytes
             s == WithBytes(x[2], a \o b)
  <2>1. /\ n \in Nat /\ n >= 2 /\ Len(m) = n - 1 /\ m[1] = s
        /\ \A i \in 2 .. n - 1 : m[i] = x[i + 1]
    <3>1. n \in Nat /\ Len(x) >= MaxSegments
      BY <1>1
    <3>2. n >= 2 /\ Len(m) = n - 1 /\ m[1] = s
      BY <3>1, MergedIs
    <3>3. \A i \in 2 .. n - 1 : m[i] = x[i + 1]
      BY <3>1, MergedIs
    <3> QED
      BY <3>1, <3>2, <3>3
  <2>2. 1 \in 1 .. n /\ 2 \in 1 .. n /\ x[1] \in BareSegment /\ x[2] \in BareSegment
    BY <2>1
  <2>3. a \in Seq(Nat) /\ b \in Seq(Nat) /\ b # <<>>
    BY <2>2, BareSegmentFields
  <2>4. Len(a) \in Nat /\ Len(b) \in Nat /\ Len(b) >= 1
    BY <2>3, EmptySeq
  <2>5. /\ Len(a \o b) = Len(a) + Len(b)
        /\ \A j \in 1 .. Len(a) + Len(b) :
               (a \o b)[j] = IF j <= Len(a) THEN a[j] ELSE b[j - Len(a)]
    BY <2>3, ConcatProperties
  <2>6. \A j \in 1 .. Len(a) : a[j] \in 1 .. t
    BY <2>2 DEF GeometryOf
  <2>7. \A j \in 1 .. Len(b) : b[j] \in 1 .. t /\ g[b[j]] = x[2].size
    BY <2>2 DEF GeometryOf
  <2> DEFINE c == a \o b
  <2>8. s.bytes = c /\ s.size = x[2].size
    BY DEF WithBytes
  <2> HIDE DEF m, a, b, c, s
  <2> SUFFICES ASSUME NEW i \in 1 .. n - 1, NEW j \in 1 .. Len(m[i].bytes)
               PROVE  /\ m[i].bytes[j] \in 1 .. t
                      /\ i > 1 \/ j = Len(m[i].bytes) => g[m[i].bytes[j]] = m[i].size
    BY <2>1 DEF GeometryOf, m
  <2>9. CASE i = 1
    <3>1. m[i].bytes = c /\ m[i].size = x[2].size /\ ~(i > 1)
      BY <2>1, <2>8, <2>9
    <3>2. j \in 1 .. Len(a) + Len(b) /\ Len(c) = Len(a) + Len(b)
      BY <2>5, <3>1 DEF c
    <3>3. CASE j <= Len(a)
      <4>1. c[j] = a[j] /\ j \in 1 .. Len(a) /\ j # Len(c)
        BY <2>4, <2>5, <3>2, <3>3 DEF c
      <4> QED
        BY <2>6, <3>1, <4>1
    <3>4. CASE ~(j <= Len(a))
      <4>1. c[j] = b[j - Len(a)] /\ j - Len(a) \in 1 .. Len(b)
        BY <2>4, <2>5, <3>2, <3>4 DEF c
      <4> QED
        BY <2>7, <3>1, <4>1
    <3> QED
      BY <3>3, <3>4
  <2>10. CASE i # 1
    <3>1. m[i] = x[i + 1] /\ i + 1 \in 1 .. n /\ i + 1 > 1
      BY <2>1, <2>10
    <3>2. j \in 1 .. Len(x[i + 1].bytes)
      BY <3>1
    <3>3. x[i + 1].bytes[j] \in 1 .. t /\ g[x[i + 1].bytes[j]] = x[i + 1].size
      BY <3>1, <3>2 DEF GeometryOf
    <3> QED
      BY <3>1, <3>3
  <2> QED
    BY <2>9, <2>10
<1>2. CASE ~(n >= MaxSegments)
  <2>1. m = x
    BY <1>2 DEF MergeOldest
  <2> QED
    BY <2>1
<1> QED
  BY <1>1, <1>2

(* The newest bytes of a stream of t. *)
KeptOf(t) == IF t < RingCap THEN t ELSE RingCap

NewestBytes(t) == [i \in 1 .. KeptOf(t) |-> t - KeptOf(t) + i]

(* They are bytes of the stream. *)
LEMMA NewestBytesType ==
    ASSUME NEW t \in Nat
    PROVE  /\ KeptOf(t) \in Nat /\ KeptOf(t) <= t /\ KeptOf(t) <= RingCap
           /\ NewestBytes(t) \in Seq(Nat) /\ Len(NewestBytes(t)) = KeptOf(t)
           /\ \A i \in 1 .. KeptOf(t) : NewestBytes(t)[i] = t - KeptOf(t) + i
<1> DEFINE k == KeptOf(t)
<1>1. k \in Nat /\ k <= t /\ k <= RingCap
  BY RingAssumption DEF KeptOf
<1>2. NewestBytes(t) = [i \in 1 .. k |-> t - k + i]
  BY DEF NewestBytes
<1> HIDE DEF k
<1>3. \A i \in 1 .. k : t - k + i \in Nat
  BY <1>1
<1>4. NewestBytes(t) \in Seq(Nat) /\ Len(NewestBytes(t)) = k
      /\ \A i \in 1 .. k : NewestBytes(t)[i] = t - k + i
  BY <1>1, <1>2, <1>3
<1> QED
  BY <1>1, <1>4 DEF k

(* A byte more of the stream. *)
LEMMA NewestBytesNext ==
    ASSUME NEW t \in Nat
    PROVE  NewestBytes(t + 1) =
               IF KeptOf(t) < RingCap THEN Append(NewestBytes(t), t + 1)
                                      ELSE Tail(Append(NewestBytes(t), t + 1))
<1> DEFINE k == KeptOf(t)
           l == KeptOf(t + 1)
           s == NewestBytes(t)
           u == NewestBytes(t + 1)
           a == Append(s, t + 1)
           b == Tail(a)
<1>1. RingCap \in Nat /\ RingCap >= 1
  BY RingAssumption
<1>2. /\ k \in Nat /\ k <= t
      /\ s \in Seq(Nat) /\ Len(s) = k /\ \A i \in 1 .. k : s[i] = t - k + i
  BY NewestBytesType
<1>3. t + 1 \in Nat
  OBVIOUS
<1>4. /\ l \in Nat
      /\ u \in Seq(Nat) /\ Len(u) = l /\ \A i \in 1 .. l : u[i] = (t + 1) - l + i
  BY <1>3, NewestBytesType
<1>5. /\ k < RingCap => k = t /\ l = t + 1
      /\ ~(k < RingCap) => l = k
  BY <1>1 DEF KeptOf
<1> HIDE DEF k, l, s, u
<1>6. /\ a \in Seq(Nat) /\ Len(a) = k + 1 /\ a # <<>>
      /\ \A i \in 1 .. k : a[i] = s[i]
      /\ a[k + 1] = t + 1
  BY <1>2, <1>3, AppendProperties
<1> HIDE DEF a
<1>7. CASE k < RingCap
  <2>1. \A i \in 1 .. l : u[i] = a[i]
    <3> SUFFICES ASSUME NEW i \in 1 .. l PROVE u[i] = a[i]
      OBVIOUS
    <3>1. u[i] = i
      BY <1>2, <1>4, <1>5, <1>7
    <3>2. CASE i \in 1 .. k
      BY <1>2, <1>5, <1>6, <1>7, <3>1, <3>2
    <3>3. CASE i \notin 1 .. k
      <4>1. i = k + 1
        BY <1>2, <1>5, <1>7, <3>3
      <4> QED
        BY <1>5, <1>6, <1>7, <3>1, <4>1
    <3> QED
      BY <3>2, <3>3
  <2>2. Len(u) = Len(a)
    BY <1>4, <1>5, <1>6, <1>7
  <2>3. u = a
    BY <1>4, <1>6, <2>1, <2>2, SeqEqual
  <2> QED
    BY <1>7, <2>3 DEF k, s, u, a
<1>8. CASE ~(k < RingCap)
  <2>1. /\ b \in Seq(Nat) /\ Len(b) = k
        /\ \A i \in 1 .. k : b[i] = a[i + 1]
    <3>1. /\ b \in Seq(Nat) /\ Len(b) = Len(a) - 1
          /\ \A i \in 1 .. Len(b) : b[i] = a[i + 1]
      BY <1>6, HeadTailProperties
    <3>2. Len(b) = k
      BY <1>2, <1>6, <3>1
    <3> QED
      BY <3>1, <3>2
  <2> HIDE DEF b
  <2>2. \A i \in 1 .. l : u[i] = b[i]
    <3> SUFFICES ASSUME NEW i \in 1 .. l PROVE u[i] = b[i]
      OBVIOUS
    <3>1. u[i] = (t + 1) - k + i /\ b[i] = a[i + 1] /\ i \in 1 .. k
      BY <1>4, <1>5, <1>8, <2>1
    <3>2. CASE i + 1 \in 1 .. k
      <4>1. a[i + 1] = t - k + (i + 1)
        BY <1>2, <1>6, <3>2
      <4> QED
        BY <1>2, <3>1, <4>1
    <3>3. CASE i + 1 \notin 1 .. k
      <4>1. i = k
        BY <1>2, <3>1, <3>3
      <4>2. u[i] = t + 1
        BY <1>2, <3>1, <4>1
      <4> QED
        BY <1>6, <3>1, <4>1, <4>2
    <3> QED
      BY <3>2, <3>3
  <2>3. Len(u) = Len(b)
    BY <1>4, <1>5, <1>8, <2>1
  <2>4. u = b
    BY <1>4, <2>1, <2>2, <2>3, SeqEqual
  <2> QED
    BY <1>8, <2>4 DEF k, s, u, a, b
<1> QED
  BY <1>7, <1>8

(***************************************************************************)
(* What append and resize keep true of the ring: it holds the newest bytes *)
(* of the stream, in at most MAX_RING_SEGMENTS segments, under the         *)
(* geometries they came in.                                                *)
(***************************************************************************)
RingKeeps(y, t, g) ==
    /\ GoodShape(y)
    /\ t \in Nat /\ Content(y.segments) = NewestBytes(t)
    /\ Len(y.segments) <= MaxSegments
    /\ g \in Seq(Size) /\ Len(g) = t
    /\ GeometryOf(y.segments, t, g)

(* A new ring keeps it of an empty stream. *)
LEMMA NewKeeps ==
    ASSUME NEW s \in Size
    PROVE  RingKeeps(RingNew(s), 0, <<>>)
<1> DEFINE e == [size |-> s, bytes |-> <<>>]
           one == << e >>
           y == RingNew(s)
<1>1. y = [segments |-> one, len |-> 0]
  BY DEF RingNew
<1>2. e \in BareSegment /\ e.bytes = <<>> /\ Len(<<>>) = 0
  <2>1. <<>> \in Seq(Nat) /\ Len(<<>>) = 0
    BY EmptySeq
  <2> QED
    BY <2>1, BareSegmentFields
<1> HIDE DEF e
<1>3. Len(one) = 1 /\ one[1] = e /\ one \in Seq(BareSegment) /\ one # <<>>
  BY <1>2
<1>4. y.segments = one /\ y.len = 0
  BY <1>1
<1>5. GoodShape(y)
  <2>1. RingOK(y, Nat) /\ RingExact(y)
    BY RingNewOK, NewBytes
  <2> QED
    BY <2>1, GoodShapeIs
<1>6. Content(one) = NewestBytes(0)
  <2>1. Content(one) = <<>>
    BY <1>2, ContentOfOne
  <2>2. KeptOf(0) = 0
    BY RingAssumption DEF KeptOf
  <2>3. NewestBytes(0) \in Seq(Nat) /\ Len(NewestBytes(0)) = 0
    BY <2>2, NewestBytesType
  <2>4. NewestBytes(0) = <<>>
    BY <2>3, EmptySeq
  <2> QED
    BY <2>1, <2>4
<1>7. 1 <= MaxSegments
  BY RingAssumption
<1>8. GeometryOf(one, 0, <<>>)
  <2> HIDE DEF one
  <2>1. \A i \in 1 .. 1 : i = 1
    OBVIOUS
  <2>2. \A i \in 1 .. Len(one) : Len(one[i].bytes) = 0
    BY <1>2, <1>3, <2>1
  <2>3. \A j \in 1 .. 0 : FALSE
    OBVIOUS
  <2> QED
    BY <2>2, <2>3 DEF GeometryOf
<1>9. <<>> \in Seq(Size) /\ Len(<<>>) = 0 /\ 0 \in Nat
  BY EmptySeq
<1> HIDE DEF y, one
<1>10. RingKeeps(y, 0, <<>>)
  BY <1>3, <1>4, <1>5, <1>6, <1>7, <1>8, <1>9 DEF RingKeeps
<1> QED
  BY <1>10 DEF y

(* The segments after a byte is pushed. *)
LEMMA PushedSegments ==
    ASSUME NEW y, NEW t, NEW g, RingKeeps(y, t, g)
    PROVE  LET z == RingPush(y, t + 1)
               s == Newest(y).size
           IN  /\ Len(z.segments) <= Len(y.segments)
               /\ Newest(z).size = s
               /\ GeometryOf(z.segments, t + 1, Append(g, s))
<1> DEFINE x == y.segments
           n == Len(x)
           s == x[n].size
           b == t + 1
           h == Append(g, s)
           z == RingPush(y, b)
           grown == [x EXCEPT ![n] = WithBytes(@, Append(@.bytes, b))]
<1>1. /\ GoodShape(y) /\ t \in Nat /\ g \in Seq(Size) /\ Len(g) = t
      /\ GeometryOf(x, t, g)
  BY DEF RingKeeps
<1>2. /\ x \in Seq(BareSegment) /\ x # <<>> /\ n \in Nat /\ n >= 1
      /\ Newest(y) = x[n] /\ s \in Size /\ Proper(x)
  BY <1>1, GoodNumbers DEF GoodShape
<1>3. CASE RingCap = 1
  <2> DEFINE e == [size |-> s, bytes |-> << b >>]
             one == << e >>
  <2>1. z = [segments |-> one, len |-> 1]
    BY <1>2, <1>3 DEF RingPush
  <2>2. Len(<< b >>) = 1 /\ << b >>[1] = b
    OBVIOUS
  <2>3. e.size = s /\ e.bytes = << b >>
    OBVIOUS
  <2>4. h[b] = s /\ b \in 1 .. t + 1
    BY <1>1, <1>2, AppendProperties
  <2> HIDE DEF e, h, s
  <2>5. Len(one) = 1 /\ one[1] = e
    OBVIOUS
  <2>6. z.segments = one
    BY <2>1
  <2> HIDE DEF one, z
  <2>7. Newest(z).size = s
    BY <2>3, <2>5, <2>6 DEF Newest
  <2>8. GeometryOf(one, t + 1, h)
    <3> SUFFICES ASSUME NEW i \in 1 .. 1, NEW j \in 1 .. 1
                 PROVE  /\ one[i].bytes[j] \in 1 .. t + 1
                        /\ i > 1 \/ j = Len(one[i].bytes) => h[one[i].bytes[j]] = one[i].size
      <4>1. \A i \in 1 .. Len(one) : Len(one[i].bytes) = 1
        <5>1. \A i \in 1 .. 1 : i = 1
          OBVIOUS
        <5> QED
          BY <2>2, <2>3, <2>5, <5>1
      <4> QED
        BY <2>5, <4>1 DEF GeometryOf
    <3>1. i = 1 /\ j = 1
      OBVIOUS
    <3> QED
      BY <2>2, <2>3, <2>4, <2>5, <3>1
  <2> QED
    BY <1>2, <2>5, <2>6, <2>7, <2>8 DEF z, h, s
<1>4. /\ grown \in Seq(BareSegment) /\ Len(grown) = n /\ grown[n].size = s
      /\ GeometryOf(grown, b, h)
  BY <1>1, <1>2, GeometryGrows
<1>5. CASE RingCap # 1 /\ y.len < RingCap
  <2>1. z = [segments |-> grown, len |-> y.len + 1]
    BY <1>5 DEF RingPush
  <2> HIDE DEF grown, z, h, s
  <2>2. z.segments = grown
    BY <2>1
  <2>3. Newest(z).size = s
    BY <1>4, <2>2 DEF Newest
  <2> QED
    BY <1>2, <1>4, <2>2, <2>3 DEF z, h, s
<1>6. CASE RingCap # 1 /\ ~(y.len < RingCap)
  <2> DEFINE d == DrainOne(grown)
  <2>1. z = [segments |-> d, len |-> y.len]
    BY <1>6 DEF RingPush
  <2>2. Proper(x) /\ << b >> \in Seq(Nat)
    BY <1>1, <1>2
  <2>3. grown = Grown(x, << b >>)
    <3> DEFINE v == x[n].bytes
    <3>1. v \in Seq(Nat)
      <4>1. x[n] \in BareSegment
        BY <1>2
      <4> QED
        BY <4>1, BareSegmentFields
    <3>2. b \in Nat
      BY <1>1
    <3> HIDE DEF v, b
    <3>3. Append(v, b) = v \o << b >>
      BY <3>1, <3>2, AppendIsConcat
    <3> QED
      BY <3>3 DEF Grown, v
  <2>4. Proper(grown)
    BY <2>2, <2>3, GrownProper
  <2> HIDE DEF grown, z, h, s
  <2>5. grown # <<>>
    BY <2>4 DEF Proper
  <2>6. grown[1].bytes # <<>>
    <3>1. Content(grown) = Content(x) \o << b >>
      BY <2>2, <2>3, GrownContent
    <3>2. Content(x) \in Seq(Nat)
      BY <1>2, ContentType
    <3> DEFINE c == Content(x)
               w == << b >>
    <3>3. w \in Seq(Nat) /\ Len(w) = 1
      BY <2>2
    <3> HIDE DEF w, c
    <3>4. Len(c \o w) = Len(c) + 1 /\ Len(c) \in Nat
      <4>1. c \in Seq(Nat)
        BY <3>2 DEF c
      <4>2. Len(c \o w) = Len(c) + Len(w)
        BY <3>3, <4>1, ConcatProperties
      <4>3. Len(c) \in Nat
        BY <4>1
      <4> QED
        BY <3>3, <4>2, <4>3
    <3>5. Len(Content(grown)) > 0
      BY <3>1, <3>4 DEF c, w
    <3> QED
      BY <2>4, <3>5, HeadHolds
  <2>7. GeometryOf(d, b, h)
    <3>1. b \in Nat
      BY <1>1
    <3> QED
      BY <1>4, <2>5, <2>6, <3>1, GeometryDrains
  <2>8. Len(d) <= n /\ d[Len(d)].size = s
    BY <1>4, <2>4, <2>6, DrainOneProper
  <2> HIDE DEF d
  <2>9. z.segments = d
    BY <2>1
  <2>10. Newest(z).size = s
    BY <2>8, <2>9 DEF Newest
  <2> QED
    BY <1>2, <2>7, <2>8, <2>9, <2>10 DEF z, h, s
<1> QED
  BY <1>3, <1>5, <1>6

(* A byte is pushed: the stream is one byte longer. *)
LEMMA PushKeeps ==
    ASSUME NEW y, NEW t, NEW g, RingKeeps(y, t, g)
    PROVE  LET s == Newest(y).size
           IN  /\ RingKeeps(RingPush(y, t + 1), t + 1, Append(g, s))
               /\ Newest(RingPush(y, t + 1)).size = s
<1> DEFINE s == Newest(y).size
           z == RingPush(y, t + 1)
           c == Content(y.segments)
<1>1. /\ GoodShape(y) /\ t \in Nat /\ c = NewestBytes(t)
      /\ Len(y.segments) <= MaxSegments /\ g \in Seq(Size) /\ Len(g) = t
  BY DEF RingKeeps
<1>2. /\ Len(z.segments) <= Len(y.segments)
      /\ Newest(z).size = s
      /\ GeometryOf(z.segments, t + 1, Append(g, s))
  BY PushedSegments
<1>3. s \in Size /\ y.len = Len(c) /\ Len(y.segments) \in Nat
  BY <1>1, GoodNumbers
<1>4. t + 1 \in Nat
  BY <1>1
<1>5. GoodShape(z)
  BY <1>1, <1>4, PushedGood
<1> HIDE DEF s
<1>6. Append(g, s) \in Seq(Size) /\ Len(Append(g, s)) = t + 1
  BY <1>1, <1>3, AppendProperties
<1>7. Content(z.segments) = NewestBytes(t + 1)
  <2>1. RingOK(y, Nat) /\ RingExact(y)
    BY <1>1, GoodShapeIs
  <2>2. RingBytes(z) = IF y.len < RingCap THEN Append(RingBytes(y), t + 1)
                                          ELSE Tail(Append(RingBytes(y), t + 1))
    BY <1>4, <2>1, PushBytes
  <2>3. RingBytes(z) = Content(z.segments) /\ RingBytes(y) = c
    BY DEF RingBytes, Content
  <2>4. y.len = KeptOf(t)
    BY <1>1, <1>3, NewestBytesType
  <2> HIDE DEF z, c
  <2> QED
    BY <1>1, <2>2, <2>3, <2>4, NewestBytesNext
<1>8. Len(z.segments) <= MaxSegments
  <2>1. Len(z.segments) \in Nat
    BY <1>5, GoodNumbers
  <2> QED
    BY <1>1, <1>2, <1>3, <2>1, RingAssumption
<1> HIDE DEF z
<1>9. RingKeeps(z, t + 1, Append(g, s))
  BY <1>2, <1>4, <1>5, <1>6, <1>7, <1>8 DEF RingKeeps
<1> QED
  BY <1>2, <1>9 DEF z, s

(* resize changes neither the stream nor what is kept of it. *)
LEMMA ResizeKeeps ==
    ASSUME NEW y, NEW t, NEW g, RingKeeps(y, t, g), NEW s \in Size
    PROVE  RingKeeps(RingResize(y, s), t, g)
<1> DEFINE x == y.segments
           n == Len(x)
           e == [size |-> s, bytes |-> <<>>]
           z == RingResize(y, s)
<1>1. /\ GoodShape(y) /\ t \in Nat /\ g \in Seq(Size) /\ Len(g) = t
      /\ Content(x) = NewestBytes(t) /\ n <= MaxSegments /\ GeometryOf(x, t, g)
  BY DEF RingKeeps
<1>2. /\ x \in Seq(BareSegment) /\ x # <<>> /\ n \in Nat /\ n >= 1
      /\ Newest(y) = x[n] /\ Proper(x)
      /\ y = [segments |-> x, len |-> y.len]
  BY <1>1, GoodNumbers DEF GoodShape
<1>3. RingOK(y, Nat) /\ RingExact(y)
  BY <1>1, GoodShapeIs
<1>4. RingOK(z, Nat)
  BY <1>3, RingResizeOK
<1>5. RingBytes(z) = RingBytes(y) /\ z.len = y.len
  BY <1>3, ResizeBytes
<1>6. GoodShape(z) /\ Content(z.segments) = Content(x)
  <2> HIDE DEF z
  <2>1. RingExact(z)
    BY <1>3, <1>5 DEF RingExact
  <2> QED
    BY <1>4, <1>5, <2>1, GoodShapeIs DEF RingBytes, Content
<1>7. Len(z.segments) <= MaxSegments /\ GeometryOf(z.segments, t, g)
  <2>1. CASE ~RingResizes(y, s)
    <3>1. z = y
      BY <2>1 DEF RingResize
    <3> QED
      BY <1>1, <3>1
  <2>2. CASE RingResizes(y, s) /\ x[n].bytes = <<>>
    <3> DEFINE w == [x EXCEPT ![n] = e]
    <3>1. z = [y EXCEPT !.segments = w]
      <4>1. z = [y EXCEPT !.segments[Len(y.segments)] = e]
        BY <1>2, <2>2 DEF RingResize
      <4> QED
        BY <4>1
    <3>2. GeometryOf(w, t, g)
      BY <1>1, <1>2, GeometryRenews
    <3>3. Len(w) = n
      OBVIOUS
    <3> HIDE DEF w, z
    <3>4. z.segments = w
      BY <1>2, <3>1
    <3> QED
      BY <1>1, <3>2, <3>3, <3>4
  <2>3. CASE RingResizes(y, s) /\ x[n].bytes # <<>>
    <3> DEFINE m == MergeOldest(x)
               w == Append(m, e)
    <3>1. z = [y EXCEPT !.segments = w]
      BY <1>2, <2>3 DEF RingResize
    <3>2. \A i \in 1 .. n : x[i].bytes # <<>>
      <4> SUFFICES ASSUME NEW i \in 1 .. n PROVE x[i].bytes # <<>>
        OBVIOUS
      <4>1. i = n \/ i \in 1 .. n - 1
        BY <1>2
      <4> QED
        BY <1>2, <2>3, <4>1 DEF Proper
    <3>3. m \in Seq(BareSegment) /\ Len(m) \in Nat /\ Len(m) + 1 <= MaxSegments
      <4>1. CASE n >= MaxSegments
        <5>1. m \in Seq(BareSegment) /\ Len(m) = n - 1
          BY <1>2, <4>1, MergedIs
        <5> HIDE DEF m
        <5> QED
          BY <1>1, <1>2, <5>1, RingAssumption
      <4>2. CASE ~(n >= MaxSegments)
        <5>1. m = x
          BY <4>2 DEF MergeOldest
        <5> HIDE DEF m
        <5> QED
          BY <1>2, <4>2, <5>1, RingAssumption
      <4> QED
        BY <4>1, <4>2
    <3>4. GeometryOf(m, t, g)
      BY <1>1, <1>2, <3>2, GeometryMerges
    <3> HIDE DEF m
    <3>5. GeometryOf(w, t, g)
      BY <1>1, <3>3, <3>4, GeometryOpens
    <3>6. e \in BareSegment
      <4>1. <<>> \in Seq(Nat)
        OBVIOUS
      <4> QED
        BY <4>1, BareSegmentFields
    <3> HIDE DEF e
    <3>7. Len(w) = Len(m) + 1
      BY <3>3, <3>6, AppendProperties
    <3> HIDE DEF w, z
    <3>8. z.segments = w
      BY <1>2, <3>1
    <3> QED
      BY <3>3, <3>5, <3>7, <3>8
  <2> QED
    BY <2>1, <2>2, <2>3
<1> HIDE DEF z
<1>8. RingKeeps(z, t, g)
  BY <1>1, <1>6, <1>7 DEF RingKeeps
<1> QED
  BY <1>8 DEF z

(* n bytes of the stream behind its first t, and n times a geometry. *)
NumberedFrom(t, n) == [i \in 1 .. n |-> t + i]

Alike(n, s) == [i \in 1 .. n |-> s]

(* One more of each. *)
LEMMA ChunkNext ==
    ASSUME NEW S, NEW e \in S, NEW t \in Nat, NEW n \in Nat
    PROVE  /\ NumberedFrom(t, n) \in Seq(Nat) /\ Len(NumberedFrom(t, n)) = n
           /\ NumberedFrom(t, n + 1) = Append(NumberedFrom(t, n), (t + n) + 1)
           /\ Alike(n, e) \in Seq(S) /\ Len(Alike(n, e)) = n
           /\ Alike(n + 1, e) = Append(Alike(n, e), e)
<1> DEFINE a == NumberedFrom(t, n)
           b == NumberedFrom(t, n + 1)
           c == Alike(n, e)
           d == Alike(n + 1, e)
<1>1. /\ a \in Seq(Nat) /\ Len(a) = n /\ \A i \in 1 .. n : a[i] = t + i
      /\ b \in Seq(Nat) /\ Len(b) = n + 1 /\ \A i \in 1 .. n + 1 : b[i] = t + i
  BY DEF NumberedFrom
<1>2. /\ c \in Seq(S) /\ Len(c) = n /\ \A i \in 1 .. n : c[i] = e
      /\ d \in Seq(S) /\ Len(d) = n + 1 /\ \A i \in 1 .. n + 1 : d[i] = e
  BY DEF Alike
<1> HIDE DEF a, b, c, d
<1> DEFINE k == (t + n) + 1
           a1 == Append(a, k)
           c1 == Append(c, e)
<1>3. k \in Nat /\ k = t + (n + 1)
  OBVIOUS
<1> HIDE DEF k
<1>4. /\ a1 \in Seq(Nat) /\ Len(a1) = n + 1
      /\ \A i \in 1 .. n : a1[i] = a[i]
      /\ a1[n + 1] = k
  BY <1>1, <1>3, AppendProperties
<1>5. /\ c1 \in Seq(S) /\ Len(c1) = n + 1
      /\ \A i \in 1 .. n : c1[i] = c[i]
      /\ c1[n + 1] = e
  BY <1>2, AppendProperties
<1> HIDE DEF a1, c1
<1>6. \A i \in 1 .. n + 1 : i \in 1 .. n \/ i = n + 1
  OBVIOUS
<1>7. \A i \in 1 .. n + 1 : b[i] = a1[i] /\ d[i] = c1[i]
  BY <1>1, <1>2, <1>3, <1>4, <1>5, <1>6
<1>8. b = a1
  BY <1>1, <1>4, <1>7, SeqEqual
<1>9. d = c1
  BY <1>2, <1>5, <1>7, SeqEqual
<1> QED
  BY <1>1, <1>2, <1>8, <1>9 DEF a, b, c, d, a1, c1, k

(* What is kept after n bytes more. *)
KeepsAfter(y, t, g, n) ==
    LET s == Newest(y).size
        z == Appended(y, NumberedFrom(t, n))
    IN  RingKeeps(z, t + n, g \o Alike(n, s)) /\ Newest(z).size = s

(* A chunk is appended: the stream is so much longer. *)
LEMMA ChunkKeeps ==
    ASSUME NEW y, NEW t, NEW g, RingKeeps(y, t, g)
    PROVE  \A n \in Nat : KeepsAfter(y, t, g, n)
<1> DEFINE s == Newest(y).size
           U == {n \in Nat : KeepsAfter(y, t, g, n)}
<1>1. GoodShape(y) /\ t \in Nat /\ g \in Seq(Size)
  BY DEF RingKeeps
<1>2. s \in Size
  BY <1>1, GoodNumbers
<1> HIDE DEF s
<1>3. 0 \in U
  <2>1. /\ NumberedFrom(t, 0) \in Seq(Nat) /\ Len(NumberedFrom(t, 0)) = 0
        /\ Alike(0, s) \in Seq(Size) /\ Len(Alike(0, s)) = 0
    BY <1>1, <1>2, ChunkNext
  <2>2. NumberedFrom(t, 0) = <<>> /\ Alike(0, s) = <<>>
    BY <2>1, EmptySeq
  <2>3. Appended(y, <<>>) = y /\ g \o <<>> = g /\ t + 0 = t
    BY <1>1, AppendedNothing, ConcatEmptySeq
  <2> QED
    BY <2>2, <2>3 DEF KeepsAfter, s
<1>4. ASSUME NEW n \in Nat, n \in U
      PROVE  n + 1 \in U
  <2> DEFINE bs == NumberedFrom(t, n)
             z == Appended(y, bs)
             h == g \o Alike(n, s)
             k == t + n
  <2>1. RingKeeps(z, k, h) /\ Newest(z).size = s
    BY <1>4 DEF KeepsAfter, s
  <2>2. /\ bs \in Seq(Nat)
        /\ NumberedFrom(t, n + 1) = Append(bs, k + 1)
        /\ Alike(n, s) \in Seq(Size)
        /\ Alike(n + 1, s) = Append(Alike(n, s), s)
    BY <1>1, <1>2, ChunkNext
  <2>3. k \in Nat /\ k + 1 = t + (n + 1) /\ k + 1 \in Nat
    BY <1>1
  <2> HIDE DEF bs, k
  <2>4. Appended(y, Append(bs, k + 1)) = RingPush(z, k + 1)
    BY <1>1, <2>2, <2>3, AppendedNext
  <2>5. g \o Append(Alike(n, s), s) = Append(h, s)
    BY <1>1, <1>2, <2>2, ConcatAppend
  <2> HIDE DEF z, h
  <2>6. /\ RingKeeps(RingPush(z, k + 1), k + 1, Append(h, s))
        /\ Newest(RingPush(z, k + 1)).size = s
    BY <2>1, PushKeeps
  <2>7. KeepsAfter(y, t, g, n + 1)
    <3> DEFINE v == Appended(y, NumberedFrom(t, n + 1))
               w == g \o Alike(n + 1, s)
    <3>1. v = RingPush(z, k + 1) /\ w = Append(h, s)
      BY <2>2, <2>4, <2>5
    <3> HIDE DEF v, w
    <3>2. RingKeeps(v, t + (n + 1), w) /\ Newest(v).size = s
      BY <2>3, <2>6, <3>1
    <3> QED
      BY <3>2 DEF KeepsAfter, v, w, s
  <2> QED
    BY <2>7
<1> HIDE DEF U
<1>5. Nat \subseteq U
  BY <1>3, <1>4, NaturalsBySet
<1> QED
  BY <1>5 DEF U

(***************************************************************************)
(* The inductive invariant of the ring: it is well formed, and keeps of    *)
(* the stream what it should.                                              *)
(***************************************************************************)
RingInv ==
    /\ GoodRing(ring)
    /\ total \in 0 .. MaxBytes
    /\ RingKeeps(Shape(ring), total, geo)

(* It holds of a new ring. *)
LEMMA RingInitInv ==
    ASSUME RingInit
    PROVE  RingInv
<1> DEFINE e == RingSegmentEmpty(InitialSize)
           one == << e >>
<1>1. ring = [segments |-> one, len |-> 0] /\ total = 0 /\ geo = <<>>
  BY DEF RingInit, ReplayRingNew
<1>2. InitialSize \in Size /\ DequeCap \in Nat /\ DequeCap >= 1 /\ MaxBytes \in Nat
  BY RingAssumption, ReplayRingAssumption
<1>3. e \in DequeSegment /\ Bare(e) = [size |-> InitialSize, bytes |-> <<>>]
  <2>1. 0 \in 0 .. DequeCap - 1 /\ <<>> \in Seq(Nat)
    BY <1>2
  <2> QED
    BY <1>2, <2>1 DEF RingSegmentEmpty, EmptyDeque, DequeSegment, Bare
<1> HIDE DEF e
<1>4. one \in Seq(DequeSegment) /\ Len(one) = 1 /\ one[1] = e
  BY <1>3
<1> HIDE DEF one
<1>5. Bares(one) = << Bare(e) >>
  <2> DEFINE x == Bares(one)
  <2>1. x \in Seq(BareSegment) /\ Len(x) = 1 /\ x[1] = Bare(e)
    <3>1. 1 \in 1 .. Len(one)
      BY <1>4
    <3> QED
      BY <1>4, <3>1, BaresAre
  <2> HIDE DEF x
  <2>2. x = << x[1] >>
    BY <2>1
  <2> QED
    BY <2>1, <2>2 DEF x
<1>6. Shape(ring) = RingNew(InitialSize)
  BY <1>1, <1>3, <1>5 DEF Shape, RingNew
<1>7. RingKeeps(Shape(ring), 0, <<>>)
  BY <1>2, <1>6, NewKeeps
<1>8. GoodRing(ring)
  BY <1>1, <1>4, <1>7 DEF GoodRing, RingKeeps
<1>9. 0 \in 0 .. MaxBytes
  BY <1>2
<1> QED
  BY <1>1, <1>7, <1>8, <1>9 DEF RingInv

(* The geometry of the stream is that of the newest segment's shape. *)
LEMMA StreamSizeIs ==
    ASSUME RingInv
    PROVE  StreamSize = Newest(Shape(ring)).size /\ StreamSize \in Size
<1>1. /\ Newest(Shape(ring)) = Bare(ring.segments[Len(ring.segments)])
      /\ ring.segments[Len(ring.segments)] \in DequeSegment
  BY GoodRingIs DEF RingInv
<1>2. /\ Bare(ring.segments[Len(ring.segments)]).size = StreamSize
      /\ StreamSize \in Size
  BY <1>1, DequeSegmentFields DEF StreamSize
<1> QED
  BY <1>1, <1>2

(* Each step keeps it. *)
LEMMA RingNextInv ==
    ASSUME RingInv, [RingNext]_ringVars
    PROVE  RingInv'
<1>1. GoodRing(ring) /\ total \in 0 .. MaxBytes /\ RingKeeps(Shape(ring), total, geo)
  BY DEF RingInv
<1>2. total \in Nat /\ MaxBytes \in Nat /\ MaxChunk \in Nat
  BY <1>1, ReplayRingAssumption
<1>3. CASE Appends
  <2>1. PICK n \in 1 .. MaxChunk :
            /\ total + n <= MaxBytes
            /\ ring' = ReplayRingAppend(ring, NextBytes(n))
            /\ total' = total + n
            /\ geo' = geo \o [i \in 1 .. n |-> StreamSize]
    BY <1>3 DEF Appends
  <2> DEFINE bs == NextBytes(n)
             s == Newest(Shape(ring)).size
  <2>2. n \in Nat /\ total' \in 0 .. MaxBytes
    BY <1>2, <2>1
  <2>3. bs = NumberedFrom(total, n)
    BY DEF NextBytes, NumberedFrom
  <2>4. StreamSize = s /\ s \in Size
    BY StreamSizeIs
  <2>5. bs \in Seq(Nat)
    BY <1>2, <2>2, <2>3, <2>4, ChunkNext
  <2> HIDE DEF bs
  <2>6. GoodRing(ring') /\ Shape(ring') = Appended(Shape(ring), bs)
    BY <1>1, <2>1, <2>5, ShapeOfAppend DEF bs
  <2>7. KeepsAfter(Shape(ring), total, geo, n)
    BY <1>1, <2>2, ChunkKeeps
  <2>8. geo' = geo \o Alike(n, s)
    BY <2>1, <2>4 DEF Alike
  <2>9. RingKeeps(Shape(ring'), total', geo')
    BY <2>1, <2>3, <2>6, <2>7, <2>8 DEF KeepsAfter
  <2> QED
    BY <2>2, <2>6, <2>9 DEF RingInv, Shape
<1>4. CASE Resizes
  <2>1. PICK s \in Size :
            /\ ring' = ReplayRingResize(ring, s).ring
            /\ UNCHANGED <<total, geo>>
    BY <1>4 DEF Resizes
  <2>2. GoodRing(ring')
    BY <1>1, <2>1, ResizedGood
  <2>3. Shape(ring') = RingResize(Shape(ring), s)
    BY <1>1, <2>1, ShapeOfResize DEF ResizeAgrees
  <2>4. RingKeeps(Shape(ring'), total, geo)
    BY <1>1, <2>3, ResizeKeeps
  <2> QED
    BY <1>1, <2>1, <2>2, <2>4 DEF RingInv, Shape
<1>5. CASE UNCHANGED ringVars
  <2>1. ring' = ring /\ total' = total /\ geo' = geo
    BY <1>5 DEF ringVars
  <2> QED
    BY <1>1, <2>1 DEF RingInv, Shape
<1> QED
  BY <1>3, <1>4, <1>5 DEF RingNext

(* The invariant holds throughout. *)
THEOREM RingInvariant == RingSpec => []RingInv
<1>1. RingInit => RingInv
  BY RingInitInv
<1>2. RingInv /\ [RingNext]_ringVars => RingInv'
  BY RingNextInv
<1> QED
  BY <1>1, <1>2, PTL DEF RingSpec

(* Types follow from the invariant. *)
LEMMA RingTypes ==
    ASSUME RingInv
    PROVE  RingTypeOK
<1> DEFINE segs == ring.segments
           x == Bares(segs)
           y == Shape(ring)
<1>1. /\ ring = [segments |-> segs, len |-> ring.len] /\ segs \in Seq(DequeSegment)
      /\ GoodShape(y) /\ y.len = ring.len /\ y.segments = x
      /\ total \in 0 .. MaxBytes /\ geo \in Seq(Size)
      /\ GeometryOf(x, total, geo)
  BY GoodRingIs DEF RingInv, RingKeeps
<1>2. ring.len \in Nat /\ ring.len <= RingCap /\ RingCap \in Nat
  BY <1>1, GoodNumbers
<1>3. MaxBytes \in Nat
  BY ReplayRingAssumption
<1>4. /\ Len(x) = Len(segs) /\ Len(segs) \in Nat
      /\ \A i \in 1 .. Len(segs) : x[i] = Bare(segs[i])
  BY <1>1, BaresAre
<1>5. \A i \in 1 .. Len(segs) : segs[i] \in [size : Size, deque : Deque]
  <2> SUFFICES ASSUME NEW i \in 1 .. Len(segs)
               PROVE  segs[i] \in [size : Size, deque : Deque]
    OBVIOUS
  <2> DEFINE s == segs[i]
             bs == s.deque.bytes
             f == s.deque.front
  <2>1. s \in DequeSegment
    BY <1>1
  <2>2. /\ s.size \in Size /\ f \in 0 .. DequeCap - 1 /\ bs \in Seq(Nat)
        /\ x[i].bytes = bs
    BY <1>4, <2>1, DequeSegmentFields
  <2>3. \A j \in 1 .. Len(bs) : bs[j] \in 1 .. MaxBytes
    <3> SUFFICES ASSUME NEW j \in 1 .. Len(bs) PROVE bs[j] \in 1 .. MaxBytes
      OBVIOUS
    <3>1. x[i].bytes[j] \in 1 .. total
      <4>1. i \in 1 .. Len(x) /\ j \in 1 .. Len(x[i].bytes)
        BY <1>4, <2>2
      <4> HIDE DEF x
      <4> QED
        BY <1>1, <4>1 DEF GeometryOf
    <3> HIDE DEF x, bs
    <3> QED
      BY <1>1, <1>3, <2>2, <3>1
  <2>4. s = [size |-> s.size, deque |-> [front |-> f, bytes |-> bs]]
    BY <2>1 DEF DequeSegment
  <2> HIDE DEF bs, f
  <2>5. bs \in Seq(1 .. MaxBytes)
    <3>1. \A S : (\A j \in 1 .. Len(bs) : bs[j] \in S) => bs \in Seq(S)
      BY <2>2
    <3> QED
      BY <2>3, <3>1
  <2>6. [front |-> f, bytes |-> bs] \in Deque
    BY <2>2, <2>5 DEF Deque
  <2> DEFINE d == [front |-> f, bytes |-> bs]
  <2> HIDE DEF d
  <2>7. [size |-> s.size, deque |-> d] \in [size : Size, deque : Deque]
    BY <2>2, <2>6 DEF d
  <2> QED
    BY <2>4, <2>7 DEF d
<1>6. segs \in Seq([size : Size, deque : Deque])
  <2> DEFINE S == [size : Size, deque : Deque]
  <2>1. \A i \in 1 .. Len(segs) : segs[i] \in S
    BY <1>5
  <2> HIDE DEF S, segs
  <2>2. segs \in Seq(S)
    BY <1>1, <2>1
  <2> QED
    BY <2>2 DEF S
<1>7. ring.len \in 0 .. RingCap
  BY <1>2
<1>8. total \in 0 .. MaxBytes /\ geo \in Seq(Size)
  BY <1>1
<1>9. ring \in [segments : Seq([size : Size, deque : Deque]), len : 0 .. RingCap]
  <2> DEFINE l == ring.len
             S == Seq([size : Size, deque : Deque])
  <2>1. ring = [segments |-> segs, len |-> l] /\ segs \in S /\ l \in 0 .. RingCap
    BY <1>1, <1>6, <1>7
  <2> HIDE DEF l, segs, S
  <2>2. ring \in [segments : S, len : 0 .. RingCap]
    BY <2>1
  <2> QED
    BY <2>2 DEF S
<1> QED
  BY <1>8, <1>9 DEF RingTypeOK

(***************************************************************************)
(* The ring's fields keep their types: what append, resize and the drain   *)
(* write are segments of bytes of the stream, and the ring counts no more  *)
(* bytes than it may hold.                                                 *)
(***************************************************************************)
THEOREM RingTypesHold == RingSpec => []RingTypeOK
<1>1. RingInv => RingTypeOK
  BY RingTypes
<1> QED
  BY <1>1, RingInvariant, PTL

(* The slices of all segments are the content of the ring. *)
LEMMA HeldIs ==
    ASSUME RingInv
    PROVE  Held = Content(Bares(ring.segments))
<1> DEFINE segs == ring.segments
           n == Len(segs)
           x == Bares(segs)
           f == [i \in 1 .. n |-> SegmentBytes(segs[i])]
           g == [i \in 1 .. n |-> x[i].bytes]
<1>1. segs \in Seq(DequeSegment)
  BY GoodRingIs DEF RingInv
<1>2. Len(x) = n /\ \A i \in 1 .. n : x[i] = Bare(segs[i])
  BY <1>1, BaresAre
<1>3. \A i \in 1 .. n : SegmentBytes(segs[i]) = x[i].bytes
  <2> SUFFICES ASSUME NEW i \in 1 .. n PROVE SegmentBytes(segs[i]) = x[i].bytes
    OBVIOUS
  <2>1. segs[i] \in DequeSegment
    BY <1>1
  <2> QED
    BY <1>2, <2>1, SlicesAre, DequeSegmentFields
<1>4. BytesIn(x) = g
  BY <1>2 DEF BytesIn
<1>5. Held = FlattenSeq(f)
  BY DEF Held
<1>6. f = g
  <2> HIDE DEF n, x, segs
  <2> QED
    BY <1>3
<1> QED
  BY <1>4, <1>5, <1>6 DEF Content

(* The ring holds the tail of the stream. *)
LEMMA RingHolds ==
    ASSUME RingInv
    PROVE  RingHoldsTail
<1> DEFINE segs == ring.segments
           x == Bares(segs)
<1>1. /\ GoodRing(ring) /\ RingKeeps(Shape(ring), total, geo)
      /\ Shape(ring).segments = x /\ Shape(ring).len = ring.len
  BY DEF RingInv, Shape
<1>2. /\ ring.len = Len(Content(x)) /\ Content(x) = NewestBytes(total)
      /\ Len(x) <= MaxSegments /\ Proper(x)
  BY <1>1 DEF RingKeeps, GoodShape
<1>3. segs \in Seq(DequeSegment) /\ Len(x) = Len(segs)
      /\ \A i \in 1 .. Len(segs) : x[i] = Bare(segs[i])
  BY <1>1, BaresAre DEF GoodRing
<1>4. Held = Content(x)
  BY HeldIs
<1>5. LastOf(IF total < RingCap THEN total ELSE RingCap) = NewestBytes(total)
  BY DEF LastOf, NewestBytes, KeptOf
<1>6. \A i \in 1 .. Len(segs) - 1 : segs[i].deque.bytes # <<>>
  <2> SUFFICES ASSUME NEW i \in 1 .. Len(segs) - 1
               PROVE  segs[i].deque.bytes # <<>>
    OBVIOUS
  <2>1. i \in 1 .. Len(segs) /\ i \in 1 .. Len(x) - 1
    BY <1>3
  <2>2. segs[i] \in DequeSegment /\ x[i] = Bare(segs[i])
    BY <1>3, <2>1
  <2>3. x[i].bytes # <<>>
    BY <1>2, <2>1 DEF Proper
  <2> QED
    BY <2>2, <2>3, DequeSegmentFields
<1> HIDE DEF x
<1> QED
  BY <1>2, <1>3, <1>4, <1>5, <1>6 DEF RingHoldsTail

(***************************************************************************)
(* Whatever the chunks, the resizes and the capacities, the ring holds     *)
(* exactly the newest RingCap bytes of the stream, in order, counts them   *)
(* right, and keeps to MAX_RING_SEGMENTS segments of which only the newest *)
(* can be empty (append, resize, the drain and the merge together).        *)
(***************************************************************************)
THEOREM RingAlwaysHoldsTail == RingSpec => []RingHoldsTail
<1>1. RingInv => RingHoldsTail
  BY RingHolds
<1> QED
  BY <1>1, RingInvariant, PTL

(* The geometries in the ring are those of its shape. *)
LEMMA RingGeometry ==
    ASSUME RingInv
    PROVE  GeometryKept
<1> DEFINE segs == ring.segments
           x == Bares(segs)
<1>1. /\ segs \in Seq(DequeSegment) /\ GeometryOf(x, total, geo)
  BY DEF RingInv, RingKeeps, GoodRing, Shape
<1>2. Len(x) = Len(segs) /\ \A i \in 1 .. Len(segs) : x[i] = Bare(segs[i])
  BY <1>1, BaresAre
<1>3. ASSUME NEW i \in 1 .. Len(segs), NEW j \in 1 .. Len(segs[i].deque.bytes),
             i > 1 \/ j = Len(segs[i].deque.bytes)
      PROVE  geo[segs[i].deque.bytes[j]] = segs[i].size
  <2> DEFINE s == segs[i]
             w == x[i]
  <2>1. s \in DequeSegment
    BY <1>1
  <2>2. w.bytes = s.deque.bytes /\ w.size = s.size
    BY <1>2, <2>1, DequeSegmentFields
  <2>3. j \in 1 .. Len(w.bytes) /\ (i > 1 \/ j = Len(w.bytes))
    BY <1>3, <2>2
  <2>4. i \in 1 .. Len(x)
    BY <1>2
  <2> HIDE DEF x
  <2>5. geo[w.bytes[j]] = w.size
    BY <1>1, <2>3, <2>4 DEF GeometryOf
  <2> QED
    BY <2>2, <2>5
<1> QED
  BY <1>3 DEF GeometryKept

(***************************************************************************)
(* Every byte is replayed under the geometry it was printed for, except    *)
(* behind the last byte of an oldest segment that has absorbed others      *)
(* (resize with MAX_RING_SEGMENTS).                                        *)
(***************************************************************************)
THEOREM GeometryAlwaysKept == RingSpec => []GeometryKept
<1>1. RingInv => GeometryKept
  BY RingGeometry
<1> QED
  BY <1>1, RingInvariant, PTL

(* Two chunks that make up a third. *)
LEMMA ChunkSplits ==
    ASSUME NEW bs \in Seq(Nat), NEW k \in 0 .. Len(bs)
    PROVE  /\ SubSeq(bs, 1, k) \in Seq(Nat)
           /\ SubSeq(bs, k + 1, Len(bs)) \in Seq(Nat)
           /\ SubSeq(bs, 1, k) \o SubSeq(bs, k + 1, Len(bs)) = bs
<1> DEFINE t == SubSeq(bs, 1, k)
           u == SubSeq(bs, k + 1, Len(bs))
           w == t \o u
<1>1. Len(bs) \in Nat /\ k \in Nat /\ k <= Len(bs)
  OBVIOUS
<1>2. t \in Seq(Nat) /\ Len(t) = k /\ \A i \in 1 .. k : t[i] = bs[i]
  BY FirstOf
<1>3. /\ u \in Seq(Nat) /\ Len(u) = Len(bs) - k
      /\ \A i \in 1 .. Len(bs) - k : u[i] = bs[k + i]
  BY <1>1, SuffixIs
<1> HIDE DEF t, u
<1>4. /\ w \in Seq(Nat) /\ Len(w) = Len(t) + Len(u)
      /\ \A i \in 1 .. Len(t) + Len(u) : w[i] = IF i <= Len(t) THEN t[i] ELSE u[i - Len(t)]
  BY <1>2, <1>3, ConcatProperties
<1>5. Len(t) + Len(u) = Len(bs)
  BY <1>1, <1>2, <1>3
<1> HIDE DEF w
<1>6. \A i \in 1 .. Len(bs) : w[i] = bs[i]
  <2> SUFFICES ASSUME NEW i \in 1 .. Len(bs) PROVE w[i] = bs[i]
    OBVIOUS
  <2>1. w[i] = IF i <= k THEN t[i] ELSE u[i - k]
    BY <1>2, <1>4, <1>5
  <2>2. CASE i <= k
    BY <1>1, <1>2, <2>1, <2>2
  <2>3. CASE ~(i <= k)
    <3>1. i - k \in 1 .. Len(bs) - k /\ k + (i - k) = i
      BY <1>1, <2>3
    <3>2. u[i - k] = bs[k + (i - k)]
      BY <1>3, <3>1
    <3> QED
      BY <2>1, <2>3, <3>1, <3>2
  <2> QED
    BY <2>2, <2>3
<1>7. w = bs
  BY <1>4, <1>5, <1>6, SeqEqual
<1> QED
  BY <1>2, <1>3, <1>7 DEF t, u, w

(* No chunk leaves a trace of how it was cut. *)
LEMMA RingChunks ==
    ASSUME RingInv
    PROVE  ChunkingIsInvisible
<1>1. GoodRing(ring) /\ total \in Nat
  BY DEF RingInv
<1>2. ASSUME NEW n \in 2 .. MaxChunk, NEW k \in 1 .. n - 1
      PROVE  LET bs == NextBytes(n)
                 first == SubSeq(bs, 1, k)
                 rest == SubSeq(bs, k + 1, n)
             IN  Shape(ReplayRingAppend(ring, bs))
                   = Shape(ReplayRingAppend(ReplayRingAppend(ring, first), rest))
  <2> DEFINE bs == NextBytes(n)
             first == SubSeq(bs, 1, k)
             rest == SubSeq(bs, k + 1, n)
             y == Shape(ring)
             q == ReplayRingAppend(ring, first)
  <2>1. n \in Nat /\ k \in 0 .. n
    BY ReplayRingAssumption
  <2>2. bs \in Seq(Nat) /\ Len(bs) = n
    <3>1. bs = NumberedFrom(total, n)
      BY DEF NextBytes, NumberedFrom
    <3>2. NumberedFrom(total, n) \in Seq(Nat) /\ Len(NumberedFrom(total, n)) = n
      BY <1>1, <2>1, ChunkNext
    <3> QED
      BY <3>1, <3>2
  <2> HIDE DEF bs
  <2>3. first \in Seq(Nat) /\ rest \in Seq(Nat) /\ first \o rest = bs
    BY <2>1, <2>2, ChunkSplits
  <2> HIDE DEF first, rest
  <2>4. Shape(ReplayRingAppend(ring, bs)) = Appended(y, bs)
    BY <1>1, <2>2, ShapeOfAppend
  <2>5. GoodRing(q) /\ Shape(q) = Appended(y, first)
    BY <1>1, <2>3, ShapeOfAppend
  <2> HIDE DEF q
  <2>6. Shape(ReplayRingAppend(q, rest)) = Appended(Shape(q), rest)
    BY <2>3, <2>5, ShapeOfAppend
  <2>7. Appended(Appended(y, first), rest) = Appended(y, first \o rest)
    <3>1. GoodShape(y)
      BY <1>1 DEF GoodRing
    <3> HIDE DEF y
    <3> QED
      BY <2>3, <3>1, AppendedTwice
  <2>8. Shape(ReplayRingAppend(ring, bs)) = Shape(ReplayRingAppend(q, rest))
    BY <2>3, <2>4, <2>5, <2>6, <2>7
  <2> QED
    BY <2>8 DEF bs, first, rest, q
<1> QED
  BY <1>2 DEF ChunkingIsInvisible

(***************************************************************************)
(* How a stream is cut into reads leaves no trace in the ring: appending   *)
(* two chunks is appending their concatenation, whatever overflows.        *)
(***************************************************************************)
THEOREM ChunkingAlwaysInvisible == RingSpec => []ChunkingIsInvisible
<1>1. RingInv => ChunkingIsInvisible
  BY RingChunks
<1> QED
  BY <1>1, RingInvariant, PTL

(* The pane's ring does to shapes what this ring does. *)
LEMMA RingAgrees ==
    ASSUME RingInv
    PROVE  PaneRingAgrees
<1> DEFINE y == Shape(ring)
           b == total + 1
<1>1. GoodRing(ring) /\ GoodShape(y) /\ total \in Nat
  BY DEF RingInv, GoodRing
<1>2. RingPush(y, b) = Shape(ReplayRingAppend(ring, NextBytes(1)))
  <2> DEFINE bs == NextBytes(1)
             e == CHOOSE s \in Size : TRUE
  <2>1. e \in Size
    <3>1. \E s \in Size : TRUE
      BY ReplayRingAssumption
    <3> QED
      BY <3>1
  <2> HIDE DEF e
  <2>2. /\ NumberedFrom(total, 0) \in Seq(Nat) /\ Len(NumberedFrom(total, 0)) = 0
        /\ NumberedFrom(total, 0 + 1) = Append(NumberedFrom(total, 0), (total + 0) + 1)
    BY <1>1, <2>1, ChunkNext
  <2>3. NumberedFrom(total, 0) = <<>>
    BY <2>2, EmptySeq
  <2>4. bs = NumberedFrom(total, 1)
    BY DEF NextBytes, NumberedFrom
  <2>5. 0 + 1 = 1 /\ (total + 0) + 1 = b /\ b \in Nat
    BY <1>1
  <2>6. bs = Append(<<>>, b)
    BY <2>2, <2>3, <2>4, <2>5
  <2>7. bs \in Seq(Nat) /\ <<>> \in Seq(Nat)
    <3>1. <<>> \in Seq(Nat)
      BY EmptySeq
    <3> HIDE DEF bs, b
    <3> QED
      BY <2>5, <2>6, <3>1, AppendProperties
  <2> HIDE DEF bs, b
  <2>8. Shape(ReplayRingAppend(ring, bs)) = Appended(y, bs)
    BY <1>1, <2>7, ShapeOfAppend
  <2> HIDE DEF y
  <2>9. Appended(y, Append(<<>>, b)) = RingPush(Appended(y, <<>>), b)
    BY <1>1, <2>5, <2>7, AppendedNext
  <2>10. Appended(y, <<>>) = y
    BY <1>1, AppendedNothing
  <2> QED
    BY <2>6, <2>8, <2>9, <2>10 DEF bs
<1>3. \A s \in Size :
         /\ RingResize(y, s) = Shape(ReplayRingResize(ring, s).ring)
         /\ RingResizes(y, s) = ReplayRingResize(ring, s).changed
  BY <1>1, ShapeOfResize DEF ResizeAgrees
<1>4. RingReplay(y) = ReplayRingReplay(ring)
  BY <1>1, ReplayOfShape
<1> QED
  BY <1>2, <1>3, <1>4 DEF PaneRingAgrees

(***************************************************************************)
(* PaneRing, the byte-by-byte ring of the session pane, is this ring: its  *)
(* push, resize and replay give what append, resize and replay give from   *)
(* the two slices of the deques.                                           *)
(***************************************************************************)
THEOREM PaneRingAlwaysAgrees == RingSpec => []PaneRingAgrees
<1>1. RingInv => PaneRingAgrees
  BY RingAgrees
<1> QED
  BY <1>1, RingInvariant, PTL

(***************************************************************************)
(* The instance as a whole: the parts share no state, and each keeps its   *)
(* types whatever the constants are, two reports in one millisecond        *)
(* included.                                                               *)
(***************************************************************************)

(* A report under way has a number that was given out: ReportLost needs it *)
(* to stay inside the bound.                                               *)
ReportsKept ==
    /\ ReportsTypeOK
    /\ \A r \in flight : r.no \in 1 .. sent

DaemonInv == RingInv /\ RegistryInv /\ ReportsKept

(* Nothing is under way at first, *)
LEMMA ReportsKeptInit ==
    ASSUME ReportsInit
    PROVE  ReportsKept
<1>1. ReportsInv
  BY ReportsInvInit
<1>2. flight = {}
  BY DEF ReportsInit
<1> QED
  BY <1>1, <1>2 DEF ReportsInv, ReportsKept

(* a report that is sent gets the next number, whatever its millisecond, *)
LEMMA SentIsNumbered ==
    ASSUME ReportsKept, NEW s \in {"working", "blocked", "idle"}, SendsReport(s)
    PROVE  /\ clock' \in Nat /\ sent' \in 0 .. MaxReports
           /\ flight' \subseteq Report
           /\ \A r \in flight' : r.no \in 1 .. sent'
<1> DEFINE new == [state |-> s, jobs |-> jobs, seq |-> clock', no |-> sent + 1]
<1>1. /\ sent < MaxReports /\ sent' = sent + 1
      /\ flight' = flight \cup {new}
  BY DEF SendsReport
<1>2. clock' \in {clock, clock + 1}
  BY DEF SendsReport
<1>3. /\ clock \in Nat /\ sent \in 0 .. MaxReports /\ MaxReports \in Nat
      /\ jobs \subseteq Job /\ flight \subseteq Report
      /\ \A r \in flight : r.no \in 1 .. sent
  BY ReportsAssumption DEF ReportsKept, ReportsTypeOK
<1>4. clock' \in Nat
  BY <1>2, <1>3
<1>5. sent' \in 0 .. MaxReports /\ sent + 1 \in Nat /\ sent + 1 \in 1 .. sent'
  BY <1>1, <1>3
<1>6. new \in Report /\ new.no = sent + 1
  BY <1>3, <1>4, <1>5 DEF Report
<1> HIDE DEF new
<1>7. flight' \subseteq Report
  BY <1>1, <1>3, <1>6
<1>8. ASSUME NEW r \in flight' PROVE r.no \in 1 .. sent'
  BY <1>1, <1>3, <1>5, <1>6
<1> QED
  BY <1>4, <1>5, <1>7, <1>8

(* and every step of the extension or the daemon keeps the types. *)
LEMMA ReportsKeptStep ==
    ASSUME ReportsKept, [ReportsNext]_reportsVars
    PROVE  ReportsKept'
<1>0. /\ ReportsTypeOK
      /\ \A r \in flight : r.no \in 1 .. sent
      /\ agentActive \in BOOLEAN /\ blocked \in Nat /\ Approvals \in Nat
      /\ MaxReports \in Nat /\ blocked \in 0 .. Approvals
  BY ReportsAssumption DEF ReportsKept, ReportsTypeOK
<1>1. CASE AgentStart
  <2>1. State(TRUE, blocked) \in {"working", "blocked", "idle"}
    BY <1>0, StateType
  <2>2. SendsReport(State(TRUE, blocked))
    BY <1>1 DEF AgentStart
  <2> QED
    BY <1>0, <1>1, <2>1, <2>2, SentIsNumbered
       DEF AgentStart, ReportsKept, ReportsTypeOK
<1>2. CASE AgentEnd
  BY <1>0, <1>2 DEF AgentEnd, ReportsKept, ReportsTypeOK, sendVars
<1>3. CASE IdleTimerFires
  <2>1. State(agentActive, blocked) \in {"working", "blocked", "idle"}
    BY <1>0, StateType
  <2>2. SendsReport(State(agentActive, blocked))
    BY <1>3 DEF IdleTimerFires
  <2> QED
    BY <1>0, <1>3, <2>1, <2>2, SentIsNumbered
       DEF IdleTimerFires, ReportsKept, ReportsTypeOK
<1>4. CASE ApprovalRequested
  <2>1. State(agentActive, blocked + 1) \in {"working", "blocked", "idle"}
    BY <1>0, StateType
  <2>2. SendsReport(State(agentActive, blocked + 1))
    BY <1>4 DEF ApprovalRequested
  <2>3. blocked' \in 0 .. Approvals
    BY <1>0, <1>4 DEF ApprovalRequested
  <2> QED
    BY <1>0, <1>4, <2>1, <2>2, <2>3, SentIsNumbered
       DEF ApprovalRequested, ReportsKept, ReportsTypeOK
<1>5. CASE ApprovalResolved
  <2>1. blocked' \in 0 .. Approvals
    BY <1>0, <1>5 DEF ApprovalResolved
  <2>2. State(agentActive, blocked') \in {"working", "blocked", "idle"}
    BY <1>0, <2>1, StateType
  <2>3. SendsReport(State(agentActive, blocked'))
    BY <1>5 DEF ApprovalResolved
  <2> QED
    BY <1>0, <1>5, <2>1, <2>2, <2>3, SentIsNumbered
       DEF ApprovalResolved, ReportsKept, ReportsTypeOK
<1>6. CASE JobsChange
  BY <1>0, <1>6 DEF JobsChange, ReportsKept, ReportsTypeOK, sendVars
<1>7. CASE PollJobs
  <2>1. CASE jobs = lastJobsKey
    BY <1>0, <1>7, <2>1 DEF PollJobs, ReportsKept, ReportsTypeOK, sendVars
  <2>2. CASE jobs # lastJobsKey
    <3>1. State(agentActive, blocked) \in {"working", "blocked", "idle"}
      BY <1>0, StateType
    <3>2. SendsReport(State(agentActive, blocked))
      BY <1>7, <2>2 DEF PollJobs
    <3> QED
      BY <1>0, <1>7, <2>2, <3>1, <3>2, SentIsNumbered
         DEF PollJobs, ReportsKept, ReportsTypeOK
  <2> QED
    BY <2>1, <2>2
<1>8. ASSUME NEW r \in flight, ApplyReport(r) PROVE ReportsKept'
  <2>1. agent' \in {agent, r} /\ flight' = flight \ {r}
    BY <1>8 DEF ApplyReport
  <2> QED
    BY <1>0, <1>8, <2>1 DEF ApplyReport, extVars, ReportsKept, ReportsTypeOK
<1>9. ASSUME NEW r \in flight, ReportLost(r) PROVE ReportsKept'
  <2>1. r.no \in 1 .. MaxReports
    BY <1>0 DEF ReportsTypeOK
  <2> QED
    BY <1>0, <1>9, <2>1 DEF ReportLost, extVars, ReportsKept, ReportsTypeOK
<1>10. CASE UNCHANGED reportsVars
  BY <1>0, <1>10 DEF reportsVars, ReportsKept, ReportsTypeOK
<1> QED
  BY <1>1, <1>2, <1>3, <1>4, <1>5, <1>6, <1>7, <1>8, <1>9, <1>10 DEF ReportsNext

(* DaemonTypeOK holds of the four parts at once, whichever of them moves.  *)
THEOREM DaemonTypeCorrect == DaemonSpec => []DaemonTypeOK
<1>1. DaemonInit => DaemonInv
  BY RingInitInv, RegistryInvInit, ReportsKeptInit DEF DaemonInit, DaemonInv
<1>2. DaemonInv /\ [DaemonNext]_<<part, ringVars, pasteVars, registryVars, reportsVars>>
          => DaemonInv'
  <2> SUFFICES ASSUME RingInv, RegistryInv, ReportsKept,
                      [DaemonNext]_<<part, ringVars, pasteVars, registryVars, reportsVars>>
               PROVE  RingInv' /\ RegistryInv' /\ ReportsKept'
    BY DEF DaemonInv
  <2>1. /\ [RingNext]_ringVars
        /\ [RegistryNext]_registryVars
        /\ [ReportsNext]_reportsVars
    BY DEF DaemonNext, RingPart, PastePart, RegistryPart, ReportsPart
  <2>2. RingInv'
    BY <2>1, RingNextInv
  <2>3. RegistryInv'
    BY <2>1, RegistryInvStep
  <2>4. ReportsKept'
    BY <2>1, ReportsKeptStep
  <2> QED
    BY <2>2, <2>3, <2>4
<1>3. DaemonInv => DaemonTypeOK
  BY RingTypes DEF DaemonInv, DaemonTypeOK, RegistryInv, ReportsKept
<1> QED
  BY <1>1, <1>2, <1>3, PTL DEF DaemonSpec
=============================================================================
