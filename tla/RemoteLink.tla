------------------------------ MODULE RemoteLink ------------------------------
(***************************************************************************)
(* The transport of a remote workspace, RemoteDaemonLink.swift: one ssh    *)
(* process forwards the remote daemon's socket, a retry timer and a        *)
(* heartbeat keep it up.  All of it runs on one serial queue, so an action *)
(* is one block of that queue -- boot's blocking ssh calls included -- or  *)
(* a step of the world: an ssh process stalls or exits, a ping ends.       *)
(*                                                                         *)
(* The bootstrap's ssh calls are abstracted to its outcome.  forwardEpoch  *)
(* is not kept: a handler's epoch is current exactly when its process is   *)
(* still `forward`, as every teardown and every open bumps it.  Numbers of *)
(* processes that are gone are used again.                                 *)
(***************************************************************************)
EXTENDS Naturals, FiniteSets

CONSTANTS
    Procs,          \* ssh processes that may exist at once
    NoProc,
    PingMayOutlast, \* may a ping be outstanding when the next is due?
    MaxRequests,    \* bound: reconnect, upgrade and stop requests
    MaxLosses,      \* bound: forwards that stall, exit or are given up
    MaxPings        \* bound: pings outstanding

ASSUME LinkAssumption ==
    /\ IsFiniteSet(Procs) /\ NoProc \notin Procs
    /\ PingMayOutlast \in BOOLEAN
    /\ MaxRequests \in Nat /\ MaxLosses \in Nat /\ MaxPings \in Nat

VARIABLES
    linkState,      \* state
    daemon,         \* is there a SessionDaemon handle?
    stopping,
    forward,        \* the ssh process of this generation
    ssh,            \* what became of each ssh process
    retryScheduled,
    timers,         \* asyncAfter blocks of scheduleRetry to come
    heartbeat,      \* is the heartbeat's timer running?
    heartbeatInFlight,
    heartbeatMisses,
    pings,          \* the process each outstanding ping went through
    upgradePending,
    upgrades, verdicts, \* history: upgradeDaemon's boots, onUpgradeResult's calls
    hopeless,       \* history: boot gave up without a retry
    requests, losses

beatVars == <<heartbeatInFlight, heartbeatMisses, pings>>
retryVars == <<retryScheduled, timers>>
upgradeVars == <<upgradePending, upgrades, verdicts>>
boundVars == <<requests, losses>>
linkVars == <<linkState, daemon, stopping, forward, ssh, retryVars, heartbeat,
              beatVars, upgradeVars, hopeless, boundVars>>

LinkInit ==
    /\ linkState = "connecting"
    /\ daemon = FALSE
    /\ stopping = FALSE
    /\ forward = NoProc
    /\ ssh = [p \in Procs |-> "none"]
    /\ retryScheduled = FALSE /\ timers = 0
    /\ heartbeat = FALSE
    /\ heartbeatInFlight = FALSE /\ heartbeatMisses = 0
    /\ pings = [p \in Procs |-> 0]
    /\ upgradePending = FALSE /\ upgrades = 0 /\ verdicts = 0
    /\ hopeless = FALSE
    /\ requests = 0 /\ losses = 0

-----------------------------------------------------------------------------
Runs(p) == ssh[p] \in {"live", "wedged"}

(* Mutant: the last forward is forgotten and goes on running. *)
TornForgotten == ssh

(* teardownForward: SIGTERM, and SIGKILL for a process that ignores it.    *)
Torn ==
    [p \in Procs |-> IF p = forward /\ Runs(p) THEN "dying" ELSE ssh[p]]

FreeProcs(ps) == {p \in Procs : ps[p] = "none"}
NewProc(ps) == CHOOSE p \in FreeProcs(ps) : TRUE

(* scheduleRetry behind a teardown: single flight by its flag. *)
RetryScheduled(scheduled, n) ==
    /\ linkState' = "failed"
    /\ retryScheduled' = TRUE
    /\ timers' = IF scheduled THEN n ELSE n + 1

(* boot() with no forward up; `scheduled` and `n` are the retry flag and   *)
(* the timers at that point.                                               *)
BootGivesUp(ps, scheduled, n) ==
    /\ linkState' = "failed"
    /\ daemon' = FALSE /\ forward' = NoProc /\ ssh' = ps /\ heartbeat' = FALSE
    /\ retryScheduled' = scheduled /\ timers' = n
    /\ hopeless' = TRUE
    /\ UNCHANGED <<verdicts, heartbeatInFlight, heartbeatMisses>>

(* Unreachable, or the forward or the handshake failed: what was opened is *)
(* torn down again.                                                        *)
BootFails(ps, scheduled, n) ==
    /\ RetryScheduled(scheduled, n)
    /\ daemon' = FALSE /\ forward' = NoProc /\ heartbeat' = FALSE
    /\ \/ ssh' = ps
       \/ /\ FreeProcs(ps) # {}
          /\ ssh' = [ps EXCEPT ![NewProc(ps)] = "dying"]
    /\ hopeless' = FALSE
    /\ UNCHANGED <<verdicts, heartbeatInFlight, heartbeatMisses>>

(* The daemon answered.  An outdated one gets no heartbeat. *)
BootSucceeds(ps, scheduled, n, pending) ==
    /\ linkState' \in {"ready", "outdated"}
    /\ daemon' = TRUE
    /\ FreeProcs(ps) # {}
    /\ forward' = NewProc(ps)
    /\ ssh' = [ps EXCEPT ![NewProc(ps)] = "live"]
    /\ heartbeat' = (linkState' = "ready")
    /\ IF linkState' = "ready"
       THEN heartbeatInFlight' = FALSE /\ heartbeatMisses' = 0
       ELSE UNCHANGED <<heartbeatInFlight, heartbeatMisses>>
    /\ retryScheduled' = scheduled /\ timers' = n
    /\ verdicts' = IF pending THEN verdicts + 1 ELSE verdicts
    /\ hopeless' = FALSE

Boot(ps, scheduled, n, pending) ==
    \/ BootGivesUp(ps, scheduled, n) /\ upgradePending' = pending
    \/ BootFails(ps, scheduled, n) /\ upgradePending' = pending
    \/ BootSucceeds(ps, scheduled, n, pending) /\ upgradePending' = FALSE

-----------------------------------------------------------------------------
(* Requests of the user interface. *)

LinkStart ==
    /\ ~retryScheduled /\ ~daemon /\ ~stopping
    /\ Boot(ssh, retryScheduled, timers, upgradePending)
    /\ UNCHANGED <<stopping, pings, upgrades, boundVars>>

(* stopInner *)
LinkStop ==
    /\ requests < MaxRequests
    /\ requests' = requests + 1
    /\ stopping' = TRUE
    /\ daemon' = FALSE /\ forward' = NoProc /\ ssh' = Torn /\ heartbeat' = FALSE
    /\ UNCHANGED <<linkState, retryVars, beatVars, upgradeVars, hopeless,
                   losses>>

ReconnectNow ==
    /\ requests < MaxRequests
    /\ requests' = requests + 1
    /\ stopping' = FALSE
    /\ Boot(Torn, FALSE, timers, upgradePending)
    /\ UNCHANGED <<pings, upgrades, losses>>

(* Mutant: an upgrade is accepted whatever the state of the link. *)
UpgradeAnytime ==
    /\ requests < MaxRequests
    /\ ~stopping
    /\ requests' = requests + 1
    /\ upgrades' = upgrades + 1
    /\ Boot(Torn, FALSE, timers, TRUE)
    /\ UNCHANGED <<stopping, pings, losses>>

UpgradeDaemon ==
    /\ requests < MaxRequests
    /\ ~stopping
    /\ linkState \in {"outdated", "ready"}
    /\ requests' = requests + 1
    /\ upgrades' = upgrades + 1
    /\ Boot(Torn, FALSE, timers, TRUE)
    /\ UNCHANGED <<stopping, pings, losses>>

AcceptOutdated ==
    /\ linkState = "outdated"
    /\ linkState' = "ready"
    /\ UNCHANGED <<daemon, stopping, forward, ssh, retryVars, heartbeat,
                   beatVars, upgradeVars, hopeless, boundVars>>

-----------------------------------------------------------------------------
(* Timers. *)

(* Mutant: the retry boots over a link that came up in the meantime. *)
RetryAnyway ==
    /\ timers > 0
    /\ IF stopping
       THEN /\ retryScheduled' = FALSE /\ timers' = timers - 1
            /\ UNCHANGED <<linkState, daemon, forward, ssh, heartbeat,
                           heartbeatInFlight, heartbeatMisses, upgradePending,
                           verdicts, hopeless>>
       ELSE Boot(Torn, FALSE, timers - 1, upgradePending)
    /\ UNCHANGED <<stopping, pings, upgrades, boundVars>>

(* Mutant: neither the timer nor boot looks at `stopping`. *)
RetryStopped ==
    /\ timers > 0
    /\ IF daemon
       THEN /\ retryScheduled' = FALSE /\ timers' = timers - 1
            /\ UNCHANGED <<linkState, daemon, forward, ssh, heartbeat,
                           heartbeatInFlight, heartbeatMisses, upgradePending,
                           verdicts, hopeless>>
       ELSE Boot(ssh, FALSE, timers - 1, upgradePending)
    /\ UNCHANGED <<stopping, pings, upgrades, boundVars>>

RetryFires ==
    /\ timers > 0
    /\ IF stopping \/ daemon
       THEN /\ retryScheduled' = FALSE /\ timers' = timers - 1
            /\ UNCHANGED <<linkState, daemon, forward, ssh, heartbeat,
                           heartbeatInFlight, heartbeatMisses, upgradePending,
                           verdicts, hopeless>>
       ELSE Boot(ssh, FALSE, timers - 1, upgradePending)
    /\ UNCHANGED <<stopping, pings, upgrades, boundVars>>

TickDue == heartbeat /\ ~stopping /\ daemon

PingSent ==
    /\ TickDue /\ ~heartbeatInFlight
    /\ pings[forward] < MaxPings
    /\ heartbeatInFlight' = TRUE
    /\ pings' = [pings EXCEPT ![forward] = @ + 1]
    /\ UNCHANGED <<linkState, daemon, stopping, forward, ssh, retryVars,
                   heartbeat, heartbeatMisses, upgradeVars, hopeless,
                   boundVars>>

TickFindsPing ==
    /\ TickDue /\ heartbeatInFlight
    /\ PingMayOutlast

PingMissed ==
    /\ TickFindsPing
    /\ heartbeatMisses = 0
    /\ heartbeatMisses' = 1
    /\ UNCHANGED <<linkState, daemon, stopping, forward, ssh, retryVars,
                   heartbeat, heartbeatInFlight, pings, upgradeVars, hopeless,
                   boundVars>>

(* Mutant: the heartbeat leaves the flag of a retry that was superseded. *)
GivesUpQuietly ==
    /\ TickFindsPing
    /\ heartbeatMisses = 1
    /\ losses < MaxLosses
    /\ losses' = losses + 1
    /\ heartbeatMisses' = 2
    /\ daemon' = FALSE /\ forward' = NoProc /\ ssh' = Torn /\ heartbeat' = FALSE
    /\ linkState' = "failed"
    /\ UNCHANGED <<stopping, heartbeatInFlight, pings, retryVars, upgradeVars,
                   hopeless, requests>>

HeartbeatDead ==
    /\ TickFindsPing
    /\ heartbeatMisses = 1
    /\ losses < MaxLosses
    /\ losses' = losses + 1
    /\ heartbeatMisses' = 2
    /\ daemon' = FALSE /\ forward' = NoProc /\ ssh' = Torn /\ heartbeat' = FALSE
    /\ RetryScheduled(FALSE, timers)
    /\ UNCHANGED <<stopping, heartbeatInFlight, pings, upgradeVars, hopeless,
                   requests>>

(* Only a running forward can carry the answer: the ping's own or, as the  *)
(* socket's path stays the same, the one opened since.                     *)
PingEnds(p) ==
    /\ pings[p] > 0
    /\ pings' = [pings EXCEPT ![p] = @ - 1]
    /\ heartbeatInFlight' = FALSE
    /\ \/ heartbeatMisses' = heartbeatMisses
       \/ /\ \E q \in {p, forward} \ {NoProc} : ssh[q] = "live"
          /\ heartbeatMisses' = 0
    /\ UNCHANGED <<linkState, daemon, stopping, forward, ssh, retryVars,
                   heartbeat, upgradeVars, hopeless, boundVars>>

-----------------------------------------------------------------------------
(* The ssh processes. *)

Wedges(p) ==
    /\ ssh[p] = "live" /\ losses < MaxLosses
    /\ losses' = losses + 1
    /\ ssh' = [ssh EXCEPT ![p] = "wedged"]
    /\ UNCHANGED <<linkState, daemon, stopping, forward, retryVars, heartbeat,
                   beatVars, upgradeVars, hopeless, requests>>

Drops(p) ==
    /\ Runs(p) /\ losses < MaxLosses
    /\ losses' = losses + 1
    /\ ssh' = [ssh EXCEPT ![p] = "exited"]
    /\ UNCHANGED <<linkState, daemon, stopping, forward, retryVars, heartbeat,
                   beatVars, upgradeVars, hopeless, requests>>

(* rebootIfOrphaned *)
HandleExit(p) ==
    /\ ssh[p] \in {"exited", "dying"}
    /\ IF p = forward /\ ~stopping /\ daemon
       THEN Boot([ssh EXCEPT ![p] = "none"], FALSE, timers, upgradePending)
       ELSE /\ ssh' = [ssh EXCEPT ![p] = "none"]
            /\ UNCHANGED <<linkState, daemon, forward, retryVars, heartbeat,
                           heartbeatInFlight, heartbeatMisses, upgradePending,
                           verdicts, hopeless>>
    /\ UNCHANGED <<stopping, pings, upgrades, boundVars>>

-----------------------------------------------------------------------------
LinkRequests ==
    LinkStart \/ LinkStop \/ ReconnectNow \/ UpgradeDaemon \/ AcceptOutdated

LinkRuns ==
    \/ RetryFires \/ PingSent \/ PingMissed \/ HeartbeatDead
    \/ \E p \in Procs : PingEnds(p) \/ HandleExit(p)

LinkWorld == \E p \in Procs : Wedges(p) \/ Drops(p)

LinkNext == LinkRequests \/ LinkRuns \/ LinkWorld

LinkSpec == LinkInit /\ [][LinkNext]_linkVars

(* Timers fire, queue blocks run, pings end and processes that were told   *)
(* to die do.  Of the network: a boot that is retried for ever succeeds.   *)
LinkFairness ==
    /\ WF_linkVars(RetryFires)
    /\ WF_linkVars(PingSent) /\ WF_linkVars(PingMissed) /\ WF_linkVars(HeartbeatDead)
    /\ \A p \in Procs : WF_linkVars(PingEnds(p)) /\ WF_linkVars(HandleExit(p))
    /\ SF_linkVars(RetryFires /\ daemon')

LinkFairSpec == LinkSpec /\ LinkFairness

-----------------------------------------------------------------------------
LinkTypeOK ==
    /\ linkState \in {"connecting", "ready", "failed", "outdated"}
    /\ daemon \in BOOLEAN /\ stopping \in BOOLEAN
    /\ forward \in Procs \cup {NoProc}
    /\ ssh \in [Procs -> {"none", "live", "wedged", "dying", "exited"}]
    /\ retryScheduled \in BOOLEAN /\ timers \in Nat
    /\ heartbeat \in BOOLEAN /\ heartbeatInFlight \in BOOLEAN
    /\ heartbeatMisses \in 0 .. 2
    /\ pings \in [Procs -> 0 .. MaxPings]
    /\ upgradePending \in BOOLEAN /\ upgrades \in Nat /\ verdicts \in Nat
    /\ hopeless \in BOOLEAN
    /\ requests \in 0 .. MaxRequests /\ losses \in 0 .. MaxLosses

(***************************************************************************)
(* No ssh is left behind: a forward that runs is the link's own or has     *)
(* been told to die, and there is a handle exactly while there is a        *)
(* forward -- across retries, reconnects, upgrades and handlers that come  *)
(* late.                                                                   *)
(***************************************************************************)
OneForward ==
    /\ \A p \in Procs : Runs(p) => p = forward
    /\ daemon <=> forward # NoProc
    /\ heartbeat => daemon

(***************************************************************************)
(* "onUpgradeResult fires exactly once per attempt", however many boots    *)
(* fail or are superseded in between.                                      *)
(***************************************************************************)
VerdictPerUpgrade ==
    upgrades = verdicts + (IF upgradePending THEN 1 ELSE 0)

(***************************************************************************)
(* What is left over from earlier generations -- retry timers, exit        *)
(* handlers, pings -- never disturbs a forward that runs and has missed no *)
(* ping: only a request replaces it.                                       *)
(***************************************************************************)
HealthyForwardKept ==
    [][heartbeatMisses = 0 /\ requests' = requests =>
           \A p \in Procs : forward = p /\ ssh[p] = "live" =>
               forward' = p /\ daemon']_linkVars

(***************************************************************************)
(* A stopped link stays down until it is reconnected: nothing that was     *)
(* scheduled before the stop opens a forward behind it.                    *)
(***************************************************************************)
StopHolds ==
    [][stopping /\ stopping' =>
           /\ ~daemon' /\ forward' = NoProc
           /\ \A p \in Procs : ssh'[p] # "live"]_linkVars

(***************************************************************************)
(* A link that is down, or whose forward has exited, comes up again, unless*)
(* it is stopped or boot gives up on purpose.                              *)
(***************************************************************************)
ForwardRuns == \E p \in Procs : forward = p /\ Runs(p)

LinkComesUp ==
    (linkState = "failed" \/ (daemon /\ ~ForwardRuns))
        ~> (ForwardRuns \/ stopping \/ hopeless)

(***************************************************************************)
(* "two consecutive misses (a miss = no answer within the interval) mean   *)
(* the forwarded data path is wedged even though the ssh process is alive  *)
(* -- tear the forward down and reboot": violated, as a ping that gives up *)
(* before the next one is due counts as no miss.                           *)
(***************************************************************************)
WedgeNoticed ==
    \A p \in Procs :
        (forward = p /\ ssh[p] = "wedged" /\ heartbeat)
            ~> ~(forward = p /\ ssh[p] = "wedged")
=============================================================================
