---------------------------- MODULE ClientProofs ----------------------------
(***************************************************************************)
(* Theorems about the GUI's side: the remote link (RemoteLink), an @ai     *)
(* task (AITask) and, with the pane and the registry, the types of all of  *)
(* them (MCClient).                                                        *)
(***************************************************************************)
EXTENDS MCClient, PaneClientProofs, RegistryProofs, FiniteSetTheorems,
        SequenceTheorems, TLAPS

(***************************************************************************)
(* The remote link, for every set of ssh processes, every number of        *)
(* requests, losses and outstanding pings, and every order of the queue's  *)
(* blocks -- whether or not a ping may outlast the heartbeat.              *)
(***************************************************************************)

SshState == {"none", "live", "wedged", "dying", "exited"}

(* An upgrade is only accepted from a link whose last attempt was told.    *)
TellsFirst == linkState \in {"ready", "outdated"} => ~upgradePending

(* A stopped link has no handle, so OneForward says that nothing runs.     *)
StoppedIsDown == stopping => ~daemon

(* The variables boot assigns, and those it leaves alone. *)
BootTypes ==
    /\ linkState \in {"connecting", "ready", "failed", "outdated"}
    /\ daemon \in BOOLEAN /\ forward \in Procs \cup {NoProc}
    /\ ssh \in [Procs -> SshState]
    /\ retryScheduled \in BOOLEAN /\ timers \in Nat
    /\ heartbeat \in BOOLEAN /\ heartbeatInFlight \in BOOLEAN
    /\ heartbeatMisses \in 0 .. 2
    /\ upgradePending \in BOOLEAN /\ verdicts \in Nat
    /\ hopeless \in BOOLEAN

OtherTypes ==
    /\ stopping \in BOOLEAN
    /\ pings \in [Procs -> 0 .. MaxPings]
    /\ upgrades \in Nat
    /\ requests \in 0 .. MaxRequests /\ losses \in 0 .. MaxLosses

LinkInv ==
    /\ BootTypes /\ OtherTypes /\ OneForward /\ VerdictPerUpgrade
    /\ TellsFirst /\ StoppedIsDown

-----------------------------------------------------------------------------
(* boot takes the number of a process that is gone. *)
LEMMA NewProcIsFree ==
    ASSUME NEW ps, FreeProcs(ps) # {}
    PROVE  NewProc(ps) \in Procs /\ ps[NewProc(ps)] = "none"
BY DEF NewProc, FreeProcs

(* After a teardown no process runs. *)
LEMMA TornRunsNothing ==
    ASSUME LinkInv
    PROVE  /\ Torn \in [Procs -> SshState]
           /\ \A p \in Procs : Torn[p] \notin {"live", "wedged"}
BY DEF Torn, Runs, LinkInv, BootTypes, OneForward, SshState

(* Without a handle there is no forward, and no process runs. *)
LEMMA DownRunsNothing ==
    ASSUME LinkInv, ~daemon
    PROVE  \A p \in Procs : ssh[p] \notin {"live", "wedged"}
BY LinkAssumption DEF Runs, LinkInv, BootTypes, OneForward

(* What boot leaves behind, whatever comes of it, when it begins with no   *)
(* process running.                                                        *)
LEMMA BootKeeps ==
    ASSUME LinkInv,
           NEW ps \in [Procs -> SshState],
           \A p \in Procs : ps[p] \notin {"live", "wedged"},
           NEW scheduled \in BOOLEAN, NEW n \in Nat, NEW due \in BOOLEAN,
           Boot(ps, scheduled, n, due)
    PROVE  /\ BootTypes'
           /\ OneForward' /\ TellsFirst'
           /\ verdicts' + (IF upgradePending' THEN 1 ELSE 0)
                  = verdicts + (IF due THEN 1 ELSE 0)
<1>0. /\ heartbeatInFlight \in BOOLEAN /\ heartbeatMisses \in 0 .. 2
      /\ verdicts \in Nat
  BY DEF LinkInv, BootTypes
<1> USE DEF BootTypes
<1>1. CASE BootGivesUp(ps, scheduled, n) /\ upgradePending' = due
  BY <1>0, <1>1 DEF BootGivesUp, OneForward, Runs, TellsFirst
<1>2. CASE BootFails(ps, scheduled, n) /\ upgradePending' = due
  <2>1. \/ ssh' = ps
        \/ FreeProcs(ps) # {} /\ ssh' = [ps EXCEPT ![NewProc(ps)] = "dying"]
    BY <1>2 DEF BootFails
  <2>2. /\ ssh' \in [Procs -> SshState]
        /\ \A p \in Procs : ssh'[p] \notin {"live", "wedged"}
    BY <2>1, NewProcIsFree DEF SshState
  <2>3. /\ linkState' = "failed" /\ retryScheduled' = TRUE
        /\ daemon' = FALSE /\ forward' = NoProc /\ heartbeat' = FALSE
        /\ hopeless' = FALSE /\ upgradePending' = due
        /\ verdicts' = verdicts /\ heartbeatInFlight' = heartbeatInFlight
        /\ heartbeatMisses' = heartbeatMisses
    BY <1>2 DEF BootFails, RetryScheduled
  <2>4. timers' \in Nat
    BY <1>2 DEF BootFails, RetryScheduled
  <2>5. OneForward' /\ TellsFirst'
    BY <2>2, <2>3 DEF OneForward, Runs, TellsFirst
  <2> QED
    BY <1>0, <2>2, <2>3, <2>4, <2>5
<1>3. CASE BootSucceeds(ps, scheduled, n, due) /\ upgradePending' = FALSE
  <2> DEFINE new == NewProc(ps)
  <2>1. /\ new \in Procs /\ new # NoProc
        /\ forward' = new /\ ssh' = [ps EXCEPT ![new] = "live"]
    BY <1>3, NewProcIsFree, LinkAssumption DEF BootSucceeds
  <2> HIDE DEF new
  <2>2. /\ ssh' \in [Procs -> SshState]
        /\ \A p \in Procs : ssh'[p] \in {"live", "wedged"} => p = new
    BY <2>1 DEF SshState
  <2>3. /\ linkState' \in {"ready", "outdated"}
        /\ daemon' = TRUE /\ hopeless' = FALSE /\ upgradePending' = FALSE
        /\ retryScheduled' = scheduled /\ timers' = n
        /\ verdicts' = IF due THEN verdicts + 1 ELSE verdicts
    BY <1>3 DEF BootSucceeds
  <2>4. heartbeat' \in BOOLEAN /\ heartbeatInFlight' \in BOOLEAN
    BY <1>0, <1>3, Zenon DEF BootSucceeds
  <2>5. heartbeatMisses' = 0 \/ heartbeatMisses' = heartbeatMisses
    BY <1>3, Zenon DEF BootSucceeds
  <2>6. heartbeatMisses' \in 0 .. 2
    BY <1>0, <2>5
  <2>7. OneForward' /\ TellsFirst'
    BY <2>1, <2>2, <2>3 DEF OneForward, Runs, TellsFirst
  <2>8. verdicts' \in Nat
    BY <1>0, <2>3
  <2>9. verdicts' + (IF upgradePending' THEN 1 ELSE 0)
            = verdicts + (IF due THEN 1 ELSE 0)
    <3>1. CASE due
      BY <1>0, <2>3, <3>1
    <3>2. CASE ~due
      BY <1>0, <2>3, <3>2
    <3> QED
      BY <3>1, <3>2
  <2> QED
    BY <2>1, <2>2, <2>3, <2>4, <2>6, <2>7, <2>8, <2>9, Zenon
<1> QED
  BY <1>1, <1>2, <1>3 DEF Boot

(* The invariant holds when the link is made. *)
LEMMA LinkInvInit ==
    ASSUME LinkInit
    PROVE  LinkInv
<1> USE DEF LinkInit
<1>1. BootTypes
  <2>1. heartbeatMisses \in 0 .. 2 /\ timers \in Nat /\ verdicts \in Nat
    OBVIOUS
  <2>2. ssh \in [Procs -> SshState]
    BY DEF SshState
  <2> QED
    BY <2>1, <2>2, Zenon DEF BootTypes
<1>2. OtherTypes
  <2>1. /\ requests \in 0 .. MaxRequests /\ losses \in 0 .. MaxLosses
        /\ upgrades \in Nat
    BY LinkAssumption
  <2>2. 0 \in 0 .. MaxPings
    BY LinkAssumption
  <2>3. pings \in [Procs -> 0 .. MaxPings]
    BY <2>2
  <2> QED
    BY <2>1, <2>3, Zenon DEF OtherTypes
<1>3. OneForward /\ TellsFirst /\ StoppedIsDown
  BY DEF OneForward, Runs, TellsFirst, StoppedIsDown
<1>4. VerdictPerUpgrade
  BY DEF VerdictPerUpgrade
<1> QED
  BY <1>1, <1>2, <1>3, <1>4 DEF LinkInv

(* The part of a step's proof that is the same for every boot: what is     *)
(* left to show is that the link was not stopped, or is not any more.      *)
LEMMA BootInv ==
    ASSUME LinkInv,
           NEW ps \in [Procs -> SshState],
           \A p \in Procs : ps[p] \notin {"live", "wedged"},
           NEW scheduled \in BOOLEAN, NEW n \in Nat, NEW due \in BOOLEAN,
           Boot(ps, scheduled, n, due),
           OtherTypes', ~stopping',
           upgrades' = verdicts + (IF due THEN 1 ELSE 0)
    PROVE  LinkInv'
<1>1. /\ BootTypes' /\ OneForward' /\ TellsFirst'
      /\ verdicts' + (IF upgradePending' THEN 1 ELSE 0)
             = verdicts + (IF due THEN 1 ELSE 0)
  BY BootKeeps
<1>2. VerdictPerUpgrade'
  BY <1>1 DEF VerdictPerUpgrade
<1>3. StoppedIsDown'
  BY DEF StoppedIsDown
<1> QED
  BY <1>1, <1>2, <1>3 DEF LinkInv

(* A step that tears the forward down for good, or until the next boot.    *)
LEMMA TornInv ==
    ASSUME LinkInv, BootTypes', OtherTypes',
           UNCHANGED <<upgradePending, upgrades, verdicts>>,
           linkState' \in {linkState, "failed"},
           \A p \in Procs : ssh'[p] \notin {"live", "wedged"},
           ~daemon', forward' = NoProc, ~heartbeat'
    PROVE  LinkInv'
<1>1. OneForward' /\ StoppedIsDown'
  BY DEF OneForward, Runs, StoppedIsDown
<1>2. VerdictPerUpgrade' /\ TellsFirst'
  BY DEF LinkInv, VerdictPerUpgrade, TellsFirst
<1> QED
  BY <1>1, <1>2 DEF LinkInv

(* A step that leaves the forward to itself: what runs behind it ran       *)
(* before.                                                                 *)
LEMMA KeptInv ==
    ASSUME LinkInv, BootTypes', OtherTypes',
           UNCHANGED <<upgradePending, upgrades, verdicts,
                       daemon, forward, heartbeat, stopping>>,
           linkState' = linkState \/ linkState = "outdated",
           \A p \in Procs : ssh'[p] \in {"live", "wedged"} => Runs(p)
    PROVE  LinkInv'
<1>1. OneForward' /\ StoppedIsDown'
  BY DEF LinkInv, OneForward, Runs, StoppedIsDown
<1>2. VerdictPerUpgrade' /\ TellsFirst'
  BY DEF LinkInv, VerdictPerUpgrade, TellsFirst
<1> QED
  BY <1>1, <1>2 DEF LinkInv

(* Every block of the link's queue and every fate of an ssh process keep it, *)
LEMMA LinkInvStep ==
    ASSUME LinkInv, [LinkNext]_linkVars
    PROVE  LinkInv'
<1>0. /\ BootTypes /\ OtherTypes
      /\ OneForward /\ VerdictPerUpgrade /\ TellsFirst /\ StoppedIsDown
  BY DEF LinkInv
<1>a. /\ ssh \in [Procs -> SshState] /\ timers \in Nat
      /\ retryScheduled \in BOOLEAN /\ upgradePending \in BOOLEAN
      /\ FALSE \in BOOLEAN /\ TRUE \in BOOLEAN
  BY <1>0 DEF BootTypes
<1>b. upgrades = verdicts + (IF upgradePending THEN 1 ELSE 0)
  BY <1>0 DEF VerdictPerUpgrade
<1>c. /\ Torn \in [Procs -> SshState]
      /\ \A p \in Procs : Torn[p] \notin {"live", "wedged"}
  BY TornRunsNothing
<1>d. \A p \in Procs : ssh[p] \in {"live", "wedged"} => Runs(p)
  BY DEF Runs
<1>1. CASE LinkStart
  <2>1. \A p \in Procs : ssh[p] \notin {"live", "wedged"}
    BY <1>1, DownRunsNothing DEF LinkStart
  <2>2. Boot(ssh, retryScheduled, timers, upgradePending)
    BY <1>1 DEF LinkStart
  <2>3. OtherTypes' /\ ~stopping' /\ upgrades' = upgrades
    BY <1>0, <1>1 DEF LinkStart, OtherTypes, boundVars
  <2> QED
    BY <1>a, <1>b, <2>1, <2>2, <2>3, BootInv
<1>2. CASE LinkStop
  <2>1. OtherTypes'
    BY <1>0, <1>2, LinkAssumption DEF LinkStop, OtherTypes, beatVars, upgradeVars
  <2>2. BootTypes'
    BY <1>0, <1>2, <1>c DEF LinkStop, BootTypes, retryVars, beatVars, upgradeVars
  <2> QED
    BY <1>2, <1>c, <2>1, <2>2, TornInv DEF LinkStop, upgradeVars
<1>3. CASE ReconnectNow
  <2>0. requests' \in 0 .. MaxRequests
    BY <1>0, <1>3, LinkAssumption DEF ReconnectNow, OtherTypes
  <2>1. OtherTypes' /\ ~stopping' /\ upgrades' = upgrades
    BY <1>0, <1>3, <2>0, Zenon DEF ReconnectNow, OtherTypes
  <2>2. Boot(Torn, FALSE, timers, upgradePending)
    BY <1>3 DEF ReconnectNow
  <2> QED
    BY <1>a, <1>b, <1>c, <2>1, <2>2, BootInv
<1>4. CASE UpgradeDaemon
  <2>1. ~upgradePending
    BY <1>0, <1>4 DEF UpgradeDaemon, TellsFirst
  <2>2. OtherTypes' /\ ~stopping' /\ upgrades' = upgrades + 1
    BY <1>0, <1>4, LinkAssumption DEF UpgradeDaemon, OtherTypes
  <2>3. upgrades' = verdicts + (IF TRUE THEN 1 ELSE 0)
    <3>1. verdicts \in Nat /\ upgrades = verdicts
      BY <1>0, <1>b, <2>1 DEF BootTypes
    <3> QED
      BY <2>2, <3>1
  <2>4. Boot(Torn, FALSE, timers, TRUE)
    BY <1>4 DEF UpgradeDaemon
  <2> QED
    BY <1>a, <1>c, <2>2, <2>3, <2>4, BootInv
<1>5. CASE AcceptOutdated
  <2>1. OtherTypes'
    BY <1>0, <1>5 DEF AcceptOutdated, OtherTypes, beatVars, upgradeVars, boundVars
  <2>2. BootTypes'
    BY <1>0, <1>5 DEF AcceptOutdated, BootTypes, retryVars, beatVars, upgradeVars
  <2> QED
    BY <1>5, <2>1, <2>2, <1>d, KeptInv DEF AcceptOutdated, upgradeVars
<1>6. CASE RetryFires
  <2>1. timers - 1 \in Nat
    BY <1>a, <1>6 DEF RetryFires
  <2>2. OtherTypes' /\ UNCHANGED <<stopping, upgrades>>
    BY <1>0, <1>6 DEF RetryFires, OtherTypes, boundVars
  <2>3. CASE stopping \/ daemon
    <3>1. /\ retryScheduled' = FALSE /\ timers' = timers - 1
          /\ UNCHANGED <<linkState, daemon, forward, ssh, heartbeat,
                         heartbeatInFlight, heartbeatMisses, upgradePending,
                         verdicts, hopeless>>
      BY <1>6, <2>3, Zenon DEF RetryFires
    <3>2. BootTypes'
      BY <1>0, <2>1, <3>1 DEF BootTypes
    <3> QED
      BY <1>d, <2>2, <3>1, <3>2, KeptInv
  <2>4. CASE ~stopping /\ ~daemon
    <3>1. \A p \in Procs : ssh[p] \notin {"live", "wedged"}
      BY <2>4, DownRunsNothing
    <3>2. Boot(ssh, FALSE, timers - 1, upgradePending)
      BY <1>6, <2>4 DEF RetryFires
    <3> QED
      BY <1>a, <1>b, <2>1, <2>2, <2>4, <3>1, <3>2, BootInv
  <2> QED
    BY <2>3, <2>4
<1>7. CASE PingSent
  <2>1. forward \in Procs
    BY <1>0, <1>7 DEF PingSent, TickDue, OneForward, BootTypes
  <2>2. OtherTypes'
    BY <1>0, <1>7, <2>1, LinkAssumption DEF PingSent, OtherTypes, upgradeVars, boundVars
  <2>3. BootTypes'
    BY <1>0, <1>7 DEF PingSent, BootTypes, retryVars, upgradeVars
  <2> QED
    BY <1>7, <2>2, <2>3, <1>d, KeptInv DEF PingSent, upgradeVars
<1>8. CASE PingMissed
  <2>1. OtherTypes'
    BY <1>0, <1>8 DEF PingMissed, OtherTypes, upgradeVars, boundVars
  <2>2. BootTypes'
    BY <1>0, <1>8 DEF PingMissed, BootTypes, retryVars, upgradeVars
  <2> QED
    BY <1>8, <2>1, <2>2, <1>d, KeptInv DEF PingMissed, upgradeVars
<1>9. CASE HeartbeatDead
  <2>1. OtherTypes'
    BY <1>0, <1>9, LinkAssumption DEF HeartbeatDead, OtherTypes, upgradeVars
  <2>2. /\ linkState' = "failed" /\ retryScheduled' = TRUE /\ timers' = timers + 1
        /\ daemon' = FALSE /\ forward' = NoProc /\ ssh' = Torn
        /\ heartbeat' = FALSE /\ heartbeatMisses' = 2
        /\ UNCHANGED <<heartbeatInFlight, upgradePending, upgrades, verdicts, hopeless>>
    BY <1>9 DEF HeartbeatDead, RetryScheduled, upgradeVars
  <2>3. heartbeatMisses' \in 0 .. 2 /\ timers' \in Nat
    BY <1>a, <2>2
  <2>4. BootTypes'
    BY <1>0, <1>c, <2>2, <2>3, Zenon DEF BootTypes
  <2> QED
    BY <1>c, <2>1, <2>2, <2>4, TornInv
<1>10. ASSUME NEW p \in Procs, PingEnds(p) PROVE LinkInv'
  <2>1. OtherTypes'
    BY <1>0, <1>10, LinkAssumption DEF PingEnds, OtherTypes, upgradeVars, boundVars
  <2>2. heartbeatMisses' \in {heartbeatMisses, 0} /\ heartbeatInFlight' = FALSE
    BY <1>10 DEF PingEnds
  <2>3. heartbeatMisses' \in 0 .. 2
    BY <1>0, <2>2 DEF BootTypes
  <2>4. BootTypes'
    BY <1>0, <1>10, <2>2, <2>3 DEF PingEnds, BootTypes, retryVars, upgradeVars
  <2> QED
    BY <1>10, <2>1, <2>4, <1>d, KeptInv DEF PingEnds, upgradeVars
<1>11. ASSUME NEW p \in Procs, HandleExit(p) PROVE LinkInv'
  <2> DEFINE gone == [ssh EXCEPT ![p] = "none"]
  <2>1. /\ gone \in [Procs -> SshState]
        /\ \A q \in Procs : gone[q] \in {"live", "wedged"} => q # p /\ Runs(q)
    BY <1>a DEF Runs, SshState
  <2> HIDE DEF gone
  <2>2. OtherTypes' /\ UNCHANGED <<stopping, upgrades>>
    BY <1>0, <1>11 DEF HandleExit, OtherTypes, boundVars
  <2>3. CASE p = forward /\ ~stopping /\ daemon
    <3>1. \A q \in Procs : gone[q] \notin {"live", "wedged"}
      BY <1>0, <2>1, <2>3 DEF OneForward
    <3>2. Boot(gone, FALSE, timers, upgradePending)
      BY <1>11, <2>3 DEF HandleExit, gone
    <3> QED
      BY <1>a, <1>b, <2>1, <2>2, <2>3, <3>1, <3>2, BootInv
  <2>4. CASE ~(p = forward /\ ~stopping /\ daemon)
    <3>1. /\ ssh' = gone
          /\ UNCHANGED <<linkState, daemon, forward, retryVars, heartbeat,
                         heartbeatInFlight, heartbeatMisses, upgradePending,
                         verdicts, hopeless>>
      BY <1>11, <2>4, Zenon DEF HandleExit, gone
    <3>2. BootTypes'
      BY <1>0, <2>1, <3>1 DEF BootTypes, retryVars
    <3> QED
      BY <2>1, <2>2, <3>1, <3>2, KeptInv
  <2> QED
    BY <2>3, <2>4
<1>12. ASSUME NEW p \in Procs, Wedges(p) PROVE LinkInv'
  <2>1. OtherTypes'
    BY <1>0, <1>12, LinkAssumption DEF Wedges, OtherTypes, beatVars, upgradeVars
  <2>2. ssh' \in [Procs -> SshState] /\ \A q \in Procs : ssh'[q] \in {"live", "wedged"} => Runs(q)
    BY <1>a, <1>12 DEF Wedges, Runs, SshState
  <2>3. BootTypes'
    BY <1>0, <1>12, <2>2 DEF Wedges, BootTypes, retryVars, beatVars, upgradeVars
  <2> QED
    BY <1>12, <2>1, <2>2, <2>3, KeptInv DEF Wedges, upgradeVars
<1>13. ASSUME NEW p \in Procs, Drops(p) PROVE LinkInv'
  <2>1. OtherTypes'
    BY <1>0, <1>13, LinkAssumption DEF Drops, OtherTypes, beatVars, upgradeVars
  <2>2. ssh' \in [Procs -> SshState] /\ \A q \in Procs : ssh'[q] \in {"live", "wedged"} => Runs(q)
    BY <1>a, <1>13 DEF Drops, Runs, SshState
  <2>3. BootTypes'
    BY <1>0, <1>13, <2>2 DEF Drops, BootTypes, retryVars, beatVars, upgradeVars
  <2> QED
    BY <1>13, <2>1, <2>2, <2>3, KeptInv DEF Drops, upgradeVars
<1>14. CASE UNCHANGED linkVars
  BY <1>0, <1>14 DEF linkVars, LinkInv, BootTypes, OtherTypes, OneForward, Runs,
                     VerdictPerUpgrade, TellsFirst, StoppedIsDown,
                     retryVars, beatVars, upgradeVars, boundVars
<1> QED
  BY <1>1, <1>2, <1>3, <1>4, <1>5, <1>6, <1>7, <1>8, <1>9, <1>10, <1>11,
     <1>12, <1>13, <1>14
     DEF LinkNext, LinkRequests, LinkRuns, LinkWorld

(* so it always holds. *)
LEMMA LinkInvariant == LinkSpec => []LinkInv
<1>1. LinkInit => LinkInv
  BY LinkInvInit
<1>2. LinkInv /\ [LinkNext]_linkVars => LinkInv'
  BY LinkInvStep
<1> QED
  BY <1>1, <1>2, PTL DEF LinkSpec

-----------------------------------------------------------------------------
(* RemoteDaemonLink leaves no ssh behind: whatever runs is the forward of  *)
(* the current generation, and a handle exists exactly while there is one. *)
THEOREM NoSshLeftBehind == LinkSpec => []OneForward
<1>1. LinkInv => OneForward
  BY DEF LinkInv
<1> QED
  BY <1>1, LinkInvariant, PTL

(* upgradeDaemon: every accepted attempt is answered once by               *)
(* onUpgradeResult, or is the one still pending.                           *)
THEOREM UpgradesAreTold == LinkSpec => []VerdictPerUpgrade
<1>1. LinkInv => VerdictPerUpgrade
  BY DEF LinkInv
<1> QED
  BY <1>1, LinkInvariant, PTL

(* stopInner: no retry timer, exit handler or ping scheduled before a stop *)
(* opens a forward behind it.                                              *)
THEOREM StopIsFinal == LinkSpec => StopHolds
<1>1. LinkInv' => (stopping /\ stopping' =>
                       /\ ~daemon' /\ forward' = NoProc
                       /\ \A p \in Procs : ssh'[p] # "live")
  BY LinkAssumption DEF LinkInv, LinkTypeOK, OneForward, Runs, StoppedIsDown
<1> QED
  BY <1>1, LinkInvariant, PTL DEF StopHolds, LinkSpec

(* The daemon guard of scheduleRetry's timer and the current-generation    *)
(* guard of rebootIfOrphaned: a leftover of an earlier generation never    *)
(* disturbs a forward that runs and has missed no ping.                    *)
THEOREM HealthyForwardStays == LinkSpec => HealthyForwardKept
<1> DEFINE Kept == heartbeatMisses = 0 /\ requests' = requests =>
                       \A p \in Procs : forward = p /\ ssh[p] = "live" =>
                           forward' = p /\ daemon'
<1>1. LinkInv /\ [LinkNext]_linkVars => Kept
  <2> SUFFICES ASSUME LinkInv, [LinkNext]_linkVars,
                      heartbeatMisses = 0, requests' = requests,
                      NEW p \in Procs, forward = p, ssh[p] = "live"
               PROVE  forward' = p /\ daemon'
    OBVIOUS
  <2>a. daemon /\ ~stopping
    BY LinkAssumption DEF LinkInv, OneForward, StoppedIsDown
  <2>0. requests \in Nat /\ requests + 1 # requests
    BY LinkAssumption DEF LinkInv, OtherTypes
  <2>1. CASE LinkRequests
    BY <2>a, <2>0, <2>1, Zenon
       DEF LinkRequests, LinkStart, LinkStop, ReconnectNow, UpgradeDaemon,
           AcceptOutdated
  <2>2. CASE LinkRuns
    <3>1. CASE RetryFires \/ PingSent \/ PingMissed
      BY <2>a, <3>1, Zenon DEF RetryFires, PingSent, PingMissed
    <3>4. ~HeartbeatDead
      BY DEF HeartbeatDead
    <3>2. ASSUME NEW q \in Procs, PingEnds(q) PROVE forward' = p /\ daemon'
      BY <2>a, <3>2 DEF PingEnds
    <3>3. ASSUME NEW q \in Procs, HandleExit(q) PROVE forward' = p /\ daemon'
      <4>1. q # p
        BY <3>3 DEF HandleExit
      <4> QED
        BY <2>a, <3>3, <4>1 DEF HandleExit
    <3> QED
      BY <2>2, <3>1, <3>2, <3>3, <3>4 DEF LinkRuns
  <2>3. CASE LinkWorld
    BY <2>a, <2>3 DEF LinkWorld, Wedges, Drops
  <2>4. CASE UNCHANGED linkVars
    BY <2>a, <2>4 DEF linkVars
  <2> QED
    BY <2>1, <2>2, <2>3, <2>4 DEF LinkNext
<1> QED
  BY <1>1, LinkInvariant, PTL DEF HealthyForwardKept, LinkSpec

(***************************************************************************)
(* An @ai task, for every budget, every bound on what the user does and    *)
(* every order of late completions.                                        *)
(***************************************************************************)

-----------------------------------------------------------------------------
(* Numbers. *)

(* However much was granted so far, it is no more than can be granted. *)
LEMMA GrantedBound ==
    ASSUME NEW g \in 0 .. MaxGrants
    PROVE  /\ MaxCalls \in Nat
           /\ Budget + Grant * g \in Nat
           /\ Budget + Grant * g <= MaxCalls
<1>1. /\ Budget \in Nat /\ Grant \in Nat /\ MaxGrants \in Nat /\ g \in Nat
      /\ MaxGrants - g \in Nat
  BY TaskAssumption
<1>2. Grant * MaxGrants = Grant * g + Grant * (MaxGrants - g)
  BY <1>1
<1>3. Grant * g \in Nat /\ Grant * (MaxGrants - g) \in Nat
  BY <1>1
<1> QED
  BY <1>1, <1>2, <1>3 DEF MaxCalls

(* A grant more. *)
LEMMA GrantOneMore ==
    ASSUME NEW g \in Nat
    PROVE  Budget + Grant * (g + 1) = Budget + Grant * g + Grant
<1>1. Budget \in Nat /\ Grant \in Nat
  BY TaskAssumption
<1>2. Grant * (g + 1) = Grant * g + Grant /\ Grant * g \in Nat
  BY <1>1
<1> QED
  BY <1>1, <1>2

(* There is a number no outstanding callback has. *)
LEMMA FreeNumberFree ==
    ASSUME NEW rest, IsFiniteSet(rest)
    PROVE  /\ FreeNumber(rest) \in Nat \ {0}
           /\ \A o \in rest : o.n # FreeNumber(rest)
<1> DEFINE N == Cardinality(rest) + 1
<1>1. Cardinality(rest) \in Nat
  BY FS_CardinalityType
<1>2. \E n \in 1 .. N : \A o \in rest : o.n # n
  <2> SUFFICES ASSUME \A n \in 1 .. N : \E o \in rest : o.n = n
               PROVE  FALSE
    OBVIOUS
  <2> DEFINE f == [n \in 1 .. N |-> CHOOSE o \in rest : o.n = n]
  <2>1. \A n \in 1 .. N : f[n] \in rest /\ f[n].n = n
    OBVIOUS
  <2>2. f \in [1 .. N -> rest]
    BY <2>1
  <2>3. IsFiniteSet(1 .. N) /\ Cardinality(1 .. N) = N
    BY <1>1, FS_Interval
  <2>4. Cardinality(rest) < Cardinality(1 .. N)
    BY <1>1, <2>3
  <2> DEFINE S == 1 .. N
  <2>5. IsFiniteSet(S) /\ Cardinality(rest) < Cardinality(S) /\ f \in [S -> rest]
    BY <2>2, <2>3, <2>4
  <2> HIDE DEF f, N, S
  <2>6. \E x, y \in S : x # y /\ f[x] = f[y]
    BY <2>5, FS_PigeonHole, SMTT(30)
  <2> QED
    BY <2>1, <2>6 DEF S
<1>3. FreeNumber(rest) \in 1 .. N /\ \A o \in rest : o.n # FreeNumber(rest)
  BY <1>2 DEF FreeNumber
<1> QED
  BY <1>1, <1>3

-----------------------------------------------------------------------------
(* The wire: how many calls it holds, and how that grows. *)

CallsIn(w) == {i \in DOMAIN w : w[i].role = "call"}

(* The calls of a finite wire are finitely many. *)
LEMMA CallsFinite ==
    ASSUME NEW w \in Seq(Message)
    PROVE  /\ IsFiniteSet(CallsIn(w))
           /\ CallsIn(w) \subseteq 1 .. Len(w)
           /\ Cardinality(CallsIn(w)) \in Nat
<1>1. DOMAIN w = 1 .. Len(w) /\ Len(w) \in Nat
  OBVIOUS
<1>2. IsFiniteSet(1 .. Len(w))
  BY <1>1, FS_Interval
<1>3. CallsIn(w) \in SUBSET (1 .. Len(w))
  BY <1>1 DEF CallsIn
<1> QED
  BY <1>2, <1>3, FS_Subset, FS_CardinalityType

(* A call counts, any other message does not. *)
LEMMA CallsAppend ==
    ASSUME NEW w \in Seq(Message), NEW m \in Message
    PROVE  Cardinality(CallsIn(Append(w, m))) =
             IF m.role = "call" THEN Cardinality(CallsIn(w)) + 1
                                ELSE Cardinality(CallsIn(w))
<1> DEFINE v == Append(w, m)
           n == Len(w) + 1
<1>1. /\ v \in Seq(Message) /\ Len(v) = n /\ Len(w) \in Nat
      /\ \A i \in 1 .. Len(w) : v[i] = w[i]
      /\ v[n] = m
  BY AppendProperties
<1>2. DOMAIN v = 1 .. n /\ DOMAIN w = 1 .. Len(w)
  BY <1>1
<1>3. 1 .. n = (1 .. Len(w)) \cup {n} /\ n \notin 1 .. Len(w)
  BY <1>1
<1> HIDE DEF v, n
<1>4. CASE m.role = "call"
  <2>1. CallsIn(v) = CallsIn(w) \cup {n}
    BY <1>1, <1>2, <1>3, <1>4 DEF CallsIn
  <2>2. n \notin CallsIn(w)
    BY <1>3, CallsFinite
  <2> QED
    BY <1>4, <2>1, <2>2, CallsFinite, FS_AddElement DEF v
<1>5. CASE m.role # "call"
  <2>1. CallsIn(v) = CallsIn(w)
    BY <1>1, <1>2, <1>3, <1>5 DEF CallsIn
  <2> QED
    BY <1>5, <2>1 DEF v
<1> QED
  BY <1>4, <1>5

(* Requests, calls and results are messages. *)
LEMMA Messages ==
    /\ User \in Message /\ User.role = "user"
    /\ \A c \in Nat : /\ ToolCall(c) \in Message /\ ToolCall(c).role = "call"
                      /\ ToolResult(c) \in Message /\ ToolResult(c).role = "tool"
BY DEF User, ToolCall, ToolResult, Message

(* A wire that begins with the request holds no call. *)
LEMMA CallsNone ==
    /\ <<>> \in Seq(Message) /\ Cardinality(CallsIn(<<>>)) = 0
    /\ <<User>> \in Seq(Message) /\ Cardinality(CallsIn(<<User>>)) = 0
<1>1. <<>> \in Seq(Message) /\ DOMAIN <<>> = {}
  OBVIOUS
<1>2. CallsIn(<<>>) = {}
  BY <1>1 DEF CallsIn
<1>3. Cardinality(CallsIn(<<>>)) = 0
  BY <1>2, FS_EmptySet
<1>4. <<User>> = Append(<<>>, User)
  OBVIOUS
<1>5. Cardinality(CallsIn(Append(<<>>, User))) = Cardinality(CallsIn(<<>>))
  BY <1>1, CallsAppend, Messages
<1> QED
  BY <1>1, <1>3, <1>4, <1>5, Messages

-----------------------------------------------------------------------------
(* The inductive invariant: the conversation, the counters, the proposals. *)

CallbackOK(o) ==
    /\ o.n \in Nat \ {0} /\ o.call \in 0 .. MaxCalls
    /\ o.kind \in {"probe", "turn", "tool", "op"}
    /\ o.ask \in Seq(Message)

(* A model turn is never outstanding on a wire that is still nil: so every *)
(* call that is charged is also written down.                              *)
ConversationOK ==
    /\ IsFiniteSet(out) /\ \A o \in out : CallbackOK(o)
    /\ inFlightStream \in Nat
    /\ wire \in Seq(Message)
    /\ Cardinality(CallsIn(wire)) = calls
    /\ \A o \in out : o.kind = "turn" => wire # <<>>

CountersOK ==
    /\ phase \in Active \cup {"idle", "completed", "failed", "cancelled"}
    /\ budget \in Nat /\ calls \in Nat
    /\ grants \in 0 .. MaxGrants /\ followUps \in 0 .. MaxFollowUps
    /\ edits \in 0 .. MaxEdits
    /\ revived \in BOOLEAN
    /\ calls + budget = Budget + Grant * grants

(* A proposal that was not put to the user yet has not run, nor has the    *)
(* one that waits for the user.                                            *)
ProposalsOK ==
    /\ pending \in Proposal \cup {None} /\ pendingCall \in 0 .. MaxCalls
    /\ offered \in Nat /\ offered <= calls + edits
    /\ pending <= offered
    /\ runs \in [Proposal -> Nat]
    /\ \A p \in Proposal : runs[p] <= 1 /\ (p > offered => runs[p] = 0)
    /\ phase = "awaiting" /\ pending # None => runs[pending] = 0

TaskInv == ConversationOK /\ CountersOK /\ ProposalsOK

(* The counters stay within their bounds. *)
LEMMA CountersBound ==
    ASSUME CountersOK
    PROVE  /\ MaxCalls \in Nat /\ calls + budget <= MaxCalls
           /\ calls \in 0 .. MaxCalls /\ budget \in 0 .. MaxCalls
<1>1. /\ MaxCalls \in Nat
      /\ Budget + Grant * grants \in Nat
      /\ Budget + Grant * grants <= MaxCalls
  BY GrantedBound DEF CountersOK
<1>2. calls \in Nat /\ budget \in Nat /\ calls + budget = Budget + Grant * grants
  BY DEF CountersOK
<1>3. calls + budget <= MaxCalls
  BY <1>1, <1>2
<1> QED
  BY <1>1, <1>2, <1>3

(* Callbacks are only dropped. *)
LEMMA ConversationShrinks ==
    ASSUME ConversationOK, out' \subseteq out, inFlightStream' \in Nat,
           wire' \in Seq(Message), Cardinality(CallsIn(wire')) = calls',
           wire' = <<>> => wire = <<>>
    PROVE  ConversationOK'
<1>1. IsFiniteSet(out')
  BY FS_Subset DEF ConversationOK
<1>2. \A o \in out' : CallbackOK(o) /\ (o.kind = "turn" => wire' # <<>>)
  BY DEF ConversationOK
<1> QED
  BY <1>1, <1>2 DEF ConversationOK, CallbackOK

(* The probe, a tool or an operation is awaited. *)
LEMMA ConversationAwaits ==
    ASSUME ConversationOK, NEW rest \in SUBSET out,
           NEW kind \in {"probe", "tool", "op"}, NEW call \in 0 .. MaxCalls,
           Awaits(rest, kind, call), inFlightStream' \in Nat,
           wire' \in Seq(Message), Cardinality(CallsIn(wire')) = calls',
           wire' = <<>> => wire = <<>>
    PROVE  ConversationOK'
<1> DEFINE cb == Callback(FreeNumber(rest), kind, call, <<>>)
<1>1. IsFiniteSet(rest)
  BY FS_Subset DEF ConversationOK
<1>2. FreeNumber(rest) \in Nat \ {0}
  BY <1>1, FreeNumberFree
<1>3. CallbackOK(cb) /\ cb.kind # "turn"
  BY <1>2, CallsNone DEF CallbackOK, Callback
<1>4. out' = rest \cup {cb}
  BY DEF Awaits
<1> HIDE DEF cb
<1>5. IsFiniteSet(out')
  BY <1>1, <1>4, FS_AddElement
<1>6. \A o \in out' : CallbackOK(o) /\ (o.kind = "turn" => wire' # <<>>)
  BY <1>3, <1>4 DEF ConversationOK
<1> QED
  BY <1>5, <1>6 DEF ConversationOK, CallbackOK

(* The model is asked. *)
LEMMA ConversationSteps ==
    ASSUME ConversationOK, CountersOK, NEW rest \in SUBSET out,
           NEW w \in Seq(Message), Steps(rest, w),
           Cardinality(CallsIn(w)) = calls'
    PROVE  ConversationOK' /\ wire' # <<>>
<1> DEFINE ask == IF w = <<>> THEN <<User>> ELSE w
           n == FreeNumber(rest)
           cb == Callback(n, "turn", None, ask)
<1>1. IsFiniteSet(rest)
  BY FS_Subset DEF ConversationOK
<1>2. n \in Nat \ {0}
  BY <1>1, FreeNumberFree
<1>3. /\ ask \in Seq(Message) /\ ask # <<>>
      /\ Cardinality(CallsIn(ask)) = Cardinality(CallsIn(w))
  BY CallsNone
<1>4. 0 \in 0 .. MaxCalls
  BY CountersBound
<1>5. CallbackOK(cb)
  BY <1>2, <1>3, <1>4 DEF CallbackOK, Callback, None
<1>6. out' = rest \cup {cb} /\ wire' = ask /\ inFlightStream' = n
  BY DEF Steps
<1> HIDE DEF cb, ask, n
<1>7. IsFiniteSet(out')
  BY <1>1, <1>6, FS_AddElement
<1>8. \A o \in out' : CallbackOK(o) /\ wire' # <<>>
  BY <1>3, <1>5, <1>6 DEF ConversationOK
<1> QED
  BY <1>2, <1>3, <1>6, <1>7, <1>8 DEF ConversationOK, CallbackOK

(* A message on the wire; a call is counted where the wire is not nil. *)
LEMMA AppendedWire ==
    ASSUME ConversationOK, NEW m \in Message
    PROVE  /\ Appended(m) \in Seq(Message)
           /\ Appended(m) = <<>> <=> wire = <<>>
           /\ m.role # "call" => Cardinality(CallsIn(Appended(m))) = calls
           /\ wire # <<>> /\ m.role = "call" =>
                  Cardinality(CallsIn(Appended(m))) = calls + 1
<1>1. wire \in Seq(Message) /\ Cardinality(CallsIn(wire)) = calls
  BY DEF ConversationOK
<1>2. CASE wire = <<>>
  BY <1>1, <1>2 DEF Appended
<1>3. CASE wire # <<>>
  <2>1. Appended(m) = Append(wire, m)
    BY <1>3 DEF Appended
  <2>2. Append(wire, m) \in Seq(Message) /\ Append(wire, m) # <<>>
    BY <1>1, AppendProperties
  <2> QED
    BY <1>1, <1>3, <2>1, <2>2, CallsAppend
<1> QED
  BY <1>2, <1>3

(* Nothing is put to the user and nothing is executed. *)
LEMMA ProposalsKept ==
    ASSUME ProposalsOK, CountersOK, UNCHANGED <<offered, runs, edits>>,
           calls' \in {calls, calls + 1},
           pending' \in {pending, None}, pendingCall' \in {pendingCall, None},
           phase' = "awaiting" => phase = "awaiting" /\ pending' = pending
    PROVE  ProposalsOK'
<1>1. MaxCalls \in Nat /\ calls \in Nat /\ edits \in Nat
  BY CountersBound DEF CountersOK
<1>2. offered' \in Nat /\ offered' <= calls' + edits'
  <2>1. /\ offered' = offered /\ edits' = edits
        /\ offered \in Nat /\ offered <= calls + edits
    BY DEF ProposalsOK
  <2>2. CASE calls' = calls
    BY <2>1, <2>2
  <2>3. CASE calls' = calls + 1
    BY <1>1, <2>1, <2>3
  <2> QED
    BY <2>2, <2>3
<1>3. /\ pending' \in Proposal \cup {None}
      /\ pendingCall' \in 0 .. MaxCalls /\ pending' <= offered'
  BY <1>1 DEF ProposalsOK, None
<1>4. /\ runs' \in [Proposal -> Nat]
      /\ \A p \in Proposal : runs'[p] <= 1 /\ (p > offered' => runs'[p] = 0)
  BY DEF ProposalsOK
<1>5. phase' = "awaiting" /\ pending' # None => runs'[pending'] = 0
  BY DEF ProposalsOK
<1> QED
  BY <1>2, <1>3, <1>4, <1>5 DEF ProposalsOK

(* A new proposal waits for the user: it has not run. *)
LEMMA NextProposal ==
    ASSUME ProposalsOK, offered + 1 \in Proposal, UNCHANGED runs,
           offered' = offered + 1, pending' = offered + 1,
           pendingCall' \in 0 .. MaxCalls,
           offered' <= calls' + edits'
    PROVE  ProposalsOK'
<1>1. offered \in Nat /\ offered + 1 > offered
  BY DEF ProposalsOK
<1>2. runs[offered + 1] = 0
  BY <1>1 DEF ProposalsOK
<1>3. \A p \in Proposal : p \in Nat
  BY CountersBound, TaskAssumption DEF Proposal
<1>4. \A p \in Proposal : runs[p] <= 1 /\ (p > offered + 1 => runs[p] = 0)
  BY <1>1, <1>3 DEF ProposalsOK
<1> QED
  BY <1>1, <1>2, <1>4 DEF ProposalsOK

(* A call is charged. *)
LEMMA CountersSpend ==
    ASSUME CountersOK, NEW o, SpendsRound(o), UNCHANGED userVars,
           phase' \in Active \cup {"idle", "completed", "failed", "cancelled"}
    PROVE  /\ CountersOK' /\ calls' = calls + 1
           /\ calls + 1 \in 0 .. MaxCalls /\ calls + 1 \in Nat
<1>1. /\ budget \in Nat /\ budget > 0 /\ budget' = budget - 1
      /\ calls' = calls + 1 /\ calls \in Nat
      /\ MaxCalls \in Nat /\ calls + budget <= MaxCalls
      /\ calls + budget = Budget + Grant * grants
      /\ grants' = grants
  BY CountersBound DEF CountersOK, SpendsRound, userVars
<1>2. calls' + budget' = calls + budget /\ calls' \in Nat /\ budget' \in Nat
  BY <1>1
<1>3. calls' + budget' = Budget + Grant * grants'
  BY <1>1, <1>2
<1>4. calls + 1 \in 0 .. MaxCalls
  BY <1>1
<1> QED
  BY <1>1, <1>2, <1>3, <1>4 DEF CountersOK, userVars

(* A fresh task has asked for nothing. *)
LEMMA TaskInvInit ==
    ASSUME TaskInit
    PROVE  TaskInv
<1>1. /\ Budget \in Nat /\ Grant \in Nat /\ MaxGrants \in Nat
      /\ MaxFollowUps \in Nat /\ MaxEdits \in Nat
  BY TaskAssumption
<1>2. 0 \in 0 .. MaxGrants /\ 0 \in 0 .. MaxFollowUps /\ 0 \in 0 .. MaxEdits
  BY <1>1
<1>3. MaxCalls \in Nat /\ Grant * 0 = 0
  BY <1>1, <1>2, GrantedBound
<1>4. ConversationOK
  BY CallsNone, FS_EmptySet DEF TaskInit, ConversationOK, None
<1>5. CountersOK
  <2>1. phase = "idle" /\ budget = Budget /\ calls = 0 /\ grants = 0
        /\ followUps = 0 /\ edits = 0 /\ revived = FALSE
    BY DEF TaskInit
  <2>2. 0 + Budget = Budget + Grant * 0
    BY <1>1, <1>3
  <2> QED
    BY <1>1, <1>2, <2>1, <2>2 DEF CountersOK
<1>6. ProposalsOK
  BY <1>3 DEF TaskInit, ProposalsOK, None
<1> QED
  BY <1>4, <1>5, <1>6 DEF TaskInv

(* Every block of the coordinator's queue keeps the invariant. *)
LEMMA TaskInvStep ==
    ASSUME TaskInv, [TaskNext]_taskVars
    PROVE  TaskInv'
<1> DEFINE Phases == Active \cup {"idle", "completed", "failed", "cancelled"}
<1>0. ConversationOK /\ CountersOK /\ ProposalsOK
  BY DEF TaskInv
<1>a. /\ wire \in Seq(Message) /\ Cardinality(CallsIn(wire)) = calls
      /\ inFlightStream \in Nat /\ calls \in Nat /\ out \in SUBSET out
      /\ 0 \in 0 .. MaxCalls /\ pendingCall \in 0 .. MaxCalls /\ 0 \in Nat
  BY <1>0, CountersBound DEF ConversationOK, CountersOK, ProposalsOK
<1>1. CASE Start
  <2>1. /\ phase' = "thinking" /\ Awaits(out, "probe", None)
        /\ UNCHANGED <<wire, inFlightStream, pending, pendingCall, offered, runs,
                       budget, calls, grants, followUps, edits, revived>>
    BY <1>1 DEF Start, proposalVars, userVars
  <2>2. ConversationOK'
    BY <1>0, <1>a, <2>1, ConversationAwaits DEF None
  <2>3. CountersOK'
    BY <1>0, <2>1 DEF CountersOK, Active
  <2>4. ProposalsOK'
    BY <1>0, <2>1, ProposalsKept
  <2> QED
    BY <2>2, <2>3, <2>4 DEF TaskInv
<1>2. CASE Confirm
  <2>1. /\ phase = "awaiting" /\ pending # None
        /\ phase' = "executing" /\ Awaits(out, "op", pendingCall)
        /\ runs' = [runs EXCEPT ![pending] = @ + 1]
        /\ UNCHANGED <<wire, inFlightStream, pending, pendingCall, offered,
                       budget, calls, grants, followUps, edits, revived>>
    BY <1>2 DEF Confirm, userVars
  <2>2. ConversationOK'
    BY <1>0, <1>a, <2>1, ConversationAwaits
  <2>3. CountersOK'
    BY <1>0, <2>1 DEF CountersOK, Active
  <2>4. pending \in Proposal /\ runs[pending] = 0 /\ runs \in [Proposal -> Nat]
    BY <1>0, <2>1 DEF ProposalsOK
  <2>5. pending \in Nat /\ offered \in Nat /\ pending <= offered /\ ~(pending > offered)
    BY <1>0, <2>4, CountersBound, TaskAssumption DEF ProposalsOK, Proposal
  <2>6. /\ runs' \in [Proposal -> Nat]
        /\ \A p \in Proposal : runs'[p] = IF p = pending THEN 1 ELSE runs[p]
    BY <2>1, <2>4
  <2>7. \A p \in Proposal : runs'[p] <= 1 /\ (p > offered => runs'[p] = 0)
    BY <1>0, <2>5, <2>6 DEF ProposalsOK
  <2>8. ProposalsOK'
    BY <1>0, <2>1, <2>6, <2>7 DEF ProposalsOK
  <2> QED
    BY <2>2, <2>3, <2>8 DEF TaskInv
<1>3. CASE Edit
  <2>1. /\ phase = "awaiting" /\ edits < MaxEdits
        /\ offered' = offered + 1 /\ pending' = offered + 1 /\ edits' = edits + 1
        /\ UNCHANGED <<phase, wire, out, inFlightStream, pendingCall, runs,
                       budget, calls, grants, followUps, revived>>
    BY <1>3 DEF Edit
  <2>2. ConversationOK'
    BY <1>0, <1>a, <2>1, ConversationShrinks
  <2>3. edits \in Nat /\ MaxEdits \in Nat /\ edits' \in 0 .. MaxEdits
    BY <1>0, <2>1, TaskAssumption DEF CountersOK
  <2>4. CountersOK'
    BY <1>0, <2>1, <2>3 DEF CountersOK
  <2>5. ProposalsOK'
    <3>1. offered' <= calls' + edits' /\ offered' \in Nat
      BY <1>0, <1>a, <2>1, <2>3 DEF ProposalsOK
    <3>2. calls <= MaxCalls /\ MaxCalls \in Nat
      BY <1>0, CountersBound
    <3>3. offered + 1 \in Proposal
      <4>1. offered + 1 <= calls + (edits + 1)
        BY <2>1, <3>1
      <4> QED
        BY <1>0, <1>a, <2>1, <2>3, <3>2, <4>1 DEF Proposal, ProposalsOK
    <3> QED
      BY <1>0, <1>a, <2>1, <3>1, <3>3, NextProposal
  <2> QED
    BY <2>2, <2>4, <2>5 DEF TaskInv
<1>4. CASE Cancel
  <2>1. /\ phase \in Active /\ phase' = "cancelled" /\ inFlightStream' = None
        /\ out' \subseteq out
        /\ UNCHANGED <<wire, pending, pendingCall, offered, runs, budget, calls,
                       grants, followUps, edits, revived>>
    BY <1>4 DEF Cancel, proposalVars, userVars
  <2>2. ConversationOK'
    BY <1>0, <1>a, <2>1, ConversationShrinks DEF None
  <2>3. CountersOK'
    BY <1>0, <2>1 DEF CountersOK
  <2>4. ProposalsOK'
    BY <1>0, <2>1, ProposalsKept
  <2> QED
    BY <2>2, <2>3, <2>4 DEF TaskInv
<1>5. CASE ContinueBudget
  <2>1. /\ grants < MaxGrants /\ grants' = grants + 1 /\ budget' = budget + Grant
        /\ phase' = "thinking" /\ Steps(out, wire)
        /\ UNCHANGED <<pending, pendingCall, offered, runs, calls, followUps,
                       edits, revived>>
    BY <1>5 DEF ContinueBudget, proposalVars
  <2>2. ConversationOK'
    BY <1>0, <1>a, <2>1, ConversationSteps
  <2>3. CountersOK'
    <3>1. /\ grants \in Nat /\ MaxGrants \in Nat /\ Grant \in Nat /\ budget \in Nat
          /\ grants' \in 0 .. MaxGrants
      BY <1>0, <2>1, TaskAssumption DEF CountersOK
    <3>2. Budget + Grant * grants' = Budget + Grant * grants + Grant
      BY <2>1, <3>1, GrantOneMore
    <3>3. calls + (budget + Grant) = (calls + budget) + Grant /\ budget' \in Nat
      BY <1>a, <2>1, <3>1
    <3>4. calls' + budget' = Budget + Grant * grants'
      BY <1>0, <2>1, <3>2, <3>3 DEF CountersOK
    <3> QED
      BY <1>0, <2>1, <3>1, <3>3, <3>4 DEF CountersOK, Active
  <2>4. ProposalsOK'
    BY <1>0, <2>1, ProposalsKept
  <2> QED
    BY <2>2, <2>3, <2>4 DEF TaskInv
<1>6. CASE ContinueSession
  <2>1. /\ followUps < MaxFollowUps /\ followUps' = followUps + 1
        /\ revived' = (revived \/ phase = "cancelled")
        /\ phase' = "thinking" /\ Steps(out, Appended(User))
        /\ UNCHANGED <<pending, pendingCall, offered, runs, budget, calls,
                       grants, edits>>
    BY <1>6 DEF ContinueSession, proposalVars
  <2>2. /\ Appended(User) \in Seq(Message)
        /\ Cardinality(CallsIn(Appended(User))) = calls'
    BY <1>0, <2>1, AppendedWire, Messages
  <2>3. ConversationOK'
    BY <1>0, <1>a, <2>1, <2>2, ConversationSteps
  <2>4. followUps' \in 0 .. MaxFollowUps
    BY <1>0, <2>1, TaskAssumption DEF CountersOK
  <2>5. revived' \in BOOLEAN
    BY <2>1, Zenon
  <2>6. CountersOK'
    BY <1>0, <2>1, <2>4, <2>5 DEF CountersOK, Active
  <2>7. ProposalsOK'
    BY <1>0, <2>1, ProposalsKept
  <2> QED
    BY <2>3, <2>6, <2>7 DEF TaskInv
<1>7. ASSUME NEW o \in out, ProbeEnds(o) PROVE TaskInv'
  <2>1. UNCHANGED <<phase, pending, pendingCall, offered, runs, budget, calls,
                    grants, followUps, edits, revived>>
    BY <1>7 DEF ProbeEnds, proposalVars, userVars
  <2>2. ConversationOK'
    <3>1. CASE phase = "thinking"
      BY <1>0, <1>7, <1>a, <2>1, <3>1, ConversationSteps DEF ProbeEnds
    <3>2. CASE phase # "thinking"
      BY <1>0, <1>7, <1>a, <2>1, <3>2, ConversationShrinks DEF ProbeEnds
    <3> QED
      BY <3>1, <3>2
  <2>3. CountersOK'
    BY <1>0, <2>1 DEF CountersOK
  <2>4. ProposalsOK'
    BY <1>0, <2>1, ProposalsKept
  <2> QED
    BY <2>2, <2>3, <2>4 DEF TaskInv
<1>8. ASSUME NEW o \in out, TurnIgnored(o) \/ TurnEnds(o) \/ TurnOutOfBudget(o)
                            \/ OpIgnored(o)
      PROVE  TaskInv'
  <2>1. /\ out' \subseteq out
        /\ UNCHANGED <<wire, pending, pendingCall, offered, runs, budget, calls,
                       grants, followUps, edits, revived>>
    BY <1>8 DEF TurnIgnored, TurnEnds, TurnOutOfBudget, OpIgnored,
                proposalVars, userVars
  <2>2. inFlightStream' \in Nat
    BY <1>8, <1>a DEF TurnIgnored, TurnEnds, TurnOutOfBudget, OpIgnored, None
  <2>3. phase' \in {phase, "completed", "failed", "budgetExhausted"}
    BY <1>8 DEF TurnIgnored, TurnEnds, TurnOutOfBudget, OpIgnored
  <2>4. ConversationOK'
    BY <1>0, <1>a, <2>1, <2>2, ConversationShrinks
  <2>5. CountersOK'
    BY <1>0, <2>1, <2>3 DEF CountersOK, Active
  <2>6. ProposalsOK'
    BY <1>0, <2>1, <2>3, ProposalsKept
  <2> QED
    BY <2>4, <2>5, <2>6 DEF TaskInv
<1>9. ASSUME NEW o \in out, TurnRunsTool(o) PROVE TaskInv'
  <2>1. /\ SpendsRound(o) /\ wire' = Appended(ToolCall(calls + 1))
        /\ Awaits(out \ {o}, "tool", calls + 1) /\ inFlightStream' = None
        /\ phase' = phase /\ UNCHANGED <<pending, pendingCall, offered, runs>>
        /\ UNCHANGED userVars /\ edits' = edits
    BY <1>9 DEF TurnRunsTool, proposalVars, userVars
  <2>2. /\ CountersOK' /\ calls' = calls + 1
        /\ calls + 1 \in 0 .. MaxCalls /\ calls + 1 \in Nat
    BY <1>0, <2>1, CountersSpend DEF CountersOK
  <2>3. wire # <<>>
    BY <1>0, <2>1 DEF SpendsRound, ConversationOK
  <2>4. /\ wire' \in Seq(Message) /\ wire' # <<>>
        /\ Cardinality(CallsIn(wire')) = calls'
    BY <1>0, <2>1, <2>2, <2>3, AppendedWire, Messages
  <2>5. ConversationOK'
    BY <1>0, <1>a, <2>1, <2>2, <2>4, ConversationAwaits DEF None
  <2>6. ProposalsOK'
    BY <1>0, <2>1, <2>2, ProposalsKept
  <2> QED
    BY <2>2, <2>5, <2>6 DEF TaskInv
<1>10. ASSUME NEW o \in out, TurnProposes(o) PROVE TaskInv'
  <2>1. /\ SpendsRound(o) /\ wire' = Appended(ToolCall(calls + 1))
        /\ out' = out \ {o} /\ inFlightStream' = None
        /\ offered' = offered + 1 /\ pending' = offered + 1
        /\ pendingCall' = calls + 1 /\ phase' = "awaiting"
        /\ runs' = runs /\ UNCHANGED userVars /\ edits' = edits
    BY <1>10 DEF TurnProposes, userVars
  <2>2. /\ CountersOK' /\ calls' = calls + 1
        /\ calls + 1 \in 0 .. MaxCalls /\ calls + 1 \in Nat
    BY <1>0, <2>1, CountersSpend DEF Active
  <2>3. wire # <<>>
    BY <1>0, <2>1 DEF SpendsRound, ConversationOK
  <2>4. /\ wire' \in Seq(Message) /\ wire' # <<>>
        /\ Cardinality(CallsIn(wire')) = calls'
    BY <1>0, <2>1, <2>2, <2>3, AppendedWire, Messages
  <2>5. ConversationOK'
    BY <1>0, <1>a, <2>1, <2>2, <2>4, ConversationShrinks DEF None
  <2>6. ProposalsOK'
    <3>1. /\ offered \in Nat /\ offered <= calls + edits
          /\ edits \in Nat /\ MaxEdits \in Nat /\ edits <= MaxEdits
          /\ MaxCalls \in Nat
      BY <1>0, CountersBound, TaskAssumption DEF ProposalsOK, CountersOK
    <3>2. offered + 1 <= (calls + 1) + edits
      BY <1>a, <3>1
    <3>3. offered + 1 \in Proposal
      BY <1>a, <2>2, <3>1, <3>2 DEF Proposal
    <3> QED
      BY <1>0, <2>1, <2>2, <3>2, <3>3, NextProposal
  <2> QED
    BY <2>2, <2>5, <2>6 DEF TaskInv
<1>11. ASSUME NEW o \in out, TurnNamesUnknown(o) PROVE TaskInv'
  <2> DEFINE w == Appended(ToolCall(calls + 1))
             m == ToolResult(calls + 1)
  <2>1. /\ SpendsRound(o) /\ Steps(out \ {o}, w \o <<m>>)
        /\ phase' = phase /\ UNCHANGED <<pending, pendingCall, offered, runs>>
        /\ UNCHANGED userVars /\ edits' = edits
    BY <1>11 DEF TurnNamesUnknown, proposalVars, userVars
  <2>2. /\ CountersOK' /\ calls' = calls + 1
        /\ calls + 1 \in 0 .. MaxCalls /\ calls + 1 \in Nat
    BY <1>0, <2>1, CountersSpend DEF CountersOK
  <2>3. wire # <<>>
    BY <1>0, <2>1 DEF SpendsRound, ConversationOK
  <2>4. w \in Seq(Message) /\ Cardinality(CallsIn(w)) = calls'
    BY <1>0, <2>2, <2>3, AppendedWire, Messages
  <2>5. m \in Message /\ m.role # "call"
    BY <2>2, Messages
  <2> HIDE DEF w, m
  <2>6. w \o <<m>> = Append(w, m) /\ Append(w, m) \in Seq(Message)
    BY <2>4, <2>5
  <2>7. Cardinality(CallsIn(Append(w, m))) = calls'
    BY <2>4, <2>5, CallsAppend
  <2>8. ConversationOK'
    BY <1>0, <2>1, <2>6, <2>7, ConversationSteps
  <2>9. ProposalsOK'
    BY <1>0, <2>1, <2>2, ProposalsKept
  <2> QED
    BY <2>2, <2>8, <2>9 DEF TaskInv
<1>12. ASSUME NEW o \in out, FinishRound(o) PROVE TaskInv'
  <2>1. UNCHANGED <<phase, pending, pendingCall, offered, runs, budget, calls,
                    grants, followUps, edits, revived>>
    BY <1>12 DEF FinishRound, proposalVars, userVars
  <2>2. o.call \in Nat
    BY <1>0, CountersBound DEF ConversationOK, CallbackOK
  <2>3. /\ Appended(ToolResult(o.call)) \in Seq(Message)
        /\ Cardinality(CallsIn(Appended(ToolResult(o.call)))) = calls'
    BY <1>0, <2>1, <2>2, AppendedWire, Messages
  <2>4. ConversationOK'
    <3>1. CASE phase = "thinking"
      BY <1>0, <1>12, <2>3, <3>1, ConversationSteps DEF FinishRound
    <3>2. CASE phase # "thinking"
      BY <1>0, <1>12, <1>a, <2>1, <3>2, ConversationShrinks DEF FinishRound
    <3> QED
      BY <3>1, <3>2
  <2>5. CountersOK'
    BY <1>0, <2>1 DEF CountersOK
  <2>6. ProposalsOK'
    BY <1>0, <2>1, ProposalsKept
  <2> QED
    BY <2>4, <2>5, <2>6 DEF TaskInv
<1>13. ASSUME NEW o \in out, FinishConfirmed(o) PROVE TaskInv'
  <2>1. /\ phase' = "thinking" /\ pending' = None /\ pendingCall' = None
        /\ Steps(out \ {o}, Appended(ToolResult(o.call)))
        /\ UNCHANGED <<offered, runs, budget, calls, grants, followUps, edits,
                       revived>>
    BY <1>13 DEF FinishConfirmed, userVars
  <2>2. o.call \in Nat
    BY <1>0, CountersBound DEF ConversationOK, CallbackOK
  <2>3. /\ Appended(ToolResult(o.call)) \in Seq(Message)
        /\ Cardinality(CallsIn(Appended(ToolResult(o.call)))) = calls'
    BY <1>0, <2>1, <2>2, AppendedWire, Messages
  <2>4. ConversationOK'
    BY <1>0, <2>1, <2>3, ConversationSteps
  <2>5. CountersOK'
    BY <1>0, <2>1 DEF CountersOK, Active
  <2>6. ProposalsOK'
    BY <1>0, <2>1, ProposalsKept
  <2> QED
    BY <2>4, <2>5, <2>6 DEF TaskInv
<1>14. CASE UNCHANGED taskVars
  <2>1. UNCHANGED <<phase, wire, out, inFlightStream, pending, pendingCall,
                    offered, runs, budget, calls, grants, followUps, edits,
                    revived>>
    BY <1>14 DEF taskVars, proposalVars, userVars
  <2>2. ConversationOK'
    BY <1>0, <1>a, <2>1, ConversationShrinks
  <2>3. CountersOK'
    BY <1>0, <2>1 DEF CountersOK
  <2>4. ProposalsOK'
    BY <1>0, <2>1, ProposalsKept
  <2> QED
    BY <2>2, <2>3, <2>4 DEF TaskInv
<1> QED
  BY <1>1, <1>2, <1>3, <1>4, <1>5, <1>6, <1>7, <1>8, <1>9, <1>10, <1>11,
     <1>12, <1>13, <1>14
     DEF TaskNext, UserActs, Completes

(* So it holds always. *)
LEMMA TaskInvariant == TaskSpec => []TaskInv
<1>1. TaskInit => TaskInv
  BY TaskInvInit
<1>2. TaskInv /\ [TaskNext]_taskVars => TaskInv'
  BY TaskInvStep
<1> QED
  BY <1>1, <1>2, PTL DEF TaskSpec

(* In every such state a task is well typed. *)
LEMMA TaskTypes ==
    ASSUME TaskInv
    PROVE  TaskTypeOK
<1>1. ConversationOK /\ CountersOK /\ ProposalsOK
  BY DEF TaskInv
<1>2. /\ calls \in 0 .. MaxCalls /\ budget \in 0 .. MaxCalls
      /\ MaxCalls \in Nat
  BY <1>1, CountersBound
<1>3. offered \in 0 .. MaxCalls + MaxEdits
  <2>1. /\ offered \in Nat /\ offered <= calls + edits
        /\ edits \in 0 .. MaxEdits /\ MaxEdits \in Nat
    BY <1>1, TaskAssumption DEF ProposalsOK, CountersOK
  <2> QED
    BY <1>2, <2>1
<1> QED
  BY <1>1, <1>2, <1>3
     DEF TaskTypeOK, ConversationOK, CallbackOK, CountersOK, ProposalsOK

(* Every reachable state of a task is well typed. *)
THEOREM TaskTypeCorrect == TaskSpec => []TaskTypeOK
<1>1. TaskInv => TaskTypeOK
  BY TaskTypes
<1> QED
  BY <1>1, TaskInvariant, PTL

(* A confirmed operation is executed once, whatever is clicked twice, and  *)
(* however late operations complete.                                       *)
THEOREM ExecutesOnce == TaskSpec => []NeverTwice
<1>1. TaskInv => NeverTwice
  BY DEF TaskInv, ProposalsOK, NeverTwice
<1> QED
  BY <1>1, TaskInvariant, PTL

(* The calls on the wire and the budget left make up what was granted: no  *)
(* follow-up, late completion or lost append resets or leaks the budget.   *)
THEOREM BudgetHolds == TaskSpec => []BudgetAccounted
<1>1. TaskInv => BudgetAccounted
  BY DEF TaskInv, ConversationOK, CountersOK, BudgetAccounted, CallsIn
<1> QED
  BY <1>1, TaskInvariant, PTL

-----------------------------------------------------------------------------
(* A cancelled task rests: every block that still comes is dropped by the  *)
(* phase, and only a follow-up takes the task up again.                    *)
THEOREM CancelIsFinal == TaskSpec => CancelledRests
<1> DEFINE Rests == phase = "cancelled" /\ followUps' = followUps =>
                        /\ phase' = "cancelled"
                        /\ out' \subseteq out
                        /\ UNCHANGED <<wire, budget, runs>>
<1>1. TaskInv /\ [TaskNext]_taskVars => Rests
  <2> SUFFICES ASSUME TaskInv, [TaskNext]_taskVars,
                      phase = "cancelled", followUps' = followUps
               PROVE  /\ phase' = "cancelled" /\ out' \subseteq out
                      /\ UNCHANGED <<wire, budget, runs>>
    OBVIOUS
  <2>1. CASE Start \/ Confirm \/ Edit \/ Cancel \/ ContinueBudget
    BY <2>1 DEF Start, Confirm, Edit, Cancel, ContinueBudget, Active
  <2>2. CASE ContinueSession
    <3>1. followUps' = followUps + 1 /\ followUps \in Nat
      BY <2>2 DEF ContinueSession, TaskInv, CountersOK
    <3> QED
      BY <3>1
  <2>3. ASSUME NEW o \in out, ProbeEnds(o) \/ FinishRound(o)
        PROVE  /\ phase' = "cancelled" /\ out' \subseteq out
               /\ UNCHANGED <<wire, budget, runs>>
    BY <2>3 DEF ProbeEnds, FinishRound, proposalVars
  <2>4. ASSUME NEW o \in out, TurnIgnored(o) \/ OpIgnored(o)
        PROVE  /\ phase' = "cancelled" /\ out' \subseteq out
               /\ UNCHANGED <<wire, budget, runs>>
    BY <2>4 DEF TurnIgnored, OpIgnored, proposalVars
  <2>5. ASSUME NEW o \in out,
               \/ TurnEnds(o) \/ TurnOutOfBudget(o) \/ TurnRunsTool(o)
               \/ TurnProposes(o) \/ TurnNamesUnknown(o) \/ FinishConfirmed(o)
        PROVE  FALSE
    BY <2>5 DEF TurnEnds, TurnOutOfBudget, TurnRunsTool, TurnProposes,
                TurnNamesUnknown, FinishConfirmed, SpendsRound
  <2>6. CASE UNCHANGED taskVars
    BY <2>6 DEF taskVars, proposalVars
  <2> QED
    BY <2>1, <2>2, <2>3, <2>4, <2>5, <2>6 DEF TaskNext, UserActs, Completes
<1> QED
  BY <1>1, TaskInvariant, PTL DEF TaskSpec, CancelledRests

-----------------------------------------------------------------------------
(* One thing at a time.                                                    *)
(*                                                                         *)
(* As long as no cancelled task was taken up, the phase tells what is      *)
(* outstanding and what the wire looks like: whole rounds while the model  *)
(* or nobody is asked, whole rounds and one call whose result is owed      *)
(* while a tool runs or the user decides.                                  *)

Owed(w, c) == \E v \in Seq(Message) : Paired(v) /\ w = Append(v, ToolCall(c))

Alone ==
    ~revived =>
        /\ \A o, p \in out : o = p
        /\ WirePaired
        /\ phase \in {"idle", "completed", "failed", "budgetExhausted"} =>
               out = {} /\ Paired(wire)
        /\ phase = "awaiting" => out = {} /\ Owed(wire, pendingCall)
        /\ phase = "thinking" =>
               \A o \in out : /\ o.kind \in {"probe", "turn"} => Paired(wire)
                              /\ o.kind = "turn" => o.ask = wire
                              /\ o.kind = "tool" => Owed(wire, o.call)
        /\ phase = "executing" => \A o \in out : o.kind = "op" => Owed(wire, o.call)

(* A wire of whole rounds stays one when a request is added, ...           *)
LEMMA PairedRequest ==
    ASSUME NEW w \in Seq(Message), Paired(w)
    PROVE  Paired(Append(w, User))
<1> DEFINE v == Append(w, User)
           n == Len(w)
<1>1. /\ n \in Nat /\ Len(v) = n + 1 /\ v[n + 1] = User
      /\ \A i \in 1 .. n : v[i] = w[i]
  BY Messages, AppendProperties
<1> HIDE DEF v, n
<1> SUFFICES ASSUME NEW i \in 1 .. n + 1
             PROVE  /\ v[i].role = "call" => i < n + 1 /\ v[i + 1] = ToolResult(v[i].id)
                    /\ v[i].role = "tool" => i > 1 /\ v[i - 1] = ToolCall(v[i].id)
  BY <1>1 DEF Paired, v
<1>2. CASE i = n + 1
  BY <1>1, <1>2, Messages
<1>3. CASE i # n + 1
  <2>1. i \in 1 .. n /\ v[i] = w[i]
    BY <1>1, <1>3
  <2>2. /\ w[i].role = "call" => i < n /\ w[i + 1] = ToolResult(w[i].id)
        /\ w[i].role = "tool" => i > 1 /\ w[i - 1] = ToolCall(w[i].id)
    BY <2>1 DEF Paired, n
  <2>3. i < n => v[i + 1] = w[i + 1]
    BY <1>1, <2>1
  <2>4. i > 1 => v[i - 1] = w[i - 1]
    BY <1>1, <2>1
  <2> QED
    BY <1>1, <2>1, <2>2, <2>3, <2>4
<1> QED
  BY <1>2, <1>3

(* ... and when a call and its result are. *)
LEMMA PairedRound ==
    ASSUME NEW w \in Seq(Message), Paired(w), NEW c \in Nat
    PROVE  Paired(Append(Append(w, ToolCall(c)), ToolResult(c)))
<1> DEFINE u == Append(w, ToolCall(c))
           v == Append(u, ToolResult(c))
           n == Len(w)
<1>1. /\ u \in Seq(Message) /\ n \in Nat /\ Len(u) = n + 1 /\ u[n + 1] = ToolCall(c)
      /\ \A i \in 1 .. n : u[i] = w[i]
  BY Messages, AppendProperties
<1>2. /\ Len(v) = n + 2 /\ v[n + 2] = ToolResult(c)
      /\ \A i \in 1 .. n + 1 : v[i] = u[i]
  <2> HIDE DEF u
  <2>1. /\ Len(v) = Len(u) + 1 /\ v[Len(u) + 1] = ToolResult(c)
        /\ \A i \in 1 .. Len(u) : v[i] = u[i]
    BY <1>1, Messages, AppendProperties
  <2> QED
    BY <1>1, <2>1
<1>3. /\ \A i \in 1 .. n : v[i] = w[i]
      /\ v[n + 1] = ToolCall(c)
  BY <1>1, <1>2
<1>4. /\ ToolCall(c).role = "call" /\ ToolCall(c).id = c
      /\ ToolResult(c).role = "tool" /\ ToolResult(c).id = c
  BY DEF ToolCall, ToolResult
<1> HIDE DEF v, u, n
<1> SUFFICES ASSUME NEW i \in 1 .. n + 2
             PROVE  /\ v[i].role = "call" => i < n + 2 /\ v[i + 1] = ToolResult(v[i].id)
                    /\ v[i].role = "tool" => i > 1 /\ v[i - 1] = ToolCall(v[i].id)
  BY <1>2 DEF Paired, u, v
<1>5. CASE i = n + 1
  <2>1. i + 1 = n + 2 /\ i < n + 2
    BY <1>1, <1>5
  <2>2. v[i] = ToolCall(c) /\ v[i + 1] = ToolResult(c)
    BY <1>2, <1>3, <1>5, <2>1
  <2> QED
    BY <1>4, <2>1, <2>2
<1>6. CASE i = n + 2
  <2>1. i - 1 = n + 1 /\ i > 1
    BY <1>1, <1>6
  <2>2. v[i] = ToolResult(c) /\ v[i - 1] = ToolCall(c)
    BY <1>2, <1>3, <1>6, <2>1
  <2> QED
    BY <1>4, <2>1, <2>2
<1>7. CASE i # n + 1 /\ i # n + 2
  <2>1. i \in 1 .. n /\ v[i] = w[i]
    BY <1>1, <1>3, <1>7
  <2>2. /\ w[i].role = "call" => i < n /\ w[i + 1] = ToolResult(w[i].id)
        /\ w[i].role = "tool" => i > 1 /\ w[i - 1] = ToolCall(w[i].id)
    BY <2>1 DEF Paired, n
  <2>3. i < n => v[i + 1] = w[i + 1]
    BY <1>1, <1>3, <2>1
  <2>4. i > 1 => v[i - 1] = w[i - 1]
    BY <1>1, <1>3, <2>1
  <2> QED
    BY <1>1, <2>1, <2>2, <2>3, <2>4
<1> QED
  BY <1>5, <1>6, <1>7

(* The request alone and no message at all are whole. *)
LEMMA PairedNone == Paired(<<>>) /\ Paired(<<User>>)
<1>1. Paired(<<>>)
  BY DEF Paired
<1>2. <<User>> = Append(<<>>, User) /\ <<>> \in Seq(Message)
  OBVIOUS
<1> QED
  BY <1>1, <1>2, PairedRequest

(* Callbacks are dropped and nothing else happens. *)
LEMMA AloneShrinks ==
    ASSUME Alone, out' \subseteq out, revived' = revived,
           phase' \in {phase, "cancelled"}, UNCHANGED <<wire, pendingCall>>
    PROVE  Alone'
<1> SUFFICES ASSUME ~revived PROVE Alone'
  BY DEF Alone
<1>1. (\A o, p \in out' : o = p) /\ WirePaired'
  BY DEF Alone, WirePaired
<1> QED
  BY <1>1 DEF Alone

(* The model is asked with a wire of whole rounds, and nothing else is     *)
(* outstanding.                                                            *)
LEMMA AloneSteps ==
    ASSUME NEW rest, rest = {}, NEW w, Paired(w), Steps(rest, w),
           phase' = "thinking"
    PROVE  Alone'
<1> DEFINE ask == IF w = <<>> THEN <<User>> ELSE w
           cb == Callback(FreeNumber(rest), "turn", None, ask)
<1>1. Paired(ask)
  BY PairedNone
<1>2. out' = {cb} /\ wire' = ask
  BY DEF Steps
<1>3. cb.ask = ask /\ cb.kind = "turn"
  BY DEF Callback
<1> HIDE DEF cb, ask
<1> QED
  BY <1>1, <1>2, <1>3 DEF Alone, WirePaired

(* Something else is awaited, and nothing besides it.                      *)
LEMMA AloneAwaits ==
    ASSUME NEW rest, rest = {}, NEW kind, NEW call, Awaits(rest, kind, call),
           \/ phase' = "thinking" /\ kind = "probe" /\ Paired(wire')
           \/ phase' = "thinking" /\ kind = "tool" /\ Owed(wire', call)
           \/ phase' = "executing" /\ kind = "op" /\ Owed(wire', call)
    PROVE  Alone'
<1> DEFINE cb == Callback(FreeNumber(rest), kind, call, <<>>)
<1>1. out' = {cb}
  BY DEF Awaits
<1>2. cb.ask = <<>> /\ cb.kind = kind /\ cb.call = call
  BY DEF Callback
<1> HIDE DEF cb
<1> QED
  BY <1>1, <1>2, PairedNone DEF Alone, WirePaired

(* A fresh task has a nil wire and nothing outstanding. *)
LEMMA AloneInit ==
    ASSUME TaskInit
    PROVE  Alone
BY PairedNone DEF TaskInit, Alone, WirePaired

(* Every block keeps that. *)
LEMMA AloneStep ==
    ASSUME TaskInv, Alone, [TaskNext]_taskVars
    PROVE  Alone'
<1> SUFFICES ASSUME ~revived' PROVE Alone'
  BY DEF Alone
<1>0. ~revived
  BY DEF TaskNext, UserActs, Completes, Start, Confirm, Edit, Cancel,
         ContinueBudget, ContinueSession, ProbeEnds, TurnIgnored, TurnEnds,
         TurnOutOfBudget, TurnRunsTool, TurnProposes, TurnNamesUnknown,
         FinishRound, FinishConfirmed, OpIgnored, userVars, taskVars
<1>a. /\ wire \in Seq(Message) /\ calls \in Nat
      /\ \A o \in out : (o.kind = "turn" => wire # <<>>) /\ o.call \in Nat
      /\ \A o, p \in out : o = p
      /\ \A o \in out : out \ {o} = {}
  BY <1>0, CountersBound DEF TaskInv, ConversationOK, CallbackOK, CountersOK, Alone
<1>b. /\ Appended(User) = IF wire = <<>> THEN wire ELSE Append(wire, User)
      /\ \A c : Appended(ToolCall(c)) = IF wire = <<>> THEN wire ELSE Append(wire, ToolCall(c))
      /\ \A c : Appended(ToolResult(c)) = IF wire = <<>> THEN wire ELSE Append(wire, ToolResult(c))
  BY DEF Appended
<1>c. ASSUME NEW c \in Nat, Owed(wire, c)
      PROVE  Paired(Appended(ToolResult(c)))
  <2>1. PICK v \in Seq(Message) : Paired(v) /\ wire = Append(v, ToolCall(c))
    BY <1>c DEF Owed
  <2>2. wire # <<>>
    BY <2>1, Messages
  <2> QED
    BY <1>b, <2>1, <2>2, PairedRound
<1>1. CASE Start
  <2>1. out = {} /\ Paired(wire)
    BY <1>0, <1>1 DEF Start, Alone
  <2> QED
    BY <1>1, <2>1, AloneAwaits DEF Start
<1>2. CASE Confirm
  <2>1. out = {} /\ Owed(wire, pendingCall)
    BY <1>0, <1>2 DEF Confirm, Alone
  <2>2. Owed(wire', pendingCall)
    BY <1>2, <2>1 DEF Confirm
  <2> QED
    BY <1>2, <2>1, <2>2, AloneAwaits DEF Confirm
<1>3. CASE Edit
  <2>1. phase' = phase /\ UNCHANGED <<wire, out, pendingCall, revived>>
    BY <1>3 DEF Edit
  <2> QED
    BY <2>1, AloneShrinks
<1>4. CASE Cancel
  <2>1. /\ phase' = "cancelled" /\ out' \subseteq out
        /\ UNCHANGED <<wire, pendingCall, revived>>
    BY <1>4 DEF Cancel, proposalVars, userVars
  <2> QED
    BY <2>1, AloneShrinks
<1>5. CASE ContinueBudget
  <2>1. out = {} /\ Paired(wire)
    BY <1>0, <1>5 DEF ContinueBudget, Alone
  <2> QED
    BY <1>5, <2>1, AloneSteps DEF ContinueBudget
<1>6. CASE ContinueSession
  <2>1. phase \in {"completed", "failed"}
    BY <1>6 DEF ContinueSession
  <2>2. out = {} /\ Paired(wire)
    BY <1>0, <2>1 DEF Alone
  <2>3. Paired(Appended(User))
    BY <1>a, <1>b, <2>2, PairedRequest
  <2> QED
    BY <1>6, <2>2, <2>3, AloneSteps DEF ContinueSession
<1>7. ASSUME NEW o \in out, ProbeEnds(o) PROVE Alone'
  <2>1. UNCHANGED <<phase, pendingCall, revived>> /\ o.kind = "probe"
    BY <1>7 DEF ProbeEnds, proposalVars, userVars
  <2>2. CASE phase = "thinking"
    <3>1. Steps(out \ {o}, wire) /\ Paired(wire)
      BY <1>0, <1>7, <2>1, <2>2 DEF ProbeEnds, Alone
    <3> QED
      BY <1>a, <2>1, <2>2, <3>1, AloneSteps
  <2>3. CASE phase # "thinking"
    BY <1>7, <2>1, <2>3, AloneShrinks DEF ProbeEnds
  <2> QED
    BY <2>2, <2>3
<1>8. ASSUME NEW o \in out, TurnIgnored(o) \/ OpIgnored(o) PROVE Alone'
  <2>1. UNCHANGED <<phase, wire, pendingCall, revived>> /\ out' \subseteq out
    BY <1>8 DEF TurnIgnored, OpIgnored, proposalVars, userVars
  <2> QED
    BY <2>1, AloneShrinks
<1>9. ASSUME NEW o \in out, TurnEnds(o) \/ TurnOutOfBudget(o) PROVE Alone'
  <2>1. /\ o.kind = "turn" /\ phase = "thinking" /\ wire' = wire
        /\ phase' \in {"completed", "failed", "budgetExhausted"}
        /\ out' = out \ {o}
    BY <1>9 DEF TurnEnds, TurnOutOfBudget
  <2>2. Paired(wire) /\ out' = {}
    BY <1>0, <1>a, <2>1 DEF Alone
  <2> QED
    BY <2>1, <2>2 DEF Alone, WirePaired
<1>10. ASSUME NEW o \in out, TurnRunsTool(o) PROVE Alone'
  <2>1. /\ o.kind = "turn" /\ phase = "thinking" /\ phase' = phase
        /\ wire' = Appended(ToolCall(calls + 1))
        /\ Awaits(out \ {o}, "tool", calls + 1)
    BY <1>10 DEF TurnRunsTool, SpendsRound
  <2>2. Paired(wire) /\ wire # <<>>
    BY <1>0, <1>a, <2>1 DEF Alone
  <2>3. Owed(wire', calls + 1)
    BY <1>a, <1>b, <2>1, <2>2 DEF Owed
  <2> QED
    BY <1>a, <2>1, <2>3, AloneAwaits
<1>11. ASSUME NEW o \in out, TurnProposes(o) PROVE Alone'
  <2>1. /\ o.kind = "turn" /\ phase = "thinking" /\ phase' = "awaiting"
        /\ wire' = Appended(ToolCall(calls + 1)) /\ pendingCall' = calls + 1
        /\ out' = out \ {o}
    BY <1>11 DEF TurnProposes, SpendsRound
  <2>2. Paired(wire) /\ wire # <<>> /\ out' = {}
    BY <1>0, <1>a, <2>1 DEF Alone
  <2>3. Owed(wire', pendingCall')
    BY <1>a, <1>b, <2>1, <2>2 DEF Owed
  <2> QED
    BY <2>1, <2>2, <2>3 DEF Alone, WirePaired
<1>12. ASSUME NEW o \in out, TurnNamesUnknown(o) PROVE Alone'
  <2> DEFINE w == Appended(ToolCall(calls + 1))
             m == ToolResult(calls + 1)
  <2>1. /\ o.kind = "turn" /\ phase = "thinking" /\ phase' = phase
        /\ Steps(out \ {o}, w \o <<m>>)
    BY <1>12 DEF TurnNamesUnknown, SpendsRound
  <2>2. Paired(wire) /\ wire # <<>> /\ calls + 1 \in Nat
    BY <1>0, <1>a, <2>1 DEF Alone
  <2>3. /\ w = Append(wire, ToolCall(calls + 1)) /\ w \in Seq(Message)
        /\ m \in Message
    <3>1. w = Append(wire, ToolCall(calls + 1))
      BY <1>b, <2>2
    <3>2. ToolCall(calls + 1) \in Message /\ m \in Message
      BY <2>2, Messages
    <3>3. Append(wire, ToolCall(calls + 1)) \in Seq(Message)
      BY <1>a, <3>2, AppendProperties
    <3> HIDE DEF w, m
    <3> QED
      BY <3>1, <3>2, <3>3
  <2>4. Paired(Append(w, m))
    BY <1>a, <2>2, <2>3, PairedRound
  <2> HIDE DEF w, m
  <2>5. w \o <<m>> = Append(w, m)
    BY <2>3
  <2> QED
    BY <1>a, <2>1, <2>4, <2>5, AloneSteps
<1>13. ASSUME NEW o \in out, FinishRound(o) PROVE Alone'
  <2>1. UNCHANGED <<phase, pendingCall, revived>> /\ o.kind = "tool"
    BY <1>13 DEF FinishRound, proposalVars, userVars
  <2>2. CASE phase = "thinking"
    <3>1. Steps(out \ {o}, Appended(ToolResult(o.call))) /\ Owed(wire, o.call)
      BY <1>0, <1>13, <2>1, <2>2 DEF FinishRound, Alone
    <3>2. Paired(Appended(ToolResult(o.call)))
      BY <1>a, <1>c, <3>1
    <3> QED
      BY <1>a, <2>1, <2>2, <3>1, <3>2, AloneSteps
  <2>3. CASE phase # "thinking"
    BY <1>13, <2>1, <2>3, AloneShrinks DEF FinishRound
  <2> QED
    BY <2>2, <2>3
<1>14. ASSUME NEW o \in out, FinishConfirmed(o) PROVE Alone'
  <2>1. /\ o.kind = "op" /\ phase = "executing" /\ phase' = "thinking"
        /\ Steps(out \ {o}, Appended(ToolResult(o.call)))
    BY <1>14 DEF FinishConfirmed
  <2>2. Owed(wire, o.call)
    BY <1>0, <2>1 DEF Alone
  <2>3. Paired(Appended(ToolResult(o.call)))
    BY <1>a, <1>c, <2>2
  <2> QED
    BY <1>a, <2>1, <2>3, AloneSteps
<1>15. CASE UNCHANGED taskVars
  <2>1. UNCHANGED <<phase, wire, out, pendingCall, revived>>
    BY <1>15 DEF taskVars, proposalVars, userVars
  <2> QED
    BY <2>1, AloneShrinks
<1> QED
  BY <1>1, <1>2, <1>3, <1>4, <1>5, <1>6, <1>7, <1>8, <1>9, <1>10, <1>11,
     <1>12, <1>13, <1>14, <1>15
     DEF TaskNext, UserActs, Completes

(* Phases alone keep a task's callbacks apart: unless a cancelled task was *)
(* taken up again, one thing is outstanding at a time, every request holds *)
(* whole rounds, and the turn that is awaited was sent all of the wire.    *)
THEOREM OneAtATime == TaskSpec => []OneTurnAtATime
<1>1. TaskInit => TaskInv /\ Alone
  BY TaskInvInit, AloneInit
<1>2. (TaskInv /\ Alone) /\ [TaskNext]_taskVars => (TaskInv /\ Alone)'
  BY TaskInvStep, AloneStep
<1>3. TaskInv /\ Alone => OneTurnAtATime
  <2> SUFFICES ASSUME TaskInv, Alone, ~revived
               PROVE  /\ Cardinality(out) <= 1 /\ WirePaired
                      /\ phase = "thinking" =>
                             \A o \in out : o.kind = "turn" => o.ask = wire
    BY DEF OneTurnAtATime
  <2>1. IsFiniteSet(out) /\ \A o, p \in out : o = p
    BY DEF TaskInv, ConversationOK, Alone
  <2>2. Cardinality(out) <= 1
    <3>1. CASE out = {}
      BY <3>1, FS_EmptySet
    <3>2. CASE out # {}
      <4>1. PICK o \in out : out = {o}
        BY <2>1, <3>2
      <4>2. Cardinality(out) = 1
        BY <4>1, FS_Singleton
      <4> QED
        BY <4>2
    <3> QED
      BY <3>1, <3>2
  <2> QED
    BY <2>2 DEF Alone
<1> QED
  BY <1>1, <1>2, <1>3, PTL DEF TaskSpec

(***************************************************************************)
(* The GUI's side as a whole: its parts share no state, and each keeps its *)
(* types.                                                                  *)
(***************************************************************************)

MCClientInv == TaskInv /\ LinkInv /\ TypeInv /\ RegistryInv

(* The types are part of what each of them keeps. *)
LEMMA MCClientTypes ==
    ASSUME MCClientInv
    PROVE  MCClientTypeOK
<1>1. TaskTypeOK
  BY TaskTypes DEF MCClientInv
<1>2. LinkTypeOK
  BY DEF MCClientInv, LinkInv, BootTypes, OtherTypes, SshState, LinkTypeOK
<1>3. ClientTypeOK
  BY DEF MCClientInv, TypeInv, Flags, Modes, Sizes, Counters, ClientTypeOK
<1>4. RegistryTypeOK
  BY DEF MCClientInv, RegistryInv
<1> QED
  BY <1>1, <1>2, <1>3, <1>4 DEF MCClientTypeOK

(* MCClientTypeOK holds of the task, the link, the pane and the registry   *)
(* at once, whichever of them moves.                                       *)
THEOREM MCClientTypeCorrect == MCClientSpec => []MCClientTypeOK
<1> DEFINE vars == <<part, taskVars, linkVars, clientVars, registryVars>>
<1>1. MCClientInit => MCClientInv
  BY TaskInvInit, LinkInvInit, TypeInit, RegistryInvInit
     DEF MCClientInit, MCClientInv
<1>2. MCClientInv /\ [MCClientNext]_vars => MCClientInv'
  <2> SUFFICES ASSUME TaskInv, LinkInv, TypeInv, RegistryInv,
                      [MCClientNext]_vars
               PROVE  TaskInv' /\ LinkInv' /\ TypeInv' /\ RegistryInv'
    BY DEF MCClientInv
  <2>1. /\ [TaskNext]_taskVars
        /\ [LinkNext]_linkVars
        /\ [ClientNext]_clientVars
        /\ [RegistryNext]_registryVars
    BY DEF MCClientNext, TaskPart, LinkPart, PanePart, RegistryPart
  <2>2. TaskInv'
    BY <2>1, TaskInvStep
  <2>3. LinkInv'
    BY <2>1, LinkInvStep
  <2>4. TypeInv'
    BY <2>1, TypeStep
  <2>5. RegistryInv'
    BY <2>1, RegistryInvStep
  <2> QED
    BY <2>2, <2>3, <2>4, <2>5
<1> QED
  BY <1>1, <1>2, MCClientTypes, PTL DEF MCClientSpec
=============================================================================
