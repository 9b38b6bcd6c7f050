--------------------------- MODULE RegistryProofs ---------------------------
(***************************************************************************)
(* Theorems about the registry of one pane id and the clients that open,   *)
(* respawn and remove it, for every number of clients and processes and    *)
(* every interleaving of the daemon's threads with the calls.              *)
(***************************************************************************)
EXTENDS Registry, TLAPS

(* Panes are numbered as they start. *)
Started ==
    /\ registered <= spawned
    /\ removed \subseteq 1 .. spawned
    /\ \A c \in Caller :
           /\ old[c] <= spawned
           /\ \A k \in Call : held[c][k] <= spawned

(* A thread that got past its look-up holds a pane. *)
InHand ==
    \A c \in Caller :
        /\ thread[c]["ATTACH"] = "stream" => held[c]["ATTACH"] # NoPane
        /\ thread[c]["SPAWN"] \in {"insert", "stream"} => held[c]["SPAWN"] # NoPane
        /\ thread[c]["KILL"] = "signal" => held[c]["KILL"] # NoPane

Inserting(c) == thread[c]["SPAWN"] = "insert"

(* A pane about to be inserted is known to its own thread alone. *)
InsertsAreNew ==
    \A c \in Caller : Inserting(c) =>
        /\ held[c]["SPAWN"] # registered
        /\ held[c]["SPAWN"] \notin removed
        /\ \A d \in Caller : Inserting(d) /\ held[d]["SPAWN"] = held[c]["SPAWN"] => d = c

RegistryInv ==
    /\ RegistryTypeOK /\ Started /\ InHand /\ InsertsAreNew
    /\ SpawnedIsRegistered

-----------------------------------------------------------------------------
(* The invariant holds in an empty registry, *)
LEMMA RegistryInvInit ==
    ASSUME RegistryInit
    PROVE  RegistryInv
<1>1. RegistryTypeOK
  BY RegistryAssumption DEF RegistryInit, RegistryTypeOK, NoPane, Pane, Call
<1>2. Started /\ InHand /\ InsertsAreNew /\ SpawnedIsRegistered
  BY DEF RegistryInit, Started, InHand, InsertsAreNew, Inserting,
         SpawnedIsRegistered, NoPane, Call
<1> QED
  BY <1>1, <1>2 DEF RegistryInv

(* every step of a thread or a client keeps it, *)
LEMMA RegistryInvStep ==
    ASSUME RegistryInv, [RegistryNext]_registryVars
    PROVE  RegistryInv'
<1> USE RegistryAssumption DEF RegistryInv, RegistryTypeOK, Started, InHand,
        InsertsAreNew, Inserting, SpawnedIsRegistered, NoPane, Pane, Call,
        threadVars, callerVars
<1>1. ASSUME NEW c \in Caller, AttachLooksUp(c) PROVE RegistryInv'
  BY <1>1 DEF AttachLooksUp
<1>2. ASSUME NEW c \in Caller, SpawnChecks(c) PROVE RegistryInv'
  BY <1>2 DEF SpawnChecks
<1>3. ASSUME NEW c \in Caller, SpawnStarts(c) PROVE RegistryInv'
  <2>1. RegistryTypeOK'
    BY <1>3 DEF SpawnStarts
  <2>2. Started'
    <3>1. /\ spawned' = spawned + 1 /\ registered' = registered
          /\ removed' = removed /\ old' = old
          /\ held' = [held EXCEPT ![c]["SPAWN"] = spawned + 1]
      BY <1>3 DEF SpawnStarts
    <3>2. \A d \in Caller : \A k \in Call :
              held'[d][k] = IF d = c /\ k = "SPAWN" THEN spawned + 1 ELSE held[d][k]
      BY <3>1
    <3>3. removed \subseteq 1 .. spawned + 1 /\ registered <= spawned + 1
      OBVIOUS
    <3>4. \A d \in Caller : old[d] <= spawned + 1
      OBVIOUS
    <3>5. \A d \in Caller : \A k \in Call : held'[d][k] <= spawned + 1
      <4> SUFFICES ASSUME NEW d \in Caller, NEW k \in Call
                   PROVE  held'[d][k] <= spawned + 1
        OBVIOUS
      <4>1. held[d][k] \in Nat /\ spawned \in Nat /\ held[d][k] <= spawned
        OBVIOUS
      <4> QED
        BY <3>2, <4>1
    <3> QED
      BY <3>1, <3>3, <3>4, <3>5
  <2>3. InHand'
    BY <1>3 DEF SpawnStarts
  <2>4. InsertsAreNew'
    BY <1>3 DEF SpawnStarts
  <2>5. SpawnedIsRegistered'
    BY <1>3 DEF SpawnStarts
  <2> QED
    BY <2>1, <2>2, <2>3, <2>4, <2>5
<1>4. ASSUME NEW c \in Caller, SpawnFails(c) PROVE RegistryInv'
  BY <1>4 DEF SpawnFails
<1>5. ASSUME NEW c \in Caller, SpawnInserts(c) PROVE RegistryInv'
  <2> DEFINE mine == held[c]["SPAWN"]
             end == IF registered = NoPane THEN "stream" ELSE "closed"
  <2>0. /\ UNCHANGED <<spawned, proc, held, program, at, pane, old, removed>>
        /\ registered' = IF registered = NoPane THEN mine ELSE registered
        /\ thread' = [thread EXCEPT ![c]["SPAWN"] = end]
        /\ Inserting(c) /\ mine \in Pane /\ mine <= spawned
    BY <1>5 DEF SpawnInserts
  <2>1. \A d \in Caller :
            /\ thread'[d]["SPAWN"] = IF d = c THEN end ELSE thread[d]["SPAWN"]
            /\ thread'[d]["ATTACH"] = thread[d]["ATTACH"]
            /\ thread'[d]["KILL"] = thread[d]["KILL"]
    BY <2>0
  <2>2. RegistryTypeOK'
    BY <2>0
  <2>3. Started' /\ InHand'
    BY <2>0, <2>1
  <2> HIDE DEF mine, end
  <2>4. InsertsAreNew'
    BY <2>0, <2>1 DEF mine, end
  <2>5. SpawnedIsRegistered'
    BY <2>0, <2>1 DEF mine, end
  <2> QED
    BY <2>2, <2>3, <2>4, <2>5
<1>6. ASSUME NEW c \in Caller, KillRemoves(c) PROVE RegistryInv'
  BY <1>6 DEF KillRemoves
<1>7. ASSUME NEW c \in Caller, KillSignals(c) PROVE RegistryInv'
  BY <1>7 DEF KillSignals
<1>8. ASSUME NEW p \in Pane, ProcExits(p) PROVE RegistryInv'
  BY <1>8 DEF ProcExits
<1>9. ASSUME NEW p \in Pane, ProcHides(p) PROVE RegistryInv'
  BY <1>9 DEF ProcHides
<1>10. ASSUME NEW c \in Caller, Opens(c) PROVE RegistryInv'
  BY <1>10 DEF Opens, Calls
<1>11. ASSUME NEW c \in Caller, Respawns(c) PROVE RegistryInv'
  BY <1>11 DEF Respawns, Calls
<1>12. ASSUME NEW c \in Caller, Removes(c) PROVE RegistryInv'
  BY <1>12 DEF Removes, Calls
<1>13. ASSUME NEW c \in Caller, KillWaitEnds(c) PROVE RegistryInv'
  BY <1>13 DEF KillWaitEnds, Calls
<1>14. ASSUME NEW c \in Caller, ProbeAttaches(c) PROVE RegistryInv'
  BY <1>14 DEF ProbeAttaches
<1>15. ASSUME NEW c \in Caller, ProbeFails(c) PROVE RegistryInv'
  BY <1>15 DEF ProbeFails, Calls
<1>16. ASSUME NEW c \in Caller, SpawnAnswered(c) PROVE RegistryInv'
  BY <1>16 DEF SpawnAnswered
<1>17. ASSUME NEW c \in Caller, SpawnRefused(c) PROVE RegistryInv'
  BY <1>17 DEF SpawnRefused
<1>18. ASSUME NEW c \in Caller, Retries(c) PROVE RegistryInv'
  BY <1>18 DEF Retries, Calls
<1>19. CASE UNCHANGED registryVars
  BY <1>19 DEF registryVars
<1> QED
  BY <1>1, <1>2, <1>3, <1>4, <1>5, <1>6, <1>7, <1>8, <1>9, <1>10, <1>11,
     <1>12, <1>13, <1>14, <1>15, <1>16, <1>17, <1>18, <1>19
     DEF RegistryNext, Daemon, Gui

(* so it always holds. *)
LEMMA RegistryInvariant == RegistrySpec => []RegistryInv
<1>1. RegistryInit => RegistryInv
  BY RegistryInvInit
<1>2. RegistryInv /\ [RegistryNext]_registryVars => RegistryInv'
  BY RegistryInvStep
<1> QED
  BY <1>1, <1>2, PTL DEF RegistrySpec

(* Every reachable state of the registry is well typed. *)
THEOREM RegistryTypeCorrect == RegistrySpec => []RegistryTypeOK
<1>1. RegistryInv => RegistryTypeOK
  BY DEF RegistryInv
<1> QED
  BY <1>1, RegistryInvariant, PTL

(* Registry::insert: a pane whose SPAWN was answered is the one registered *)
(* until a KILL takes it out, however many opens race for the id, with     *)
(* whatever timeouts and failures.                                         *)
THEOREM SpawnedStaysRegistered == RegistrySpec => []SpawnedIsRegistered
<1>1. RegistryInv => SpawnedIsRegistered
  BY DEF RegistryInv
<1> QED
  BY <1>1, RegistryInvariant, PTL

-----------------------------------------------------------------------------
(* A respawn never meets the pane it killed -- as long as it waits for the *)
(* KILL to be answered.  Its callers go on after two seconds all the same: *)
(* with "kill" in Timeouts RespawnIsFresh is false.                        *)

(* The pane a respawn is to replace: one whose insertion lies behind it,   *)
(* so that it cannot be registered again once it was removed.              *)
Settled(p) == \A d \in Caller : Inserting(d) => held[d]["SPAWN"] # p

Unused(c) == thread[c]["ATTACH"] = "none" /\ thread[c]["SPAWN"] = "none"

Respawning ==
    \A c \in Caller :
        /\ at[c] \in {"idle", "kill"} => Unused(c)
        /\ program[c] = "respawn" /\ at[c] = "kill" =>
               /\ Settled(old[c])
               /\ thread[c]["KILL"] \in {"remove", "signal", "closed"}
               /\ thread[c]["KILL"] # "remove" =>
                      old[c] = NoPane \/ old[c] # registered
        /\ program[c] = "respawn" /\ at[c] # "kill" =>
               /\ Settled(old[c])
               /\ old[c] = NoPane \/ old[c] # registered
               /\ thread[c]["ATTACH"] = "stream" => held[c]["ATTACH"] # old[c]
        /\ program[c] = "respawn" /\ thread[c]["SPAWN"] \in {"insert", "stream"} =>
               held[c]["SPAWN"] # old[c]
        /\ program[c] = "respawn" => at[c] # "idle"

RespawnInv == RegistryInv /\ Respawning /\ RespawnIsFresh

(* The stronger invariant holds before the first call, *)
LEMMA RespawnInvInit ==
    ASSUME RegistryInit
    PROVE  RespawnInv
BY RegistryInvInit DEF RespawnInv, RegistryInit, Respawning, RespawnIsFresh,
                       Unused, Call

(* and every step keeps it, as long as the wait for a KILL does not run out. *)
LEMMA RespawnInvStep ==
    ASSUME "kill" \notin Timeouts, RespawnInv, [RegistryNext]_registryVars
    PROVE  Respawning' /\ RespawnIsFresh'
<1> USE DEF RespawnInv, RegistryInv, RegistryTypeOK, Started, InHand,
        InsertsAreNew, Inserting, NoPane, Pane, Call, threadVars, callerVars,
        Respawning, RespawnIsFresh, Settled, Unused
<1>1. ASSUME NEW c \in Caller, AttachLooksUp(c) PROVE Respawning' /\ RespawnIsFresh'
  BY <1>1 DEF AttachLooksUp
<1>2. ASSUME NEW c \in Caller, SpawnChecks(c) PROVE Respawning' /\ RespawnIsFresh'
  BY <1>2 DEF SpawnChecks
<1>3. ASSUME NEW c \in Caller, SpawnStarts(c) PROVE Respawning' /\ RespawnIsFresh'
  BY <1>3 DEF SpawnStarts
<1>4. ASSUME NEW c \in Caller, SpawnFails(c) PROVE Respawning' /\ RespawnIsFresh'
  BY <1>4 DEF SpawnFails
<1>5. ASSUME NEW c \in Caller, SpawnInserts(c) PROVE Respawning' /\ RespawnIsFresh'
  <2> DEFINE mine == held[c]["SPAWN"]
             end == IF registered = NoPane THEN "stream" ELSE "closed"
  <2>0. /\ UNCHANGED <<held, program, at, pane, old>>
        /\ registered' = IF registered = NoPane THEN mine ELSE registered
        /\ thread' = [thread EXCEPT ![c]["SPAWN"] = end]
        /\ Inserting(c) /\ mine # NoPane
    BY <1>5 DEF SpawnInserts
  <2>1. \A d \in Caller :
            /\ thread'[d]["SPAWN"] = IF d = c THEN end ELSE thread[d]["SPAWN"]
            /\ thread'[d]["ATTACH"] = thread[d]["ATTACH"]
            /\ thread'[d]["KILL"] = thread[d]["KILL"]
    BY <2>0
  <2>2. ASSUME NEW d \in Caller, Settled(old[d]) PROVE mine # old[d]
    BY <2>0, <2>2
  <2>3. ASSUME NEW d \in Caller, Settled(old[d]) PROVE Settled(old[d])'
    BY <2>0, <2>1, <2>3
  <2>4. \A d \in Caller : at[d] \in {"idle", "kill"} => Unused(d)'
    BY <2>0, <2>1
  <2> HIDE DEF mine, end, Settled
  <2>5. Respawning'
    BY <2>0, <2>1, <2>2, <2>3, <2>4 DEF end, mine
  <2> QED
    BY <2>0, <2>5
<1>6. ASSUME NEW c \in Caller, KillRemoves(c) PROVE Respawning' /\ RespawnIsFresh'
  BY <1>6 DEF KillRemoves
<1>7. ASSUME NEW c \in Caller, KillSignals(c) PROVE Respawning' /\ RespawnIsFresh'
  BY <1>7 DEF KillSignals
<1>8. ASSUME NEW p \in Pane, ProcExits(p) PROVE Respawning' /\ RespawnIsFresh'
  BY <1>8 DEF ProcExits
<1>9. ASSUME NEW p \in Pane, ProcHides(p) PROVE Respawning' /\ RespawnIsFresh'
  BY <1>9 DEF ProcHides
<1>10. ASSUME NEW c \in Caller, Opens(c) PROVE Respawning' /\ RespawnIsFresh'
  BY <1>10 DEF Opens, Calls
<1>11. ASSUME NEW c \in Caller, Respawns(c) PROVE Respawning' /\ RespawnIsFresh'
  BY <1>11 DEF Respawns, Calls
<1>12. ASSUME NEW c \in Caller, Removes(c) PROVE Respawning' /\ RespawnIsFresh'
  BY <1>12 DEF Removes, Calls
<1>13. ASSUME NEW c \in Caller, KillWaitEnds(c) PROVE Respawning' /\ RespawnIsFresh'
  BY <1>13 DEF KillWaitEnds, Calls
<1>14. ASSUME NEW c \in Caller, ProbeAttaches(c) PROVE Respawning' /\ RespawnIsFresh'
  BY <1>14 DEF ProbeAttaches
<1>15. ASSUME NEW c \in Caller, ProbeFails(c) PROVE Respawning' /\ RespawnIsFresh'
  BY <1>15 DEF ProbeFails, Calls
<1>16. ASSUME NEW c \in Caller, SpawnAnswered(c) PROVE Respawning' /\ RespawnIsFresh'
  BY <1>16 DEF SpawnAnswered
<1>17. ASSUME NEW c \in Caller, SpawnRefused(c) PROVE Respawning' /\ RespawnIsFresh'
  BY <1>17 DEF SpawnRefused
<1>18. ASSUME NEW c \in Caller, Retries(c) PROVE Respawning' /\ RespawnIsFresh'
  BY <1>18 DEF Retries, Calls
<1>19. CASE UNCHANGED registryVars
  BY <1>19 DEF registryVars
<1> QED
  BY <1>1, <1>2, <1>3, <1>4, <1>5, <1>6, <1>7, <1>8, <1>9, <1>10, <1>11,
     <1>12, <1>13, <1>14, <1>15, <1>16, <1>17, <1>18, <1>19
     DEF RegistryNext, Daemon, Gui

(* A respawn ends up on another pane than the one it killed: on one that   *)
(* was started since, or that somebody else registered since.              *)
THEOREM RespawnStaysFresh ==
    ASSUME "kill" \notin Timeouts
    PROVE  RegistrySpec => []RespawnIsFresh
<1>1. RegistryInit => RespawnInv
  BY RespawnInvInit
<1>2. RespawnInv /\ [RegistryNext]_registryVars => RespawnInv'
  BY RegistryInvStep, RespawnInvStep DEF RespawnInv
<1>3. RespawnInv => RespawnIsFresh
  BY DEF RespawnInv
<1> QED
  BY <1>1, <1>2, <1>3, PTL DEF RegistrySpec
=============================================================================
