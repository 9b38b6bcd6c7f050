------------------------------ MODULE Registry ------------------------------
(***************************************************************************)
(* The pane registry of goty-sessiond (sessiond/src/main.rs: Registry and  *)
(* dispatch) and the GUI clients that use it (SessionDaemon.swift:         *)
(* openPaneWithAttachment, killPaneAndWait, killPane), for one pane id:    *)
(* the registry is a map, and calls on different ids do not meet in it.    *)
(*                                                                         *)
(* Every connection is served by a thread of its own, which takes the      *)
(* registry's mutex for one look-up, insertion or removal at a time.  A    *)
(* client that gives up on a call leaves its thread running.               *)
(*                                                                         *)
(* Panes, the processes started for the id, are numbered as they start.    *)
(***************************************************************************)
EXTENDS Naturals, FiniteSets

CONSTANTS
    Caller,     \* the callers of SessionDaemon in all GUIs of this daemon
    Programs,   \* what they do: "open", "respawn", "remove"
    Timeouts,   \* the waits that may run out: "kill", "attach", "spawn"
    Faults,     \* what befalls the processes: "exit", "hide", "fail"
    MaxPanes    \* bound: panes ever started

ASSUME RegistryAssumption ==
    /\ Programs \subseteq {"open", "respawn", "remove"}
    /\ Timeouts \subseteq {"kill", "attach", "spawn"}
    /\ Faults \subseteq {"exit", "hide", "fail"}
    /\ MaxPanes \in Nat

NoPane == 0
Pane == 1 .. MaxPanes
Call == {"KILL", "ATTACH", "SPAWN"}

VARIABLES
    registered,     \* Registry.panes at the id
    spawned,        \* panes started so far
    proc,           \* per pane: its child
    thread,         \* per client and call: where its daemon thread is
    held,           \* per client and call: the pane that thread holds
    program, at,    \* per client: what it is doing, and how far it is
    pane,           \* per client: the pane it streams
    old,            \* history: the pane registered when it sent its KILL
    removed         \* history: the panes KILL took out of the registry

threadVars == <<thread, held>>
callerVars == <<program, at, pane, old>>
registryVars == <<registered, spawned, proc, thread, held, program, at, pane,
                  old, removed>>

RegistryInit ==
    /\ registered = NoPane
    /\ spawned = 0
    /\ proc = [p \in Pane |-> "none"]
    /\ thread = [c \in Caller |-> [k \in Call |-> "none"]]
    /\ held = [c \in Caller |-> [k \in Call |-> NoPane]]
    /\ program = [c \in Caller |-> "none"]
    /\ at = [c \in Caller |-> "idle"]
    /\ pane = [c \in Caller |-> NoPane]
    /\ old = [c \in Caller |-> NoPane]
    /\ removed = {}

-----------------------------------------------------------------------------
(* The daemon's threads. *)

(* ATTACH: the Arc outlives the registry entry. *)
AttachLooksUp(c) ==
    /\ thread[c]["ATTACH"] = "lookup"
    /\ thread' = [thread EXCEPT ![c]["ATTACH"] =
                      IF registered = NoPane THEN "error" ELSE "stream"]
    /\ held' = [held EXCEPT ![c]["ATTACH"] = registered]
    /\ UNCHANGED <<registered, spawned, proc, callerVars, removed>>

SpawnChecks(c) ==
    /\ thread[c]["SPAWN"] = "check"
    /\ thread' = [thread EXCEPT ![c]["SPAWN"] =
                      IF registered = NoPane THEN "start" ELSE "error"]
    /\ UNCHANGED <<registered, spawned, proc, held, callerVars, removed>>

(* Pane::spawn, with no lock held. *)
SpawnStarts(c) ==
    /\ thread[c]["SPAWN"] = "start"
    /\ spawned < MaxPanes
    /\ spawned' = spawned + 1
    /\ proc' = [proc EXCEPT ![spawned + 1] = "running"]
    /\ held' = [held EXCEPT ![c]["SPAWN"] = spawned + 1]
    /\ thread' = [thread EXCEPT ![c]["SPAWN"] = "insert"]
    /\ UNCHANGED <<registered, callerVars, removed>>

(* The thread returns the error; the client sees the connection close. *)
SpawnFails(c) ==
    /\ "fail" \in Faults
    /\ thread[c]["SPAWN"] = "start"
    /\ thread' = [thread EXCEPT ![c]["SPAWN"] = "closed"]
    /\ UNCHANGED <<registered, spawned, proc, held, callerVars, removed>>

(* Mutant: insert does not look at what is registered by now. *)
InsertOverwrites(c) ==
    /\ thread[c]["SPAWN"] = "insert"
    /\ registered' = held[c]["SPAWN"]
    /\ thread' = [thread EXCEPT ![c]["SPAWN"] = "stream"]
    /\ UNCHANGED <<spawned, proc, held, callerVars, removed>>

(* Registry::insert refuses a second pane.  The refused one is dropped by  *)
(* its thread, but its reader thread still owns it: its child goes on.     *)
SpawnInserts(c) ==
    /\ thread[c]["SPAWN"] = "insert"
    /\ IF registered = NoPane
       THEN /\ registered' = held[c]["SPAWN"]
            /\ thread' = [thread EXCEPT ![c]["SPAWN"] = "stream"]
       ELSE /\ thread' = [thread EXCEPT ![c]["SPAWN"] = "closed"]
            /\ UNCHANGED registered
    /\ UNCHANGED <<spawned, proc, held, callerVars, removed>>

(* Mutant: the entry is left for the child's exit to clear. *)
KillKeepsEntry(c) ==
    /\ thread[c]["KILL"] = "remove"
    /\ held' = [held EXCEPT ![c]["KILL"] = registered]
    /\ thread' = [thread EXCEPT ![c]["KILL"] =
                      IF registered = NoPane THEN "closed" ELSE "signal"]
    /\ UNCHANGED <<registered, spawned, proc, callerVars, removed>>

KillRemoves(c) ==
    /\ thread[c]["KILL"] = "remove"
    /\ held' = [held EXCEPT ![c]["KILL"] = registered]
    /\ removed' = removed \cup ({registered} \ {NoPane})
    /\ registered' = NoPane
    /\ thread' = [thread EXCEPT ![c]["KILL"] =
                      IF registered = NoPane THEN "closed" ELSE "signal"]
    /\ UNCHANGED <<spawned, proc, callerVars>>

(* Mutant: the pane is unregistered and its child is left alone. *)
KillOnlyUnregisters(c) ==
    /\ thread[c]["KILL"] = "signal"
    /\ thread' = [thread EXCEPT ![c]["KILL"] = "closed"]
    /\ UNCHANGED <<registered, spawned, proc, held, callerVars, removed>>

(* Pane::kill waits for the child's mutex, which the reader holds while it *)
(* waits for a child that closed its terminal.                             *)
KillSignals(c) ==
    LET p == held[c]["KILL"]
    IN  /\ thread[c]["KILL"] = "signal"
        /\ proc[p] # "hidden"
        /\ proc' = [proc EXCEPT ![p] = IF @ = "running" THEN "signalled" ELSE @]
        /\ thread' = [thread EXCEPT ![c]["KILL"] = "closed"]
        /\ UNCHANGED <<registered, spawned, held, callerVars, removed>>

-----------------------------------------------------------------------------
(* The children. *)

ProcExits(p) ==
    /\ proc[p] = "signalled" \/ ("exit" \in Faults /\ proc[p] \in {"running", "hidden"})
    /\ proc' = [proc EXCEPT ![p] = "exited"]
    /\ UNCHANGED <<registered, spawned, threadVars, callerVars, removed>>

ProcHides(p) ==
    /\ "hide" \in Faults
    /\ proc[p] = "running"
    /\ proc' = [proc EXCEPT ![p] = "hidden"]
    /\ UNCHANGED <<registered, spawned, threadVars, callerVars, removed>>

-----------------------------------------------------------------------------
(* The clients. *)

Calls(c, k, pc) == thread' = [thread EXCEPT ![c][k] = pc]

(* openPane begins with an ATTACH probe. *)
Opens(c) ==
    /\ "open" \in Programs
    /\ at[c] = "idle"
    /\ program' = [program EXCEPT ![c] = "open"]
    /\ at' = [at EXCEPT ![c] = "probe"]
    /\ Calls(c, "ATTACH", "lookup")
    /\ UNCHANGED <<registered, spawned, proc, held, pane, old, removed>>

(* load / respawnAfterReadyTimeout: kill, wait for EOF, open again. *)
Respawns(c) ==
    /\ "respawn" \in Programs
    /\ at[c] = "idle"
    /\ program' = [program EXCEPT ![c] = "respawn"]
    /\ at' = [at EXCEPT ![c] = "kill"]
    /\ old' = [old EXCEPT ![c] = registered]
    /\ Calls(c, "KILL", "remove")
    /\ UNCHANGED <<registered, spawned, proc, held, pane, removed>>

(* killPane sends the frame and closes. *)
Removes(c) ==
    /\ "remove" \in Programs
    /\ at[c] = "idle"
    /\ program' = [program EXCEPT ![c] = "remove"]
    /\ at' = [at EXCEPT ![c] = "done"]
    /\ Calls(c, "KILL", "remove")
    /\ UNCHANGED <<registered, spawned, proc, held, pane, old, removed>>

(* waitForEOF ends with the connection or after two seconds; its callers   *)
(* go on either way.                                                       *)
KillWaitEnds(c) ==
    /\ at[c] = "kill"
    /\ thread[c]["KILL"] = "closed" \/ "kill" \in Timeouts
    /\ at' = [at EXCEPT ![c] = "probe"]
    /\ Calls(c, "ATTACH", "lookup")
    /\ UNCHANGED <<registered, spawned, proc, held, program, pane, old,
                   removed>>

ProbeAttaches(c) ==
    /\ at[c] = "probe"
    /\ thread[c]["ATTACH"] = "stream"
    /\ at' = [at EXCEPT ![c] = "stream"]
    /\ pane' = [pane EXCEPT ![c] = held[c]["ATTACH"]]
    /\ UNCHANGED <<registered, spawned, proc, threadVars, program, old,
                   removed>>

(* An ERROR frame and a probe without an answer are the same to it. *)
ProbeFails(c) ==
    /\ at[c] = "probe"
    /\ thread[c]["ATTACH"] = "error" \/ "attach" \in Timeouts
    /\ at' = [at EXCEPT ![c] = "spawn"]
    /\ Calls(c, "SPAWN", "check")
    /\ UNCHANGED <<registered, spawned, proc, held, program, pane, old,
                   removed>>

SpawnAnswered(c) ==
    /\ at[c] = "spawn"
    /\ thread[c]["SPAWN"] = "stream"
    /\ at' = [at EXCEPT ![c] = "stream"]
    /\ pane' = [pane EXCEPT ![c] = held[c]["SPAWN"]]
    /\ UNCHANGED <<registered, spawned, proc, threadVars, program, old,
                   removed>>

SpawnRefused(c) ==
    /\ at[c] = "spawn"
    /\ thread[c]["SPAWN"] \in {"error", "closed"} \/ "spawn" \in Timeouts
    /\ at' = [at EXCEPT ![c] = "failed"]
    /\ UNCHANGED <<registered, spawned, proc, threadVars, program, pane, old,
                   removed>>

(* Mutant: the retry spawns without probing again. *)
RetriesSpawn(c) ==
    /\ at[c] = "failed"
    /\ thread[c]["SPAWN"] \notin {"check", "start", "insert"}
    /\ at' = [at EXCEPT ![c] = "spawn"]
    /\ Calls(c, "SPAWN", "check")
    /\ UNCHANGED <<registered, spawned, proc, held, program, pane, old,
                   removed>>

(* PaneHost opens again a second later (once its old threads are through,  *)
(* which keeps one thread per client and call).                            *)
Retries(c) ==
    /\ at[c] = "failed"
    /\ thread[c]["ATTACH"] # "lookup"
    /\ thread[c]["SPAWN"] \notin {"check", "start", "insert"}
    /\ at' = [at EXCEPT ![c] = "probe"]
    /\ Calls(c, "ATTACH", "lookup")
    /\ UNCHANGED <<registered, spawned, proc, held, program, pane, old,
                   removed>>

-----------------------------------------------------------------------------
Daemon(c) ==
    \/ AttachLooksUp(c)
    \/ SpawnChecks(c) \/ SpawnStarts(c) \/ SpawnFails(c) \/ SpawnInserts(c)
    \/ KillRemoves(c) \/ KillSignals(c)

Gui(c) ==
    \/ Opens(c) \/ Respawns(c) \/ Removes(c) \/ KillWaitEnds(c)
    \/ ProbeAttaches(c) \/ ProbeFails(c) \/ SpawnAnswered(c) \/ SpawnRefused(c)
    \/ Retries(c)

RegistryNext ==
    \/ \E c \in Caller : Daemon(c) \/ Gui(c)
    \/ \E p \in Pane : ProcExits(p) \/ ProcHides(p)

RegistrySpec == RegistryInit /\ [][RegistryNext]_registryVars

(* Threads run; a call once begun is carried on; a signalled child exits.  *)
(* Whether a client begins at all is its user's business.                  *)
RegistryFairness ==
    /\ \A c \in Caller :
           /\ WF_registryVars(AttachLooksUp(c))
           /\ WF_registryVars(SpawnChecks(c) \/ SpawnStarts(c) \/ SpawnFails(c)
                                 \/ SpawnInserts(c))
           /\ WF_registryVars(KillRemoves(c) \/ KillSignals(c))
           /\ WF_registryVars(at[c] # "idle" /\ Gui(c))
    /\ \A p \in Pane : WF_registryVars(proc[p] = "signalled" /\ ProcExits(p))

RegistryFairSpec == RegistrySpec /\ RegistryFairness

-----------------------------------------------------------------------------
RegistryTypeOK ==
    /\ registered \in Pane \cup {NoPane}
    /\ spawned \in 0 .. MaxPanes
    /\ proc \in [Pane -> {"none", "running", "hidden", "signalled", "exited"}]
    /\ thread \in [Caller -> [Call -> {"none", "lookup", "check", "start", "insert",
                                       "remove", "signal", "stream", "error",
                                       "closed"}]]
    /\ held \in [Caller -> [Call -> Pane \cup {NoPane}]]
    /\ program \in [Caller -> {"none", "open", "respawn", "remove"}]
    /\ at \in [Caller -> {"idle", "kill", "probe", "spawn", "stream", "failed",
                           "done"}]
    /\ pane \in [Caller -> Pane \cup {NoPane}]
    /\ old \in [Caller -> Pane \cup {NoPane}]
    /\ removed \subseteq Pane

(***************************************************************************)
(* "The kill must be ACKNOWLEDGED (daemon-side registry removal) before    *)
(* the respawn": whoever kills a pane and opens its id again never ends up *)
(* on the very pane it killed.                                             *)
(***************************************************************************)
RespawnIsFresh ==
    \A c \in Caller :
        program[c] = "respawn" /\ at[c] = "stream" => pane[c] # old[c]

(***************************************************************************)
(* A SPAWN answered SPAWNED is the pane everybody else finds: it stays the *)
(* registered one until a KILL takes it out, whoever raced it (insert      *)
(* checks again what SpawnChecks saw before the child was started).        *)
(***************************************************************************)
SpawnedIsRegistered ==
    \A c \in Caller :
        thread[c]["SPAWN"] = "stream" =>
            held[c]["SPAWN"] = registered \/ held[c]["SPAWN"] \in removed

(***************************************************************************)
(* "spawn only when the pane does not exist yet" (openPane): no second     *)
(* process is started for an id while one is alive and nobody killed it.   *)
(***************************************************************************)
Alive == {p \in Pane : proc[p] \in {"running", "hidden"} /\ p \notin removed}

OneLiveProcess == Cardinality(Alive) <= 1

(***************************************************************************)
(* Whoever opens a pane gets a stream in the end, whatever races it for    *)
(* the id.                                                                 *)
(***************************************************************************)
OpenSucceeds ==
    (\E c \in Caller : at[c] = "probe")
        ~> (\A c \in Caller : program[c] = "open" => at[c] = "stream")

(***************************************************************************)
(* Panes that KILL took out of the registry do not run on out of reach.    *)
(***************************************************************************)
RemovedEnds == removed # {} ~> (\A p \in removed : proc[p] = "exited")
=============================================================================
