------------------------------ MODULE MCClient ------------------------------
(***************************************************************************)
(* The GUI's side: an AI task, a remote link, a pane, and the clients that *)
(* open and remove one pane id.  They share no state (what the link means  *)
(* to a pane is the pane's `up`), so the instance is their sum: a          *)
(* behaviour is one of one part, while the others rest in their initial    *)
(* state.  There nothing that is fair is enabled, so their fairness asks   *)
(* for nothing.                                                            *)
(***************************************************************************)
EXTENDS AITask, RemoteLink, PaneClient, Registry
CONSTANTS p1, p2, g1, g2, u1, u2, u3

VARIABLE part

MCClientInit ==
    /\ TaskInit /\ LinkInit /\ ClientInit /\ RegistryInit
    /\ part \in {"task", "link", "pane", "registry"}

TaskPart == part = "task" /\ TaskNext
LinkPart == part = "link" /\ LinkNext
PanePart == part = "pane" /\ ClientNext
RegistryPart == part = "registry" /\ RegistryNext

MCClientNext ==
    /\ part' = part
    /\ \/ TaskPart /\ UNCHANGED <<linkVars, clientVars, registryVars>>
       \/ LinkPart /\ UNCHANGED <<taskVars, clientVars, registryVars>>
       \/ PanePart /\ UNCHANGED <<taskVars, linkVars, registryVars>>
       \/ RegistryPart /\ UNCHANGED <<taskVars, linkVars, clientVars>>

MCClientSpec ==
    /\ MCClientInit
    /\ [][MCClientNext]_<<part, taskVars, linkVars, clientVars, registryVars>>
    /\ TaskFairness /\ LinkFairness /\ ClientFairness /\ RegistryFairness

MCClientTypeOK == TaskTypeOK /\ LinkTypeOK /\ ClientTypeOK /\ RegistryTypeOK
=============================================================================
