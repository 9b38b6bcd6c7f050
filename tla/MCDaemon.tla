------------------------------ MODULE MCDaemon ------------------------------
(***************************************************************************)
(* The parts of the daemon that SessionPane does not hold: the replay ring *)
(* chunk by chunk, the paste tracker, the registry of one pane id and the  *)
(* reports that reach it.  They share no state, so the instance is their   *)
(* sum: a behaviour is one of one part, while the others rest.             *)
(***************************************************************************)
EXTENDS ReplayRing, PasteTracker, Registry, AgentReports, TLC
CONSTANTS s1, s2, esc, num, high, low, g1, g2, j1

PasteOn == <<esc, num, high>>
PasteOff == <<esc, num, low>>
Symmetry == Permutations(Caller)

VARIABLE part

DaemonInit ==
    /\ RingInit /\ PasteInit /\ RegistryInit /\ ReportsInit
    /\ part \in {"ring", "paste", "registry", "reports"}

RingPart == part = "ring" /\ RingNext
PastePart == part = "paste" /\ PasteReads
RegistryPart == part = "registry" /\ RegistryNext
ReportsPart == part = "reports" /\ ReportsNext

DaemonNext ==
    /\ part' = part
    /\ \/ RingPart /\ UNCHANGED <<pasteVars, registryVars, reportsVars>>
       \/ PastePart /\ UNCHANGED <<ringVars, registryVars, reportsVars>>
       \/ RegistryPart /\ UNCHANGED <<ringVars, pasteVars, reportsVars>>
       \/ ReportsPart /\ UNCHANGED <<ringVars, pasteVars, registryVars>>

DaemonSpec ==
    DaemonInit /\ [][DaemonNext]_<<part, ringVars, pasteVars, registryVars, reportsVars>>

DaemonTypeOK == RingTypeOK /\ RegistryTypeOK /\ ReportsTypeOK
=============================================================================
