------------------------- MODULE MCWorkspaceServers -------------------------
(* The servers of a workspace and their software: the inventory that follows *)
(* the page, and the Software tab, one part at a time (see part).            *)
EXTENDS InventorySync, RoleConfig, SoftwareFilters, SoftwareSelection, TLC

VARIABLE part

vars == <<syncVars, roleConfigVars, filtersVars, softwareVars, part>>

\* Three apps: one is an alpha, and a search finds two of them.
ThreeApps == CHOOSE f \in [Apps -> [status : Statuses, words : SUBSET Words]] :
  \E a, b \in Apps :
    /\ a # b /\ \A c \in Apps : (f[c].status = "alpha") = (c = a)
    /\ \A c \in Apps : f[c].words = (IF c = b THEN {} ELSE Words)

\* The parts that are not looked at have one initial state.
Init ==
  /\ part \in {"sync", "config", "filters", "selection"}
  /\ SyncInit /\ RoleConfigInit
  /\ FiltersInit /\ apps = ThreeApps /\ (part # "filters" => rolesThere)
  /\ SoftwareInit /\ onHost = [h \in Hosts |-> {}]

OfSync(A) == part = "sync" /\ A
  /\ UNCHANGED <<roleConfigVars, filtersVars, softwareVars, part>>

Next ==
  \/ OfSync(SyncNext)
  \/ part = "config" /\ RoleConfigNext
       /\ UNCHANGED <<syncVars, filtersVars, softwareVars, part>>
  \/ part = "filters" /\ FiltersNext
       /\ UNCHANGED <<syncVars, roleConfigVars, softwareVars, part>>
  \/ part = "selection" /\ SoftwareNext
       /\ UNCHANGED <<syncVars, roleConfigVars, filtersVars, part>>

\* SyncFairness, of its part.
Spec ==
  /\ Init /\ [][Next]_vars
  /\ WF_vars(OfSync(RenderDue)) /\ WF_vars(OfSync(FetchRoles \/ ApplyRoles))
  /\ \A s \in Refs : WF_vars(OfSync(Continue(s)))

\* The variables of each part have their types.
ServersTypeOK ==
  CASE part = "sync" -> SyncTypeOK
    [] part = "config" -> RoleConfigTypeOK
    [] part = "filters" -> FiltersTypeOK
    [] OTHER -> SoftwareTypeOK
=============================================================================
