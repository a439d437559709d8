-------------------------- MODULE MCWorkspacePage ---------------------------
(* The page of a workspace: which workspace is open, and the parts of its    *)
(* tabs, one at a time (see part).                                           *)
EXTENDS WorkspaceSelection, LiveDeployment, UsersTable, UsersOverview,
        ServerDetails, WorkspaceDomains, TLC

CONSTANTS w1, w2

VARIABLE part

vars == <<selectionVars, liveVars, usersVars, overviewVars, detailsVars, domainsVars, part>>

\* The parts that are not looked at have one initial state.
Init ==
  /\ part \in {"selection", "live", "users", "overview", "details", "domains"}
  /\ SelectionInit /\ (part # "selection" =>
       session = User /\ stored = NoId)
  /\ LiveInit
  /\ UsersInit /\ (part # "users" =>
       allYml = [w \in Homes |-> CHOOSE f \in FirstFiles : f.rest = w])
  /\ OverviewInit /\ (part # "overview" =>
       \A w \in TeamSpaces : usersFile[w].full = Logins)
  /\ DetailsInit /\ (part # "details" =>
       devices = [n \in Names |-> IF n = (CHOOSE m \in Names : TRUE) THEN NewDevice(0) ELSE NoDevice])
  /\ DomainsInit /\ (part # "domains" =>
       (hostDomain = [s \in Sites |-> Localhost] /\
         \E s \in Sites : \A d \in Domain \ {Localhost} : domainFile[s].catalog[d] = "reserved"))

Next ==
  /\ UNCHANGED part
  /\ \/ part = "selection" /\ SelectionNext
        /\ UNCHANGED <<liveVars, usersVars, overviewVars, detailsVars, domainsVars>>
     \/ part = "live" /\ LiveNext
        /\ UNCHANGED <<selectionVars, usersVars, overviewVars, detailsVars, domainsVars>>
     \/ part = "users" /\ UsersNext
        /\ UNCHANGED <<selectionVars, liveVars, overviewVars, detailsVars, domainsVars>>
     \/ part = "overview" /\ OverviewNext
        /\ UNCHANGED <<selectionVars, liveVars, usersVars, detailsVars, domainsVars>>
     \/ part = "details" /\ DetailsNext
        /\ UNCHANGED <<selectionVars, liveVars, usersVars, overviewVars, domainsVars>>
     \/ part = "domains" /\ DomainsNext
        /\ UNCHANGED <<selectionVars, liveVars, usersVars, overviewVars, detailsVars>>

Spec == Init /\ [][Next]_vars

\* What TLC starts from: as names are interchangeable, the first device has one of
\* them; every workspace has its group_vars, which others may delete later; and the
\* default domain is the one that has a subdomain.
SmallInit ==
  /\ Init
  /\ \A n \in Names : devices[n] # NoDevice => n = CHOOSE m \in Names : TRUE
  /\ \A w \in Homes : allYml[w] # NoFile
  /\ part = "domains" => \E s \in Sites : LET file == domainFile[s] IN
       \E a \in Apexes : /\ file.catalog[a] = IF file.primary = a THEN "active" ELSE "disabled"
                         /\ \A d \in Subdomains : (file.catalog[d] # "absent") = (file.primary = a)
SmallSpec == SmallInit /\ [][Next]_vars

\* The variables of the part have their types (useWorkspacePanelSessionState.ts,
\* DeploymentWorkspaceContainer.tsx).
PageTypeOK ==
  /\ part = "selection" => SelectionTypeOK
  /\ part = "live" => LiveTypeOK
  /\ part = "users" => UsersTypeOK
  /\ part = "overview" => OverviewTypeOK
  /\ part = "details" => DetailsTypeOK
  /\ part = "domains" => DomainsTypeOK
=============================================================================
