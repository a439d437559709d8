------------------------- MODULE MCWorkspaceHistory -------------------------
(* What the API keeps of one workspace besides its files: their history, the *)
(* dialog that shows it to one user, and the members of the workspace; the   *)
(* frame of the page with the session of the browser; what its customer      *)
(* orders; and its audit log.  They share no state: part says which of them  *)
(* a behaviour is about, and the others keep their initial state.            *)
EXTENDS WorkspaceHistory, HistoryPanel, WorkspaceMembers, PageShell,
        CustomerOrders, AuditLog, TLC

CONSTANTS Mine, Other

TwoSettings == {[mode |-> "all", quiet |-> FALSE], [mode |-> "errors", quiet |-> TRUE]}

\* What the files hold at first, those that are there.
Version == CHOOSE v \in Plain : TRUE

VARIABLE part

vars == <<historyVars, historyPanelVars, membersVars, shellVars, ordersVars,
          auditVars, part>>

\* The user owns one workspace and is invited to the other one.
Init ==
  /\ part \in {"api", "dialog", "members", "shell", "orders", "audit"}
  /\ HistoryInit
  /\ \E fs \in SUBSET Files :
       /\ payload = [f \in Files |-> IF f \in fs THEN Version ELSE NoFile]
       /\ part # "api" => fs = Files
  /\ MembersInit
  /\ meta[Mine] = [owner |-> Me, members |-> {}, pending |-> {}]
  /\ \A s \in Shared \ {Mine} : meta[s] = [owner |-> Other, members |-> {}, pending |-> {Me}]
  /\ ShellInit
  /\ part # "shell" =>
       /\ storedName = NoName /\ queryName = NoName
       /\ address = [panel |-> "none", mode |-> "none", home |-> NoHome]
       /\ storedMode = [h \in Homes |-> "none"]
  /\ OrdersInit
  /\ part # "orders" => \A s \in Shops, p \in Machines \X Apps : carts[s][p] = "absent"
  /\ HistoryPanelInit /\ AuditInit

Next ==
  /\ UNCHANGED part
  /\ \/ /\ part = "api" /\ HistoryNext
        /\ UNCHANGED <<historyPanelVars, membersVars, shellVars, ordersVars, auditVars>>
     \/ /\ part = "dialog" /\ HistoryPanelNext
        /\ UNCHANGED <<historyVars, membersVars, shellVars, ordersVars, auditVars>>
     \/ /\ part = "members" /\ MembersNext
        /\ UNCHANGED <<historyVars, historyPanelVars, shellVars, ordersVars, auditVars>>
     \/ /\ part = "shell" /\ ShellNext
        /\ UNCHANGED <<historyVars, historyPanelVars, membersVars, ordersVars, auditVars>>
     \/ /\ part = "orders" /\ OrdersNext
        /\ UNCHANGED <<historyVars, historyPanelVars, membersVars, shellVars, auditVars>>
     \/ /\ part = "audit" /\ AuditNext
        /\ UNCHANGED <<historyVars, historyPanelVars, membersVars, shellVars, ordersVars>>

Spec == Init /\ [][Next]_vars

\* The variables of the parts have their types (mixins/history, useWorkspaceHistory.ts,
\* mixins/rbac.py, MembersPanel.tsx, AccountHub.tsx, AccountPanel.tsx,
\* DeploymentWorkspaceContainer.tsx, BillingPanel.tsx, OrderTabPanel.tsx,
\* audit_logs_query.py, AuditLogsPanel.tsx).
HistoriesTypeOK ==
  HistoryTypeOK /\ HistoryPanelTypeOK /\ MembersTypeOK /\ ShellTypeOK /\ OrdersTypeOK
  /\ AuditTypeOK
=============================================================================
