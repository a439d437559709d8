----------------------------- MODULE RoleConfig -----------------------------
(* The settings of a role on a server, applications.<role> in its host_vars. *)
(* Four parts of the page write them: the forms and the services of the role *)
(* details field by field, the choice of a plan by reading and replacing all *)
(* of them, and the editor by replacing them with a text.                    *)
EXTENDS Naturals

CONSTANTS RoleIds, Servers,
          FieldValues,  \* of the one field of the form
          DefaultValue, \* what config/main.yml of a role says
          Unset,        \* no override in host_vars
          NoRole,
          MaxTouches    \* bound on what the user does

ASSUME RoleConfigAssumption ==
  /\ RoleIds # {} /\ Servers # {} /\ DefaultValue \in FieldValues
  /\ Unset \notin FieldValues /\ NoRole \notin RoleIds /\ MaxTouches \in Nat

VARIABLES sections,    \* applications.<role> per server
          detailsRole, \* the role of the details, or none
          detailsServer, detailsTab,
          formRow, serviceRow,
          debounced,   \* the value that waits to be patched
          loadError,
          configCalls, \* requests in flight
          editingRole, editorServer, editorContent, editorBusy,
          contentOf,   \* the settings the content of the editor comes from
          editMixed,   \* an answer came that was asked for by an earlier editing
          rowsOvertaken, \* a write or an answer overtook what the rows show
          touches

roleConfigVars == <<sections, detailsRole, detailsServer, detailsTab, formRow,
  serviceRow, debounced, loadError, configCalls, editingRole, editorServer,
  editorContent, editorBusy, contentOf, editMixed, rowsOvertaken, touches>>
rowVars == <<detailsRole, detailsServer, detailsTab, formRow, serviceRow,
  debounced, loadError, rowsOvertaken>>
configEditorVars == <<editingRole, editorServer, editorContent, editorBusy,
  contentOf, editMixed>>

Target == RoleIds \X Servers
\* The field, an integrated service, plan_id, and whether the credentials
\* still carry the tag of the vault.
Section == [field : FieldValues \cup {Unset}, service : {"unset", "on", "off"},
            plan : BOOLEAN, sealed : BOOLEAN]
Blank ==
  [field |-> Unset, service |-> "unset", plan |-> FALSE, sealed |-> FALSE]
DetailsCall == {"formsRead", "servicesRead", "patch", "reset", "toggle"}
EditorCall == {"load", "save", "import"}
PlanCall == {"planGet", "planPut"}
ConfigCall == [kind : DetailsCall \cup EditorCall \cup PlanCall \cup {"none"},
               of : Target, what : Section, state : {"sent", "done", "failed"},
               taken : BOOLEAN]  \* whether who asked is still there
CallSlot == 1..2
NoConfigCall == [kind |-> "none", of |-> CHOOSE t \in Target : TRUE,
                 what |-> Blank, state |-> "sent", taken |-> FALSE]
FormRow == [value : FieldValues \cup {Unset}, override : BOOLEAN,
            pending : BOOLEAN, error : BOOLEAN]
InitialForm == [value |-> Unset, override |-> FALSE, pending |-> FALSE,
                error |-> FALSE]
ServiceRow == [enabled : BOOLEAN, pending : BOOLEAN, error : BOOLEAN]
InitialService == [enabled |-> FALSE, pending |-> FALSE, error |-> FALSE]

RoleConfigTypeOK ==
  /\ sections \in [Target -> Section] /\ detailsRole \in RoleIds \cup {NoRole}
  /\ detailsServer \in Servers
  /\ detailsTab \in {"general", "forms", "services", "billing"}
  /\ formRow \in FormRow /\ serviceRow \in ServiceRow
  /\ debounced \in FieldValues \cup {Unset}
  /\ configCalls \in [CallSlot -> ConfigCall]
  /\ editingRole \in RoleIds \cup {NoRole} /\ editorServer \in Servers
  /\ editorContent \in Section /\ contentOf \in Target
  /\ {editorBusy, loadError, editMixed, rowsOvertaken} \subseteq BOOLEAN
  /\ touches \in 0..MaxTouches

-----------------------------------------------------------------------------
InFlight == {i \in CallSlot : configCalls[i].kind # "none"}
ShownTarget == <<detailsRole, detailsServer>>
EditedTarget == <<editingRole, editorServer>>
Mounted(tab) == detailsRole # NoRole /\ detailsTab = tab

ConfigRequest(kind, of, what) ==
  [kind |-> kind, of |-> of, what |-> what, state |-> "sent", taken |-> TRUE]
\* A request takes the first free slot of calls.
SentConfig(calls, i, call) ==
  /\ calls[i].kind = "none"
  /\ \A j \in CallSlot : j < i => calls[j].kind # "none"
  /\ configCalls' = [calls EXCEPT ![i] = call]
SendConfig(i, call) == SentConfig(configCalls, i, call)
\* What a tab that goes, or that shows another server, no longer takes.
Unheard(kinds) == [i \in CallSlot |->
  IF configCalls[i].kind \in kinds THEN [configCalls[i] EXCEPT !.taken = FALSE]
  ELSE configCalls[i]]

TouchConfig == touches < MaxTouches /\ touches' = touches + 1

-----------------------------------------------------------------------------
(* The details of a role.                                                    *)

\* Every field starts with its default.
FreshRows == formRow' = InitialForm /\ serviceRow' = InitialService
\* (Defect: the rows of the server before stay.)
KeptRows == UNCHANGED <<formRow, serviceRow>>
\* The rows of another server start anew.
ResetRows == FreshRows

\* A tab of a role and a server is shown: the rows start anew, what waited for
\* its delay is dropped, and the overrides are read.
ShowTab(tab, role, server, unheard) ==
  /\ detailsRole' = role /\ detailsServer' = server /\ detailsTab' = tab
  /\ debounced' = Unset /\ loadError' = FALSE
  /\ rowsOvertaken' = (InFlight # {})
  /\ IF role # NoRole /\ tab \in {"forms", "services"}
     THEN \E i \in CallSlot : SentConfig(Unheard(unheard), i,
            ConfigRequest(IF tab = "forms" THEN "formsRead" ELSE "servicesRead",
                    <<role, server>>, Blank))
     ELSE configCalls' = Unheard(unheard)

OpenDetails(role, server) ==
  /\ TouchConfig /\ detailsRole = NoRole /\ editingRole = NoRole
  /\ ShowTab("general", role, server, DetailsCall) /\ FreshRows
  /\ UNCHANGED <<sections, configEditorVars>>
SelectTab(tab) ==
  /\ TouchConfig /\ detailsRole # NoRole /\ tab # detailsTab
  /\ ShowTab(tab, detailsRole, detailsServer, DetailsCall) /\ FreshRows
  /\ UNCHANGED <<sections, configEditorVars>>
CloseDetails ==
  /\ detailsRole # NoRole
  /\ ShowTab("general", NoRole, detailsServer, DetailsCall)
  /\ FreshRows /\ UNCHANGED <<sections, touches, configEditorVars>>
\* The server is another one, and the tab remains: it takes the answers to what
\* it has written for the server before.
SwitchServer(server) ==
  /\ TouchConfig /\ detailsRole # NoRole /\ server # detailsServer
  /\ ShowTab(detailsTab, detailsRole, server, {"formsRead", "servicesRead"})
  /\ ResetRows
  /\ UNCHANGED <<sections, configEditorVars>>

\* A field is changed, and written 300 ms later; until then it is locked.
ChangeField(v) ==
  /\ TouchConfig /\ Mounted("forms") /\ ~formRow.pending
  /\ formRow' = [formRow EXCEPT !.value = v, !.pending = TRUE, !.error = FALSE]
  /\ debounced' = v
  /\ UNCHANGED <<sections, detailsRole, detailsServer, detailsTab, serviceRow,
                 loadError, rowsOvertaken, configCalls, configEditorVars>>

\* A second write of the rows overlaps with the first.
RowWritesOverlap ==
  \E i \in InFlight : configCalls[i].kind \in {"patch", "reset", "toggle"}
PersistField ==
  /\ debounced # Unset /\ debounced' = Unset
  /\ rowsOvertaken' = (rowsOvertaken \/ RowWritesOverlap)
  /\ \E i \in CallSlot : SendConfig(i, ConfigRequest("patch", ShownTarget,
       [Blank EXCEPT !.field = debounced]))
  /\ UNCHANGED <<sections, detailsRole, detailsServer, detailsTab, formRow,
                 serviceRow, loadError, touches, configEditorVars>>

\* "Reset to default" takes the override away.
ResetField ==
  /\ TouchConfig /\ Mounted("forms") /\ formRow.override /\ ~formRow.pending
  /\ debounced' = Unset /\ rowsOvertaken' = (rowsOvertaken \/ RowWritesOverlap)
  /\ formRow' = [formRow EXCEPT !.pending = TRUE, !.error = FALSE]
  /\ \E i \in CallSlot :
       SendConfig(i, ConfigRequest("reset", ShownTarget, Blank))
  /\ UNCHANGED <<sections, detailsRole, detailsServer, detailsTab, serviceRow,
                 loadError, configEditorVars>>

ToggleService ==
  /\ TouchConfig /\ Mounted("services") /\ ~serviceRow.pending
  /\ serviceRow' = [enabled |-> ~serviceRow.enabled, pending |-> TRUE,
                     error |-> FALSE]
  /\ rowsOvertaken' = (rowsOvertaken \/ RowWritesOverlap)
  /\ \E i \in CallSlot : SendConfig(i, ConfigRequest("toggle", ShownTarget,
       [Blank EXCEPT !.service = IF serviceRow.enabled THEN "off" ELSE "on"]))
  /\ UNCHANGED <<sections, detailsRole, detailsServer, detailsTab, formRow,
                 debounced, loadError, configEditorVars>>

\* A plan is chosen: the settings are read, and then replaced.
SelectRolePlan(plan) ==
  /\ TouchConfig /\ Mounted("billing")
  /\ \E i \in CallSlot :
       SendConfig(i, ConfigRequest("planGet", ShownTarget,
         [Blank EXCEPT !.plan = plan]))
  /\ UNCHANGED <<sections, rowVars, configEditorVars>>

-----------------------------------------------------------------------------
(* The editor of the settings.                                               *)

AskEditor(kind, of, what) ==
  /\ editorBusy' = TRUE
  /\ \E i \in CallSlot : SendConfig(i, ConfigRequest(kind, of, what))

\* "Edit" closes the details. The content before stays until the answer.
StartEditRoleConfig ==
  /\ Mounted("billing")
  /\ detailsRole' = NoRole /\ editingRole' = detailsRole
  /\ editorServer' = detailsServer
  /\ AskEditor("load", ShownTarget, Blank)
  /\ editMixed' = FALSE
  /\ UNCHANGED <<sections, detailsServer, detailsTab, formRow, serviceRow,
       debounced, loadError, rowsOvertaken, editorContent, contentOf, touches>>

EditContent(v) ==
  /\ TouchConfig /\ editingRole # NoRole /\ ~editorBusy
  /\ editorContent' = [editorContent EXCEPT !.field = v]
  /\ UNCHANGED <<sections, rowVars, configCalls, editingRole,
       editorServer, editorBusy, contentOf, editMixed>>

SaveRoleConfig ==
  /\ TouchConfig /\ editingRole # NoRole /\ ~editorBusy
  /\ AskEditor("save", EditedTarget, editorContent)
  /\ UNCHANGED <<sections, rowVars, editingRole, editorServer,
       editorContent, contentOf, editMixed>>

ImportRoleDefaults ==
  /\ TouchConfig /\ editingRole # NoRole /\ ~editorBusy
  /\ AskEditor("import", EditedTarget, Blank)
  /\ UNCHANGED <<sections, rowVars, editingRole, editorServer,
       editorContent, contentOf, editMixed>>

\* Close, Escape, or the switch to the customer mode; nothing is saved.
CloseEditor ==
  /\ editingRole # NoRole /\ editingRole' = NoRole
  /\ configCalls' = Unheard(EditorCall)
  /\ UNCHANGED <<sections, rowVars, touches,
       editorServer, editorContent, editorBusy, contentOf, editMixed>>

-----------------------------------------------------------------------------
(* The API; each write holds the lock of the workspace.                      *)

StoredSection(call) == LET s == sections[call.of] IN
  CASE call.kind = "patch" -> [s EXCEPT !.field = call.what.field]
    [] call.kind = "reset" -> [s EXCEPT !.field = Unset]
    [] call.kind = "toggle" -> [s EXCEPT !.service = call.what.service]
    [] call.kind \in {"save", "planPut"} -> call.what
    [] call.kind = "import" ->
         [s EXCEPT !.field = IF @ = Unset THEN DefaultValue ELSE @]
    [] OTHER -> s
\* What an answer shows: the section; of planGet, with the plan that is asked.
RepliedSection(call) ==
  IF call.kind = "planGet"
  THEN [sections[call.of] EXCEPT !.plan = call.what.plan, !.sealed = FALSE]
  ELSE IF call.kind \in {"patch", "reset", "toggle"} THEN call.what
  ELSE StoredSection(call)

\* Rows are overtaken by what others write.
Overtaking(call) ==
  /\ detailsRole # NoRole /\ call.of = ShownTarget
  /\ call.kind \notin {"patch", "reset", "toggle"} \/ ~call.taken
  /\ \/ StoredSection(call).field # sections[call.of].field
     \/ StoredSection(call).service # sections[call.of].service

\* A request is served, and answered or not; or it fails.
ServeConfig(i) == LET call == configCalls[i] IN
  /\ call.kind # "none" /\ call.state = "sent"
  /\ \/ /\ sections' = [sections EXCEPT ![call.of] = StoredSection(call)]
        /\ rowsOvertaken' = (rowsOvertaken \/ Overtaking(call))
        /\ \/ configCalls' = [configCalls EXCEPT ![i].state = "done",
                                       ![i].what = RepliedSection(call)]
           \/ configCalls' = [configCalls EXCEPT ![i].state = "failed"]
     \/ /\ configCalls' = [configCalls EXCEPT ![i].state = "failed"]
        /\ UNCHANGED <<sections, rowsOvertaken>>
  /\ UNCHANGED <<detailsRole, detailsServer, detailsTab, formRow, serviceRow,
       debounced, loadError, touches, configEditorVars>>

-----------------------------------------------------------------------------
(* Answers.                                                                  *)

Overridden(v) ==
  [value |-> v, override |-> TRUE, pending |-> FALSE, error |-> FALSE]
\* The rows of the form after an answer, of whatever server it is.
FormAfter(call) ==
  IF call.state = "failed"
  THEN IF call.kind = "formsRead" THEN formRow
       ELSE [formRow EXCEPT !.pending = FALSE, !.error = TRUE]
  ELSE CASE call.kind = "reset" -> InitialForm
         [] call.kind = "patch" -> Overridden(call.what.field)
         [] OTHER -> IF call.what.field = Unset THEN formRow
                     ELSE Overridden(call.what.field)
ServiceAfter(call) ==
  CASE call.kind = "servicesRead" ->
         IF call.state = "failed" \/ call.what.service = "unset" THEN serviceRow
         ELSE [serviceRow EXCEPT !.enabled = (call.what.service = "on")]
    [] OTHER ->
         [enabled |-> (call.what.service = "on") # (call.state = "failed"),
          pending |-> FALSE, error |-> call.state = "failed"]

\* A row shows what is no longer stored, or stored for another server.
Outdated(call) ==
  \/ call.of # ShownTarget
  \/ /\ call.kind \in {"formsRead", "servicesRead"} /\ call.state = "done"
     /\ \/ call.what.field # sections[call.of].field
        \/ call.what.service # sections[call.of].service

RowsAnswered(i) == LET call == configCalls[i] IN
  /\ call.kind \in DetailsCall /\ call.state # "sent"
  /\ configCalls' = [configCalls EXCEPT ![i] = NoConfigCall]
  /\ IF call.taken
     THEN /\ IF call.kind \in {"formsRead", "patch", "reset"}
             THEN formRow' = FormAfter(call) /\ UNCHANGED serviceRow
             ELSE serviceRow' = ServiceAfter(call) /\ UNCHANGED formRow
          /\ loadError' = (loadError \/ (call.state = "failed"
                             /\ call.kind \in {"formsRead", "servicesRead"}))
          /\ rowsOvertaken' = (rowsOvertaken \/ Outdated(call))
     ELSE UNCHANGED <<formRow, serviceRow, loadError, rowsOvertaken>>
  /\ UNCHANGED <<sections, detailsRole, detailsServer, detailsTab, debounced,
                 touches, configEditorVars>>

\* The settings that were read are written, their plan replaced.
PlanAnswered(i) == LET call == configCalls[i] IN
  /\ call.kind \in PlanCall /\ call.state # "sent"
  /\ configCalls' = [configCalls EXCEPT ![i] =
       IF call.kind = "planGet" /\ call.state = "done"
       THEN ConfigRequest("planPut", call.of, call.what) ELSE NoConfigCall]
  /\ UNCHANGED <<sections, touches, rowVars, configEditorVars>>

\* (Defect: a load that fails leaves the content before.)
\* A load that fails leaves no content.
FailedLoad(call) == editorContent' = Blank /\ contentOf' = call.of

\* Any answer of the editor is for the content that is open, also one to what
\* an editing before has asked for.
EditorAnswered(i) == LET call == configCalls[i] IN
  /\ call.kind \in EditorCall /\ call.state # "sent"
  /\ configCalls' = [configCalls EXCEPT ![i] = NoConfigCall]
  /\ editorBusy' = FALSE /\ editMixed' = (editMixed \/ ~call.taken)
  /\ CASE call.state = "done" ->
            /\ editorContent' = call.what /\ contentOf' = call.of
            /\ editorServer' = call.of[2]
       [] call.state = "failed" /\ call.kind = "load" ->
            FailedLoad(call) /\ editorServer' = call.of[2]
       [] OTHER -> UNCHANGED <<editorContent, contentOf, editorServer>>
  /\ UNCHANGED <<sections, touches, rowVars, editingRole>>

-----------------------------------------------------------------------------
RoleConfigInit ==
  /\ sections = [t \in Target |-> [Blank EXCEPT !.sealed = TRUE]]
  /\ detailsRole = NoRole /\ detailsServer = (CHOOSE s \in Servers : TRUE)
  /\ detailsTab = "general" /\ formRow = InitialForm
  /\ serviceRow = InitialService /\ debounced = Unset
  /\ configCalls = [i \in CallSlot |-> NoConfigCall]
  /\ editingRole = NoRole /\ editorServer = detailsServer
  /\ editorContent = Blank /\ contentOf = NoConfigCall.of
  /\ editorBusy = FALSE /\ loadError = FALSE /\ editMixed = FALSE
  /\ rowsOvertaken = FALSE /\ touches = 0

RoleConfigNext ==
  \/ \E r \in RoleIds, s \in Servers : OpenDetails(r, s)
  \/ \E tab \in {"general", "forms", "services", "billing"} : SelectTab(tab)
  \/ \E s \in Servers : SwitchServer(s)
  \/ CloseDetails \/ \E v \in FieldValues : ChangeField(v)
  \/ PersistField \/ ResetField \/ ToggleService
  \/ \E plan \in BOOLEAN : SelectRolePlan(plan)
  \/ StartEditRoleConfig \/ \E v \in FieldValues : EditContent(v)
  \/ SaveRoleConfig \/ ImportRoleDefaults \/ CloseEditor
  \/ \E i \in CallSlot : \/ ServeConfig(i) \/ RowsAnswered(i)
                         \/ PlanAnswered(i) \/ EditorAnswered(i)

RoleConfigSpec == RoleConfigInit /\ [][RoleConfigNext]_roleConfigVars

-----------------------------------------------------------------------------
\* What Save would write as the settings of a role on a server has been read
\* as theirs (useRoleDashboardEditor.ts), unless an answer came to what an
\* earlier editing had asked for.
ConfigStaysHome ==
  (editingRole # NoRole /\ ~editorBusy /\ ~editMixed) =>
    contentOf = EditedTarget

\* With nothing under way a row without an error shows what host_vars say, for
\* the server that is chosen (FormsTab.tsx, ServicesTab.tsx), unless another
\* write, or an answer that came late, overtook it.
RowsShowStored ==
  (detailsRole # NoRole /\ InFlight = {} /\ debounced = Unset
     /\ ~loadError /\ ~rowsOvertaken) =>
  /\ (detailsTab = "forms" /\ ~formRow.error) =>
       /\ formRow.value = sections[ShownTarget].field
       /\ formRow.override = (formRow.value # Unset)
  /\ (detailsTab = "services" /\ ~serviceRow.error) =>
       serviceRow.enabled = (sections[ShownTarget].service = "on")

\* What the two editors of a role show and would write: the settings of the
\* role and server they name.
RoleConfigAgrees == ConfigStaysHome /\ RowsShowStored
=============================================================================
