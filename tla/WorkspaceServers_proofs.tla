------------------------ MODULE WorkspaceServers_proofs ------------------------
(* The Software tab of a workspace, the settings of a role and the servers of *)
(* the inventory: which buttons stay faded, which filters a reload brings     *)
(* back, what the rows and the editor of a role show of the stored settings,  *)
(* and that a purged server stays out.                                        *)
EXTENDS MCWorkspaceServers, FiniteSetTheorems, TLAPS

-----------------------------------------------------------------------------
(***************************************************************************)
(* The settings of a role.  The editor takes any answer, the rows of the   *)
(* details take those to what they have asked for; so what matters is who  *)
(* has asked for what is still on its way.                                 *)
(***************************************************************************)
RoleTypes ==
  /\ sections \in [Target -> Section] /\ configCalls \in [CallSlot -> ConfigCall]
  /\ detailsRole \in RoleIds \cup {NoRole} /\ detailsServer \in Servers
  /\ detailsTab \in {"general", "forms", "services", "billing"}
  /\ editingRole \in RoleIds \cup {NoRole} /\ editorServer \in Servers
  /\ formRow \in FormRow /\ serviceRow \in ServiceRow
  /\ debounced \in FieldValues \cup {Unset} /\ editorContent \in Section
  /\ editorBusy \in BOOLEAN /\ loadError \in BOOLEAN
  /\ editMixed \in BOOLEAN /\ rowsOvertaken \in BOOLEAN
  /\ debounced # Unset => detailsRole # NoRole /\ detailsTab = "forms"

\* Requests of the editing that is open.
Own(i) == configCalls[i].kind \in EditorCall /\ configCalls[i].taken = TRUE

EditorKept ==
  /\ detailsRole # NoRole => editingRole = NoRole
  /\ editingRole = NoRole => \A i \in CallSlot : ~Own(i)
  /\ editingRole # NoRole /\ editMixed = FALSE =>
       /\ editorBusy = FALSE => contentOf = EditedTarget
       /\ \A i \in CallSlot : Own(i) =>
            /\ configCalls[i].of = EditedTarget /\ editorBusy = TRUE
            /\ configCalls[i].kind # "load" => contentOf = EditedTarget
            /\ \A j \in CallSlot : Own(j) => j = i

\* Requests of the rows: one write at most, and what it has stored.
RowReads == {"formsRead", "servicesRead"}
RowWrites == {"patch", "reset", "toggle"}
KindsOf(tab) ==
  CASE tab = "forms" -> {"formsRead", "patch", "reset"}
    [] tab = "services" -> {"servicesRead", "toggle"}
    [] tab = "billing" -> PlanCall
    [] tab = "general" -> {}
Stands(call) ==
  /\ call.kind = "patch" => call.what.field # Unset
  /\ call.state = "done" =>
       /\ call.kind = "patch" => sections[ShownTarget].field = call.what.field
       /\ call.kind = "reset" => sections[ShownTarget].field = Unset
       /\ call.kind = "toggle" => sections[ShownTarget].service = call.what.service
CallsOfRows ==
  /\ \A i \in CallSlot : configCalls[i].kind # "none" =>
       /\ configCalls[i].of = ShownTarget /\ configCalls[i].taken = TRUE
       /\ configCalls[i].kind \in KindsOf(detailsTab) /\ Stands(configCalls[i])
  /\ \A i, j \in CallSlot :
       configCalls[i].kind \in RowWrites /\ configCalls[j].kind \in RowWrites => i = j

NoWrite == \A i \in CallSlot : configCalls[i].kind \notin RowWrites
Reading == \E i \in CallSlot : configCalls[i].kind \in RowReads
FormShows ==
  \/ /\ formRow.value = sections[ShownTarget].field
     /\ formRow.override = (sections[ShownTarget].field # Unset)
  \/ Reading /\ formRow.value = Unset /\ formRow.override = FALSE
ServiceShows ==
  \/ serviceRow.enabled = (sections[ShownTarget].service = "on")
  \/ Reading /\ serviceRow.enabled = FALSE
RowsKept ==
  detailsRole # NoRole /\ rowsOvertaken = FALSE =>
    /\ CallsOfRows
    /\ NoWrite /\ loadError = FALSE =>
         /\ detailsTab = "forms" /\ debounced = Unset /\ formRow.error = FALSE => FormShows
         /\ detailsTab = "services" /\ serviceRow.error = FALSE => ServiceShows

RoleInv == RoleTypes /\ EditorKept /\ RowsKept

-----------------------------------------------------------------------------
(* Requests and answers as values.                                          *)

LEMMA NoConfigCallIs ==
  NoConfigCall \in ConfigCall /\ NoConfigCall.kind = "none"
  <1>1. Target # {}
    <2>1. PICK r \in RoleIds, s \in Servers : TRUE
      BY RoleConfigAssumption
    <2>2. <<r, s>> \in Target
      BY DEF Target
    <2> QED
      BY <2>2
  <1>2. PICK t \in Target : t = (CHOOSE u \in Target : TRUE)
    BY <1>1
  <1>3. Blank \in Section
    BY DEF Blank, Section
  <1>4. PICK no \in BOOLEAN : no = FALSE
    OBVIOUS
  <1>5. NoConfigCall = [kind |-> "none", of |-> t, what |-> Blank, state |-> "sent", taken |-> no]
    BY <1>2, <1>4 DEF NoConfigCall
  <1> QED
    BY <1>3, <1>5 DEF ConfigCall

LEMMA ConfigRequestIs ==
  ASSUME NEW k \in DetailsCall \cup EditorCall \cup PlanCall, NEW t \in Target, NEW s \in Section,
         NEW c, c = ConfigRequest(k, t, s)
  PROVE  c \in ConfigCall /\ c.kind = k /\ c.of = t /\ c.what = s /\ c.state = "sent"
  <1>1. PICK yes \in BOOLEAN : yes = TRUE
    OBVIOUS
  <1>2. c = [kind |-> k, of |-> t, what |-> s, state |-> "sent", taken |-> yes]
    BY <1>1 DEF ConfigRequest
  <1> QED
    BY <1>2 DEF ConfigCall

LEMMA RequestTaken ==
  ASSUME NEW k, NEW t, NEW s, NEW c, c = ConfigRequest(k, t, s)
  PROVE  c.taken = TRUE
  BY DEF ConfigRequest

LEMMA UnheardIs ==
  ASSUME configCalls \in [CallSlot -> ConfigCall], NEW kinds
  PROVE  /\ Unheard(kinds) \in [CallSlot -> ConfigCall]
         /\ \A i \in CallSlot :
              /\ Unheard(kinds)[i].kind = configCalls[i].kind /\ Unheard(kinds)[i].of = configCalls[i].of
              /\ configCalls[i].kind \in kinds => Unheard(kinds)[i].taken = FALSE
              /\ configCalls[i].kind \notin kinds => Unheard(kinds)[i] = configCalls[i]
  <1>1. PICK no \in BOOLEAN : no = FALSE
    OBVIOUS
  <1>2. PICK u : u = [i \in CallSlot |-> IF configCalls[i].kind \in kinds
                                          THEN [configCalls[i] EXCEPT !.taken = no] ELSE configCalls[i]]
    OBVIOUS
  <1>3. u = Unheard(kinds)
    BY <1>1, <1>2 DEF Unheard
  <1>4. ASSUME NEW i \in CallSlot
        PROVE  /\ u[i] \in ConfigCall /\ u[i].kind = configCalls[i].kind /\ u[i].of = configCalls[i].of
               /\ configCalls[i].kind \in kinds => u[i].taken = no
               /\ configCalls[i].kind \notin kinds => u[i] = configCalls[i]
    <2>1. PICK c \in ConfigCall : c = configCalls[i]
      OBVIOUS
    <2>2. u[i] = IF c.kind \in kinds THEN [c EXCEPT !.taken = no] ELSE c
      BY <1>2, <2>1
    <2>3. PICK d : d = [c EXCEPT !.taken = no]
      OBVIOUS
    <2>4. d \in ConfigCall /\ d.kind = c.kind /\ d.of = c.of /\ d.taken = no
      BY <2>3 DEF ConfigCall
    <2> QED
      BY <2>1, <2>2, <2>3, <2>4
  <1> QED
    BY <1>1, <1>2, <1>3, <1>4

LEMMA SentConfigIs ==
  ASSUME NEW calls \in [CallSlot -> ConfigCall], NEW i \in CallSlot, NEW call \in ConfigCall,
         SentConfig(calls, i, call)
  PROVE  /\ configCalls' \in [CallSlot -> ConfigCall] /\ configCalls'[i] = call
         /\ calls[i].kind = "none" /\ \A j \in CallSlot \ {i} : configCalls'[j] = calls[j]
  BY DEF SentConfig

\* A request is taken off.
LEMMA TakenOff ==
  ASSUME configCalls \in [CallSlot -> ConfigCall], NEW i \in CallSlot,
         configCalls' = [configCalls EXCEPT ![i] = NoConfigCall]
  PROVE  /\ configCalls' \in [CallSlot -> ConfigCall] /\ configCalls'[i].kind = "none"
         /\ \A j \in CallSlot \ {i} : configCalls'[j] = configCalls[j]
  BY NoConfigCallIs

LEMMA ShownIsTarget ==
  ASSUME RoleTypes
  PROVE  /\ detailsRole # NoRole => ShownTarget \in Target
         /\ editingRole # NoRole => EditedTarget \in Target
         /\ Blank \in Section
  BY DEF RoleTypes, ShownTarget, EditedTarget, Target, Blank, Section

LEMMA RowsAfresh == InitialForm \in FormRow /\ InitialService \in ServiceRow
                    /\ InitialForm.value = Unset /\ InitialForm.override = FALSE
                    /\ InitialService.enabled = FALSE
  <1>1. PICK no \in BOOLEAN : no = FALSE
    OBVIOUS
  <1>2. InitialForm = [value |-> Unset, override |-> no, pending |-> no, error |-> no]
        /\ InitialService = [enabled |-> no, pending |-> no, error |-> no]
    BY <1>1 DEF InitialForm, InitialService
  <1> QED
    BY <1>1, <1>2 DEF FormRow, ServiceRow

\* No call of an open editing is new.
EditorCallsStay == \A i \in CallSlot :
  configCalls'[i].kind \in EditorCall /\ configCalls'[i].taken = TRUE =>
    /\ configCalls[i].kind = configCalls'[i].kind /\ configCalls[i].of = configCalls'[i].of
    /\ configCalls[i].taken = TRUE

LEMMA EditorStays ==
  ASSUME EditorKept, EditorCallsStay, UNCHANGED configEditorVars,
         detailsRole' # NoRole => editingRole = NoRole
  PROVE  EditorKept'
  <1>1. /\ editingRole' = editingRole /\ editMixed' = editMixed /\ editorBusy' = editorBusy /\ contentOf' = contentOf
        /\ EditedTarget' = EditedTarget
    BY DEF configEditorVars, EditedTarget
  <1>2. \A i \in CallSlot : Own(i)' => Own(i) /\ configCalls'[i].of = configCalls[i].of /\ configCalls'[i].kind = configCalls[i].kind
    BY DEF Own, EditorCallsStay
  <1> QED
    BY <1>1, <1>2 DEF EditorKept

\* A tab of the details is shown.
LEMMA ShowTabKeeps ==
  ASSUME RoleInv, NEW tab \in {"general", "forms", "services", "billing"}, NEW role \in RoleIds \cup {NoRole},
         NEW server \in Servers, NEW kinds \in SUBSET DetailsCall,
         ShowTab(tab, role, server, kinds), FreshRows, UNCHANGED <<sections, configEditorVars>>,
         role # NoRole => editingRole = NoRole
  PROVE  RoleInv'
  <1> DEFINE u == Unheard(kinds)
             asks == role # NoRole /\ tab \in {"forms", "services"}
  <1>1. RoleTypes /\ detailsRole' = role /\ detailsServer' = server /\ detailsTab' = tab /\ debounced' = Unset
        /\ UNCHANGED <<sections, editingRole, editorServer, editorContent, editorBusy, contentOf, editMixed>>
        /\ formRow' = InitialForm /\ serviceRow' = InitialService
    BY DEF RoleInv, ShowTab, FreshRows, configEditorVars
  <1>2. loadError' \in BOOLEAN /\ rowsOvertaken' \in BOOLEAN /\ (rowsOvertaken' = FALSE => InFlight = {})
    BY DEF ShowTab
  <1>3. /\ u \in [CallSlot -> ConfigCall]
        /\ \A i \in CallSlot :
             /\ u[i].kind = configCalls[i].kind
             /\ configCalls[i].kind \notin kinds => u[i] = configCalls[i]
    BY <1>1, UnheardIs DEF RoleTypes
  <1>4. PICK k \in DetailsCall : k = IF tab = "forms" THEN "formsRead" ELSE "servicesRead"
    BY DEF DetailsCall
  <1>5. /\ configCalls' \in [CallSlot -> ConfigCall]
        /\ \A j \in CallSlot :
             \/ configCalls'[j] = u[j]
             \/ /\ asks /\ configCalls'[j].kind = k /\ configCalls'[j].of = <<role, server>>
                /\ configCalls'[j].taken = TRUE /\ configCalls'[j].state = "sent"
    <2>1. CASE asks
      <3>1. PICK t \in Target : t = <<role, server>>
        BY <2>1 DEF Target
      <3>2. PICK b \in Section : b = Blank
        BY <1>1, ShownIsTarget
      <3>3. PICK c : c = ConfigRequest(k, t, b)
        OBVIOUS
      <3>4. PICK i \in CallSlot : SentConfig(u, i, c)
        BY <1>4, <2>1, <3>1, <3>2, <3>3 DEF ShowTab
      <3> HIDE DEF u
      <3>5. c \in ConfigCall /\ c.kind = k /\ c.of = t /\ c.taken = TRUE /\ c.state = "sent"
        <4>1. c \in ConfigCall /\ c.kind = k /\ c.of = t /\ c.state = "sent"
          BY <3>3, ConfigRequestIs
        <4> QED
          BY <3>3, <4>1, RequestTaken
      <3>6. configCalls' \in [CallSlot -> ConfigCall] /\ configCalls'[i] = c
            /\ \A j \in CallSlot \ {i} : configCalls'[j] = u[j]
        BY <3>4, <3>5, <1>3, SentConfigIs
      <3> QED
        BY <2>1, <3>1, <3>5, <3>6
    <2>2. CASE ~asks
      <3>1. configCalls' = u
        BY <2>2 DEF ShowTab
      <3> QED
        BY <1>3, <3>1
    <2> QED
      BY <2>1, <2>2
  <1> HIDE DEF u
  <1>6. RoleTypes'
    <2>1. formRow' \in FormRow /\ serviceRow' \in ServiceRow
      BY <1>1, RowsAfresh
    <2> QED
      BY <1>1, <1>2, <1>5, <2>1 DEF RoleTypes
  <1>7. EditorKept'
    <2>1. EditorCallsStay
      BY <1>3, <1>4, <1>5 DEF EditorCallsStay, DetailsCall, EditorCall
    <2> QED
      BY <1>1, <2>1, EditorStays DEF RoleInv
  <1>8. RowsKept'
    <2> SUFFICES ASSUME role # NoRole, rowsOvertaken' = FALSE
                 PROVE  /\ CallsOfRows' /\ (tab = "forms" => FormShows') /\ (tab = "services" => ServiceShows')
      BY <1>1 DEF RowsKept
    <2>1. \A j \in CallSlot : configCalls[j].kind = "none"
      BY <1>2 DEF InFlight
    <2>2. ShownTarget' = <<role, server>>
      BY <1>1 DEF ShownTarget
    <2>3. \A j \in CallSlot : configCalls'[j].kind # "none" =>
            /\ asks /\ configCalls'[j].kind = k /\ configCalls'[j].of = <<role, server>>
            /\ configCalls'[j].taken = TRUE /\ configCalls'[j].state = "sent"
      BY <1>3, <1>5, <2>1
    <2>4. CallsOfRows'
      BY <1>1, <1>4, <2>2, <2>3 DEF CallsOfRows, KindsOf, Stands, RowWrites
    <2>5. asks => Reading'
      <3> SUFFICES ASSUME asks PROVE \E j \in CallSlot : configCalls'[j].kind \in RowReads
        BY DEF Reading
      <3>1. PICK i \in CallSlot : SentConfig(u, i, ConfigRequest(k, <<role, server>>, Blank))
        BY <1>4 DEF ShowTab, u
      <3>2. configCalls'[i] = ConfigRequest(k, <<role, server>>, Blank)
        BY <3>1, <1>3 DEF SentConfig
      <3>3. configCalls'[i].kind = k
        BY <3>2 DEF ConfigRequest
      <3> QED
        BY <3>3, <1>4 DEF RowReads
    <2> QED
      BY <1>1, <2>4, <2>5, RowsAfresh DEF FormShows, ServiceShows
  <1> QED
    BY <1>6, <1>7, <1>8 DEF RoleInv

LEMMA TabsKeep ==
  ASSUME RoleInv,
         \/ \E r \in RoleIds, s \in Servers : OpenDetails(r, s)
         \/ \E tab \in {"general", "forms", "services", "billing"} : SelectTab(tab)
         \/ \E s \in Servers : SwitchServer(s)
         \/ CloseDetails
  PROVE  RoleInv'
  <1>1. RoleTypes /\ (detailsRole # NoRole => editingRole = NoRole)
    BY DEF RoleInv, EditorKept
  <1>2. DetailsCall \in SUBSET DetailsCall /\ {"formsRead", "servicesRead"} \in SUBSET DetailsCall
    BY DEF DetailsCall
  <1>3. ASSUME NEW r \in RoleIds, NEW s \in Servers, OpenDetails(r, s) PROVE RoleInv'
    BY <1>2, <1>3, ShowTabKeeps DEF OpenDetails
  <1>4. ASSUME NEW tab \in {"general", "forms", "services", "billing"}, SelectTab(tab) PROVE RoleInv'
    BY <1>1, <1>2, <1>4, ShowTabKeeps DEF SelectTab, RoleTypes
  <1>5. ASSUME NEW s \in Servers, SwitchServer(s) PROVE RoleInv'
    BY <1>1, <1>2, <1>5, ShowTabKeeps DEF SwitchServer, ResetRows, RoleTypes
  <1>6. CASE CloseDetails
    BY <1>1, <1>2, <1>6, ShowTabKeeps DEF CloseDetails, RoleTypes
  <1> QED
    BY <1>3, <1>4, <1>5, <1>6

-----------------------------------------------------------------------------
(* Requests of the rows.                                                    *)

\* A new request at a free slot.
LEMMA NewRequest ==
  ASSUME RoleTypes, NEW i \in CallSlot, NEW k \in DetailsCall \cup EditorCall \cup PlanCall, NEW t \in Target,
         NEW s \in Section, SendConfig(i, ConfigRequest(k, t, s))
  PROVE  /\ configCalls' \in [CallSlot -> ConfigCall] /\ configCalls[i].kind = "none"
         /\ \A j \in CallSlot \ {i} : configCalls'[j] = configCalls[j]
         /\ configCalls'[i].kind = k /\ configCalls'[i].of = t /\ configCalls'[i].what = s
         /\ configCalls'[i].state = "sent"
  <1>1. PICK c : c = ConfigRequest(k, t, s)
    OBVIOUS
  <1>2. c \in ConfigCall /\ c.kind = k /\ c.of = t /\ c.what = s /\ c.state = "sent"
    BY <1>1, ConfigRequestIs
  <1>3. SentConfig(configCalls, i, c)
    BY <1>1 DEF SendConfig
  <1>4. /\ configCalls' \in [CallSlot -> ConfigCall] /\ configCalls'[i] = c
        /\ configCalls[i].kind = "none" /\ \A j \in CallSlot \ {i} : configCalls'[j] = configCalls[j]
    BY <1>2, <1>3, SentConfigIs DEF RoleTypes
  <1> QED
    BY <1>2, <1>4

LEMMA NewRequestTaken ==
  ASSUME RoleTypes, NEW i \in CallSlot, NEW k \in DetailsCall \cup EditorCall \cup PlanCall, NEW t \in Target,
         NEW s \in Section, SendConfig(i, ConfigRequest(k, t, s))
  PROVE  configCalls'[i].taken = TRUE
  <1>1. PICK c : c = ConfigRequest(k, t, s)
    OBVIOUS
  <1>2. c \in ConfigCall
    BY <1>1, ConfigRequestIs
  <1>3. SentConfig(configCalls, i, c)
    BY <1>1 DEF SendConfig
  <1>4. configCalls'[i] = c
    BY <1>2, <1>3, SentConfigIs DEF RoleTypes
  <1> QED
    BY <1>1, <1>4, RequestTaken

LEMMA RowRequestKeeps ==
  ASSUME RoleInv, detailsRole # NoRole, NEW i \in CallSlot, NEW k \in DetailsCall \cup PlanCall, NEW s \in Section,
         SendConfig(i, ConfigRequest(k, ShownTarget, s)), k \in KindsOf(detailsTab),
         k \in RowWrites \/ k = "planGet", k = "patch" => s.field # Unset,
         rowsOvertaken' \in BOOLEAN,
         rowsOvertaken' = FALSE => rowsOvertaken = FALSE /\ (k \in RowWrites => NoWrite),
         UNCHANGED <<sections, detailsRole, detailsServer, detailsTab, loadError, configEditorVars>>,
         formRow' \in FormRow, serviceRow' \in ServiceRow, debounced' = Unset
  PROVE  RoleInv'
  <1>1. /\ RoleTypes /\ EditorKept /\ RowsKept /\ ShownTarget \in Target /\ ShownTarget' = ShownTarget
        /\ editingRole = NoRole
    BY ShownIsTarget DEF RoleInv, ShownTarget, EditorKept
  <1>2. /\ configCalls' \in [CallSlot -> ConfigCall] /\ configCalls[i].kind = "none"
        /\ \A j \in CallSlot \ {i} : configCalls'[j] = configCalls[j]
        /\ configCalls'[i].kind = k /\ configCalls'[i].of = ShownTarget /\ configCalls'[i].what = s
        /\ configCalls'[i].state = "sent"
    BY <1>1, NewRequest
  <1>3. configCalls'[i].taken = TRUE
    BY <1>1, NewRequestTaken
  <1>4. RoleTypes'
    BY <1>1, <1>2 DEF RoleTypes, configEditorVars
  <1>5. EditorKept'
    <2>1. EditorCallsStay
      BY <1>2 DEF EditorCallsStay, DetailsCall, EditorCall, PlanCall
    <2> QED
      BY <1>1, <2>1, EditorStays
  <1>6. RowsKept'
    <2> SUFFICES ASSUME rowsOvertaken' = FALSE
                 PROVE  /\ CallsOfRows'
                        /\ NoWrite' => detailsTab \notin {"forms", "services"}
      BY DEF RowsKept
    <2>1. CallsOfRows /\ (k \in RowWrites => NoWrite)
      BY <1>1 DEF RowsKept
    <2>2. \A j \in CallSlot : configCalls'[j].kind # "none" =>
            /\ configCalls'[j].of = ShownTarget /\ configCalls'[j].taken = TRUE
            /\ configCalls'[j].kind \in KindsOf(detailsTab) /\ Stands(configCalls'[j])
      <3> SUFFICES ASSUME NEW j \in CallSlot, configCalls'[j].kind # "none"
                   PROVE  /\ configCalls'[j].of = ShownTarget /\ configCalls'[j].taken = TRUE
                          /\ configCalls'[j].kind \in KindsOf(detailsTab) /\ Stands(configCalls'[j])
        OBVIOUS
      <3>1. CASE j = i
        BY <1>2, <1>3, <3>1 DEF Stands
      <3>2. CASE j # i
        BY <1>2, <2>1, <3>2 DEF CallsOfRows
      <3> QED
        BY <3>1, <3>2
    <2>3. \A j \in CallSlot : Stands(configCalls'[j]) => Stands(configCalls[j])'
      BY <1>1 DEF Stands
    <2>4. \A j, l \in CallSlot :
            configCalls'[j].kind \in RowWrites /\ configCalls'[l].kind \in RowWrites => j = l
      BY <1>2, <2>1 DEF CallsOfRows, NoWrite
    <2>5. NoWrite' => k = "planGet"
      BY <1>2 DEF NoWrite
    <2>6. k = "planGet" => detailsTab \notin {"forms", "services"}
      BY DEF KindsOf
    <2> QED
      BY <1>1, <2>2, <2>3, <2>4, <2>5, <2>6 DEF CallsOfRows
  <1> QED
    BY <1>4, <1>5, <1>6 DEF RoleInv

\* Rows that wait for their answer.
LEMMA RowsWait ==
  ASSUME NEW f \in FormRow, NEW v \in FieldValues \cup {Unset}
  PROVE  /\ [f EXCEPT !.value = v, !.pending = TRUE, !.error = FALSE] \in FormRow
         /\ [f EXCEPT !.pending = TRUE, !.error = FALSE] \in FormRow
  <1>1. \A yes, no \in BOOLEAN : /\ [f EXCEPT !.value = v, !.pending = yes, !.error = no] \in FormRow
                                 /\ [f EXCEPT !.pending = yes, !.error = no] \in FormRow
    BY DEF FormRow
  <1> QED
    BY <1>1, Zenon

LEMMA ChangeFieldKeeps ==
  ASSUME RoleInv, NEW v \in FieldValues, ChangeField(v)
  PROVE  RoleInv'
  <1>1. /\ RoleTypes /\ EditorKept /\ RowsKept /\ detailsRole # NoRole /\ detailsTab = "forms" /\ debounced' = v
        /\ formRow' = [formRow EXCEPT !.value = v, !.pending = TRUE, !.error = FALSE]
        /\ UNCHANGED <<sections, detailsRole, detailsServer, detailsTab, serviceRow, loadError, rowsOvertaken, configCalls>>
        /\ UNCHANGED configEditorVars /\ v # Unset
    BY RoleConfigAssumption DEF RoleInv, ChangeField, Mounted
  <1>2. formRow' \in FormRow
    BY <1>1, RowsWait DEF RoleTypes
  <1>3. RoleTypes'
    BY <1>1, <1>2 DEF RoleTypes, configEditorVars
  <1>4. EditorKept'
    <2>1. EditorCallsStay
      BY <1>1 DEF EditorCallsStay
    <2> QED
      BY <1>1, <2>1, EditorStays DEF EditorKept
  <1>5. CallsOfRows => CallsOfRows'
    BY <1>1 DEF CallsOfRows, Stands, ShownTarget
  <1>6. RowsKept'
    BY <1>1, <1>5 DEF RowsKept
  <1> QED
    BY <1>3, <1>4, <1>6 DEF RoleInv

LEMMA RowRequestsKeep ==
  ASSUME RoleInv, PersistField \/ ResetField \/ ToggleService \/ \E plan \in BOOLEAN : SelectRolePlan(plan)
  PROVE  RoleInv'
  <1>1. RoleTypes /\ (RowWritesOverlap \/ NoWrite)
    BY DEF RoleInv, RowWritesOverlap, NoWrite, RowWrites, InFlight
  <1> DEFINE o == rowsOvertaken \/ RowWritesOverlap
  <1>2. PICK over \in BOOLEAN : over = o
    OBVIOUS
  <1>3. over = FALSE => rowsOvertaken = FALSE /\ NoWrite
    BY <1>1, <1>2 DEF RoleTypes
  <1>4. CASE PersistField
    <2>1. debounced # Unset /\ detailsRole # NoRole /\ detailsTab = "forms"
      BY <1>1, <1>4 DEF PersistField, RoleTypes
    <2>2. PICK s : s = [Blank EXCEPT !.field = debounced]
      OBVIOUS
    <2>3. s \in Section /\ s.field = debounced
      BY <1>1, <2>1, <2>2, ShownIsTarget DEF RoleTypes, Section
    <2>4. PICK k \in DetailsCall : k = "patch"
      BY DEF DetailsCall
    <2>5. PICK i \in CallSlot : SendConfig(i, ConfigRequest(k, ShownTarget, s))
      BY <1>4, <2>2, <2>4 DEF PersistField
    <2>6. rowsOvertaken' = over
      BY <1>2, <1>4 DEF PersistField
    <2>7. k \in KindsOf(detailsTab) /\ k \in RowWrites
      BY <2>1, <2>4 DEF KindsOf, RowWrites
    <2>8. /\ UNCHANGED <<sections, detailsRole, detailsServer, detailsTab, loadError, configEditorVars>>
          /\ formRow' \in FormRow /\ serviceRow' \in ServiceRow /\ debounced' = Unset
      BY <1>1, <1>4 DEF PersistField, RoleTypes
    <2> QED
      BY <1>3, <2>1, <2>3, <2>5, <2>6, <2>7, <2>8, RowRequestKeeps
  <1>5. CASE ResetField
    <2>1. detailsRole # NoRole /\ detailsTab = "forms" /\ formRow' = [formRow EXCEPT !.pending = TRUE, !.error = FALSE]
      BY <1>5 DEF ResetField, Mounted
    <2>2. formRow' \in FormRow
      BY <1>1, <2>1, RowsWait DEF RoleTypes
    <2>3. PICK s \in Section : s = Blank
      BY <1>1, ShownIsTarget
    <2>4. PICK k \in DetailsCall : k = "reset"
      BY DEF DetailsCall
    <2>5. PICK i \in CallSlot : SendConfig(i, ConfigRequest(k, ShownTarget, s))
      BY <1>5, <2>3, <2>4 DEF ResetField
    <2>6. rowsOvertaken' = over
      BY <1>2, <1>5 DEF ResetField
    <2>7. k \in KindsOf(detailsTab) /\ k \in RowWrites
      BY <2>1, <2>4 DEF KindsOf, RowWrites
    <2>8. /\ UNCHANGED <<sections, detailsRole, detailsServer, detailsTab, loadError, configEditorVars>>
          /\ serviceRow' \in ServiceRow /\ debounced' = Unset
      BY <1>1, <1>5 DEF ResetField, RoleTypes
    <2> QED
      BY <1>3, <2>1, <2>2, <2>4, <2>5, <2>6, <2>7, <2>8, RowRequestKeeps
  <1>6. CASE ToggleService
    <2>1. detailsRole # NoRole /\ detailsTab = "services"
      BY <1>6 DEF ToggleService, Mounted
    <2>2. serviceRow' \in ServiceRow
      <3>1. \A on, yes, no \in BOOLEAN : [enabled |-> on, pending |-> yes, error |-> no] \in ServiceRow
        BY DEF ServiceRow
      <3>2. (~serviceRow.enabled) \in BOOLEAN
        OBVIOUS
      <3>3. serviceRow' = [enabled |-> ~serviceRow.enabled, pending |-> TRUE, error |-> FALSE]
        BY <1>6 DEF ToggleService
      <3> QED
        BY <3>1, <3>2, <3>3, Zenon
    <2>3. PICK on \in {"unset", "on", "off"} : on = IF serviceRow.enabled THEN "off" ELSE "on"
      OBVIOUS
    <2>9. PICK s : s = [Blank EXCEPT !.service = on]
      OBVIOUS
    <2>10. s \in Section
      BY <1>1, <2>3, <2>9, ShownIsTarget DEF Section
    <2>4. PICK k \in DetailsCall : k = "toggle"
      BY DEF DetailsCall
    <2>5. PICK i \in CallSlot : SendConfig(i, ConfigRequest(k, ShownTarget, s))
      BY <1>6, <2>3, <2>4, <2>9 DEF ToggleService
    <2>6. rowsOvertaken' = over
      BY <1>2, <1>6 DEF ToggleService
    <2>7. k \in KindsOf(detailsTab) /\ k \in RowWrites
      BY <2>1, <2>4 DEF KindsOf, RowWrites
    <2>8. /\ UNCHANGED <<sections, detailsRole, detailsServer, detailsTab, loadError, configEditorVars>>
          /\ formRow' \in FormRow /\ debounced' = Unset
      BY <1>1, <1>6, <2>1 DEF ToggleService, RoleTypes
    <2> QED
      BY <1>3, <2>1, <2>2, <2>4, <2>5, <2>6, <2>7, <2>8, <2>10, RowRequestKeeps
  <1>7. ASSUME NEW plan \in BOOLEAN, SelectRolePlan(plan) PROVE RoleInv'
    <2>1. detailsRole # NoRole /\ detailsTab = "billing"
      BY <1>7 DEF SelectRolePlan, Mounted
    <2>2. PICK s : s = [Blank EXCEPT !.plan = plan]
      OBVIOUS
    <2>3. s \in Section
      BY <1>1, <2>2, ShownIsTarget DEF Section
    <2>4. PICK k \in PlanCall : k = "planGet"
      BY DEF PlanCall
    <2>5. PICK i \in CallSlot : SendConfig(i, ConfigRequest(k, ShownTarget, s))
      BY <1>7, <2>2, <2>4 DEF SelectRolePlan
    <2>7. k \in KindsOf(detailsTab) /\ k \notin RowWrites /\ k # "patch"
      BY <2>1, <2>4 DEF KindsOf, RowWrites, PlanCall
    <2>8. /\ UNCHANGED <<sections, detailsRole, detailsServer, detailsTab, loadError, configEditorVars>>
          /\ formRow' \in FormRow /\ serviceRow' \in ServiceRow /\ debounced' = Unset
          /\ rowsOvertaken' = rowsOvertaken /\ rowsOvertaken \in BOOLEAN
      BY <1>1, <1>7, <2>1 DEF SelectRolePlan, RoleTypes, rowVars
    <2> QED
      BY <2>1, <2>3, <2>4, <2>5, <2>7, <2>8, RowRequestKeeps
  <1> QED
    BY <1>4, <1>5, <1>6, <1>7

-----------------------------------------------------------------------------
(* The editor.                                                              *)

\* An editor that is open writes what it has asked for.
LEMMA EditorRequestKeeps ==
  ASSUME RoleInv, NEW k \in EditorCall, NEW i \in CallSlot, NEW s \in Section, NEW t \in Target,
         SendConfig(i, ConfigRequest(k, t, s)), t = EditedTarget', \A j \in CallSlot : ~Own(j),
         editorBusy' = TRUE, editingRole' # NoRole, editMixed' \in BOOLEAN,
         k # "load" /\ editMixed' = FALSE => contentOf' = EditedTarget',
         detailsRole' = NoRole, debounced' = Unset, editingRole' \in RoleIds, editorServer' \in Servers,
         UNCHANGED <<sections, detailsServer, detailsTab, formRow, serviceRow, loadError, rowsOvertaken, editorContent>>
  PROVE  RoleInv'
  <1>1. RoleTypes
    BY DEF RoleInv
  <1>2. /\ configCalls' \in [CallSlot -> ConfigCall] /\ configCalls[i].kind = "none"
        /\ \A j \in CallSlot \ {i} : configCalls'[j] = configCalls[j]
        /\ configCalls'[i].kind = k /\ configCalls'[i].of = t
    BY <1>1, NewRequest
  <1>3. editorBusy' \in BOOLEAN
    OBVIOUS
  <1>4. RoleTypes'
    BY <1>1, <1>2, <1>3 DEF RoleTypes
  <1>5. \A j \in CallSlot : Own(j)' => j = i
    BY <1>2 DEF Own
  <1>6. EditorKept'
    BY <1>2, <1>5 DEF EditorKept
  <1> QED
    BY <1>4, <1>6 DEF RoleInv, RowsKept

LEMMA EditorKeeps ==
  ASSUME RoleInv, StartEditRoleConfig \/ SaveRoleConfig \/ ImportRoleDefaults
  PROVE  RoleInv'
  <1>1. RoleTypes /\ EditorKept /\ (debounced # Unset => detailsTab = "forms")
    BY DEF RoleInv, RoleTypes
  <1>2. CASE StartEditRoleConfig
    <2>1. /\ detailsRole \in RoleIds /\ detailsTab = "billing" /\ debounced = Unset /\ \A j \in CallSlot : ~Own(j)
      BY <1>1, <1>2 DEF StartEditRoleConfig, Mounted, EditorKept, RoleTypes
    <2>2. PICK k \in EditorCall : k = "load"
      BY DEF EditorCall
    <2>3. PICK s \in Section : s = Blank
      BY <1>1, ShownIsTarget
    <2>4. PICK t \in Target : t = ShownTarget
      BY <1>1, <2>1, ShownIsTarget, RoleConfigAssumption
    <2>5. PICK i \in CallSlot : SendConfig(i, ConfigRequest(k, t, s))
      BY <1>2, <2>2, <2>3, <2>4 DEF StartEditRoleConfig, AskEditor
    <2>6. /\ detailsRole' = NoRole /\ editingRole' = detailsRole /\ editorServer' = detailsServer
          /\ UNCHANGED <<sections, detailsServer, detailsTab, formRow, serviceRow, loadError, rowsOvertaken, editorContent, debounced>>
      BY <1>2 DEF StartEditRoleConfig
    <2>7. editorBusy' = TRUE /\ editMixed' \in BOOLEAN
      BY <1>2 DEF StartEditRoleConfig, AskEditor
    <2>8. t = EditedTarget'
      BY <2>4, <2>6 DEF ShownTarget, EditedTarget
    <2>9. detailsRole # NoRole /\ detailsServer \in Servers
      BY <1>1, <2>1, RoleConfigAssumption DEF RoleTypes
    <2> QED
      BY <2>1, <2>2, <2>5, <2>6, <2>7, <2>8, <2>9, EditorRequestKeeps
  <1>3. ASSUME NEW k \in EditorCall, NEW s \in Section, k # "load", AskEditor(k, EditedTarget, s),
               editingRole # NoRole, editorBusy = FALSE,
               UNCHANGED <<sections, rowVars, editingRole, editorServer, editorContent, contentOf, editMixed>>
        PROVE  RoleInv'
    <2>1. PICK t \in Target : t = EditedTarget
      BY <1>1, <1>3, ShownIsTarget
    <2>2. PICK i \in CallSlot : SendConfig(i, ConfigRequest(k, t, s))
      BY <1>3, <2>1 DEF AskEditor
    <2>3. detailsRole = NoRole /\ debounced = Unset /\ editingRole \in RoleIds /\ editorServer \in Servers /\ editMixed \in BOOLEAN
      BY <1>1, <1>3 DEF EditorKept, RoleTypes
    <2>4. t = EditedTarget' /\ editorBusy' = TRUE
      BY <1>3, <2>1 DEF EditedTarget, AskEditor
    <2>5. UNCHANGED <<sections, detailsRole, detailsServer, detailsTab, formRow, serviceRow, loadError, rowsOvertaken, editorContent, debounced>>
      BY <1>3 DEF rowVars
    <2>6. CASE editMixed = FALSE
      <3>1. contentOf = EditedTarget /\ \A j \in CallSlot : ~Own(j)
        BY <1>1, <1>3, <2>6 DEF EditorKept
      <3> QED
        BY <1>3, <2>1, <2>2, <2>3, <2>4, <2>5, <3>1, EditorRequestKeeps
    <2>7. CASE editMixed = TRUE
      <3>1. configCalls' \in [CallSlot -> ConfigCall]
        BY <1>1, <2>2, NewRequest
      <3>2. editorBusy' \in BOOLEAN
        BY <2>4
      <3>3. RoleTypes'
        BY <1>1, <1>3, <2>5, <3>1, <3>2 DEF RoleTypes
      <3>4. EditorKept'
        BY <1>3, <2>3, <2>5, <2>7 DEF EditorKept
      <3> QED
        BY <2>3, <2>5, <3>3, <3>4 DEF RoleInv, RowsKept
    <2> QED
      BY <2>3, <2>6, <2>7
  <1>4. CASE SaveRoleConfig
    <2>1. PICK k \in EditorCall : k = "save"
      BY DEF EditorCall
    <2>2. editorBusy = FALSE /\ editorContent \in Section /\ k # "load"
      BY <1>1, <1>4, <2>1 DEF SaveRoleConfig, RoleTypes
    <2>3. /\ AskEditor(k, EditedTarget, editorContent) /\ editingRole # NoRole
          /\ UNCHANGED <<sections, rowVars, editingRole, editorServer, editorContent, contentOf, editMixed>>
      BY <1>4, <2>1 DEF SaveRoleConfig
    <2> QED
      BY <1>3, <2>2, <2>3
  <1>5. CASE ImportRoleDefaults
    <2>1. PICK k \in EditorCall : k = "import"
      BY DEF EditorCall
    <2>2. editorBusy = FALSE /\ Blank \in Section /\ k # "load"
      BY <1>1, <1>5, <2>1, ShownIsTarget DEF ImportRoleDefaults, RoleTypes
    <2>3. /\ AskEditor(k, EditedTarget, Blank) /\ editingRole # NoRole
          /\ UNCHANGED <<sections, rowVars, editingRole, editorServer, editorContent, contentOf, editMixed>>
      BY <1>5, <2>1 DEF ImportRoleDefaults
    <2> QED
      BY <1>3, <2>2, <2>3
  <1> QED
    BY <1>2, <1>4, <1>5

LEMMA ContentKeeps ==
  ASSUME RoleInv, CloseEditor \/ \E v \in FieldValues : EditContent(v)
  PROVE  RoleInv'
  <1>1. RoleTypes /\ EditorKept
    BY DEF RoleInv
  <1>2. ASSUME NEW v \in FieldValues, EditContent(v) PROVE RoleInv'
    <2>1. /\ editingRole # NoRole /\ editorContent' = [editorContent EXCEPT !.field = v]
          /\ UNCHANGED <<sections, detailsRole, detailsServer, detailsTab, formRow, serviceRow, loadError, rowsOvertaken, debounced,
                         configCalls, editingRole, editorServer, editorBusy, contentOf, editMixed>>
      BY <1>2 DEF EditContent, rowVars
    <2>2. editorContent' \in Section
      BY <1>1, <2>1 DEF RoleTypes, Section
    <2>3. RoleTypes' /\ detailsRole' = NoRole
      BY <1>1, <2>1, <2>2 DEF RoleTypes, EditorKept
    <2>4. EditorKept'
      BY <1>1, <2>1 DEF EditorKept, Own, EditedTarget
    <2> QED
      BY <2>3, <2>4 DEF RoleInv, RowsKept
  <1>3. CASE CloseEditor
    <2>1. /\ editingRole # NoRole /\ editingRole' = NoRole /\ configCalls' = Unheard(EditorCall)
          /\ UNCHANGED <<sections, detailsRole, detailsServer, detailsTab, formRow, serviceRow, loadError, rowsOvertaken, debounced,
                         editorServer, editorBusy, editorContent, contentOf, editMixed>>
      BY <1>3 DEF CloseEditor, rowVars
    <2>2. /\ configCalls' \in [CallSlot -> ConfigCall]
          /\ \A i \in CallSlot : configCalls'[i].kind \in EditorCall => configCalls'[i].taken = FALSE
      BY <1>1, <2>1, UnheardIs DEF RoleTypes
    <2>3. RoleTypes' /\ detailsRole' = NoRole
      BY <1>1, <2>1, <2>2 DEF RoleTypes, EditorKept
    <2>4. EditorKept'
      BY <1>1, <2>1, <2>2 DEF EditorKept, Own
    <2> QED
      BY <2>3, <2>4 DEF RoleInv, RowsKept
  <1> QED
    BY <1>2, <1>3

-----------------------------------------------------------------------------
(* The API.                                                                 *)

LEMMA SectionFields ==
  ASSUME NEW s \in Section
  PROVE  s.field \in FieldValues \cup {Unset} /\ s.service \in {"unset", "on", "off"} /\ s.plan \in BOOLEAN
  BY DEF Section

LEMMA FieldSet ==
  ASSUME NEW s \in Section, NEW v \in FieldValues \cup {Unset}, NEW e, e = [s EXCEPT !.field = v]
  PROVE  e \in Section /\ e.field = v
  BY DEF Section

LEMMA ServiceSet ==
  ASSUME NEW s \in Section, NEW v \in {"unset", "on", "off"}, NEW e, e = [s EXCEPT !.service = v]
  PROVE  e \in Section /\ e.service = v
  BY DEF Section

LEMMA PlanSet ==
  ASSUME NEW s \in Section, NEW y \in BOOLEAN, NEW q \in BOOLEAN, NEW e, e = [s EXCEPT !.plan = y, !.sealed = q]
  PROVE  e \in Section
  BY DEF Section

LEMMA CallFields ==
  ASSUME NEW c \in ConfigCall
  PROVE  /\ c.kind \in DetailsCall \cup EditorCall \cup PlanCall \cup {"none"} /\ c.of \in Target /\ c.what \in Section
         /\ c.state \in {"sent", "done", "failed"} /\ c.taken \in BOOLEAN
  BY DEF ConfigCall

\* What a request stores, and what its answer says.
LEMMA ServedSection ==
  ASSUME RoleTypes, NEW c \in ConfigCall
  PROVE  /\ StoredSection(c) \in Section /\ RepliedSection(c) \in Section
         /\ c.kind = "patch" => StoredSection(c).field = c.what.field /\ RepliedSection(c) = c.what
         /\ c.kind = "reset" => StoredSection(c).field = Unset
         /\ c.kind = "toggle" => StoredSection(c).service = c.what.service /\ RepliedSection(c) = c.what
         /\ c.kind \in RowReads => StoredSection(c) = sections[c.of]
  <1>1. /\ c.kind \in DetailsCall \cup EditorCall \cup PlanCall \cup {"none"} /\ c.of \in Target /\ c.what \in Section
    BY CallFields
  <1>2. PICK s \in Section : s = sections[c.of]
    BY <1>1 DEF RoleTypes
  <1>3. PICK w \in Section : w = c.what
    BY <1>1
  <1>4. w.field \in FieldValues \cup {Unset} /\ w.service \in {"unset", "on", "off"} /\ w.plan \in BOOLEAN
        /\ s.field \in FieldValues \cup {Unset}
    BY SectionFields
  <1>5. CASE c.kind = "patch"
    <2>1. PICK v \in FieldValues \cup {Unset} : v = w.field
      BY <1>4
    <2>2. StoredSection(c) = [s EXCEPT !.field = v] /\ RepliedSection(c) = w
      BY <1>2, <1>3, <1>5, <2>1 DEF StoredSection, RepliedSection
    <2>3. StoredSection(c) \in Section /\ StoredSection(c).field = v
      BY <2>2, FieldSet
    <2> QED
      BY <1>3, <1>5, <2>1, <2>2, <2>3 DEF RowReads
  <1>6. CASE c.kind = "reset"
    <2>1. PICK v \in FieldValues \cup {Unset} : v = Unset
      OBVIOUS
    <2>2. StoredSection(c) = [s EXCEPT !.field = v] /\ RepliedSection(c) = w
      BY <1>2, <1>3, <1>6, <2>1 DEF StoredSection, RepliedSection
    <2>3. StoredSection(c) \in Section /\ StoredSection(c).field = v
      BY <2>2, FieldSet
    <2> QED
      BY <1>3, <1>6, <2>1, <2>2, <2>3 DEF RowReads
  <1>7. CASE c.kind = "toggle"
    <2>1. PICK v \in {"unset", "on", "off"} : v = w.service
      BY <1>4
    <2>2. StoredSection(c) = [s EXCEPT !.service = v] /\ RepliedSection(c) = w
      BY <1>2, <1>3, <1>7, <2>1 DEF StoredSection, RepliedSection
    <2>3. StoredSection(c) \in Section /\ StoredSection(c).service = v
      BY <2>2, ServiceSet
    <2> QED
      BY <1>3, <1>7, <2>1, <2>2, <2>3 DEF RowReads
  <1>8. CASE c.kind \in {"save", "planPut"}
    <2>1. StoredSection(c) = w /\ RepliedSection(c) = w
      BY <1>3, <1>8 DEF StoredSection, RepliedSection
    <2> QED
      BY <1>8, <2>1 DEF RowReads
  <1>9. CASE c.kind = "import"
    <2>1. PICK v \in FieldValues \cup {Unset} : v = IF s.field = Unset THEN DefaultValue ELSE s.field
      BY <1>4, RoleConfigAssumption
    <2>2. StoredSection(c) = [s EXCEPT !.field = v] /\ RepliedSection(c) = StoredSection(c)
      BY <1>2, <1>9, <2>1 DEF StoredSection, RepliedSection
    <2>3. StoredSection(c) \in Section
      BY <2>2, FieldSet
    <2> QED
      BY <1>9, <2>2, <2>3 DEF RowReads
  <1>10. CASE c.kind = "planGet"
    <2>1. PICK no \in BOOLEAN : no = FALSE
      OBVIOUS
    <2>2. PICK y \in BOOLEAN : y = w.plan
      BY <1>4
    <2>3. StoredSection(c) = s /\ RepliedSection(c) = [s EXCEPT !.plan = y, !.sealed = no]
      BY <1>2, <1>3, <1>10, <2>1, <2>2 DEF StoredSection, RepliedSection
    <2>4. RepliedSection(c) \in Section
      BY <2>3, PlanSet
    <2> QED
      BY <1>10, <2>3, <2>4 DEF RowReads
  <1>11. CASE c.kind \in {"formsRead", "servicesRead", "load", "none"}
    <2>1. StoredSection(c) = s /\ RepliedSection(c) = s
      BY <1>2, <1>11 DEF StoredSection, RepliedSection
    <2> QED
      BY <1>2, <1>11, <2>1
  <1> QED
    BY <1>1, <1>5, <1>6, <1>7, <1>8, <1>9, <1>10, <1>11 DEF DetailsCall, EditorCall, PlanCall

\* A request after it was served, answered or not.
LEMMA Served ==
  ASSUME RoleTypes, NEW i \in CallSlot, ServeConfig(i)
  PROVE  /\ configCalls[i].kind # "none" /\ configCalls[i].state = "sent"
         /\ configCalls' \in [CallSlot -> ConfigCall] /\ sections' \in [Target -> Section]
         /\ \A j \in CallSlot \ {i} : configCalls'[j] = configCalls[j]
         /\ configCalls'[i].kind = configCalls[i].kind /\ configCalls'[i].of = configCalls[i].of
         /\ configCalls'[i].taken = configCalls[i].taken
         /\ \/ /\ configCalls'[i].state = "failed" /\ configCalls'[i].what = configCalls[i].what
               /\ \/ sections' = sections
                  \/ sections' = [sections EXCEPT ![configCalls[i].of] = StoredSection(configCalls[i])]
            \/ /\ configCalls'[i].state = "done" /\ configCalls'[i].what = RepliedSection(configCalls[i])
               /\ sections' = [sections EXCEPT ![configCalls[i].of] = StoredSection(configCalls[i])]
  <1>1. PICK c \in ConfigCall : c = configCalls[i]
    BY DEF RoleTypes
  <1>2. /\ c.kind # "none" /\ c.state = "sent"
        /\ \/ /\ sections' = [sections EXCEPT ![c.of] = StoredSection(c)]
              /\ \/ configCalls' = [configCalls EXCEPT ![i].state = "done", ![i].what = RepliedSection(c)]
                 \/ configCalls' = [configCalls EXCEPT ![i].state = "failed"]
           \/ configCalls' = [configCalls EXCEPT ![i].state = "failed"] /\ sections' = sections
    BY <1>1 DEF ServeConfig
  <1>3. PICK r \in Section : r = RepliedSection(c)
    BY ServedSection
  <1>4. PICK d : d = [c EXCEPT !.state = "done", !.what = r]
    OBVIOUS
  <1>5. PICK f : f = [c EXCEPT !.state = "failed"]
    OBVIOUS
  <1>6. /\ d \in ConfigCall /\ d.kind = c.kind /\ d.of = c.of /\ d.taken = c.taken /\ d.state = "done" /\ d.what = r
        /\ f \in ConfigCall /\ f.kind = c.kind /\ f.of = c.of /\ f.taken = c.taken /\ f.state = "failed" /\ f.what = c.what
    BY <1>4, <1>5 DEF ConfigCall
  <1>7. /\ configCalls' = [configCalls EXCEPT ![i].state = "done", ![i].what = RepliedSection(c)]
           => configCalls' = [configCalls EXCEPT ![i] = d]
        /\ configCalls' = [configCalls EXCEPT ![i].state = "failed"] => configCalls' = [configCalls EXCEPT ![i] = f]
    BY <1>1, <1>3, <1>4, <1>5 DEF RoleTypes
  <1>8. \/ configCalls' = [configCalls EXCEPT ![i] = d] /\ sections' = [sections EXCEPT ![c.of] = StoredSection(c)]
        \/ /\ configCalls' = [configCalls EXCEPT ![i] = f]
           /\ sections' = sections \/ sections' = [sections EXCEPT ![c.of] = StoredSection(c)]
    BY <1>2, <1>7
  <1>9. sections' \in [Target -> Section]
    BY <1>8, ServedSection DEF RoleTypes
  <1>10. /\ configCalls' \in [CallSlot -> ConfigCall] /\ \A j \in CallSlot \ {i} : configCalls'[j] = configCalls[j]
         /\ configCalls'[i] = d \/ configCalls'[i] = f
    BY <1>6, <1>8 DEF RoleTypes
  <1>11. \/ configCalls'[i] = d /\ sections' = [sections EXCEPT ![c.of] = StoredSection(c)]
         \/ configCalls'[i] = f /\ (sections' = sections \/ sections' = [sections EXCEPT ![c.of] = StoredSection(c)])
    BY <1>8 DEF RoleTypes
  <1> QED
    BY <1>1, <1>2, <1>3, <1>6, <1>9, <1>10, <1>11

LEMMA ServeKeeps ==
  ASSUME RoleInv, NEW i \in CallSlot, ServeConfig(i)
  PROVE  RoleInv'
  <1>1. RoleTypes /\ EditorKept /\ RowsKept
    BY DEF RoleInv
  <1>2. PICK c \in ConfigCall : c = configCalls[i]
    BY <1>1 DEF RoleTypes
  <1>3. /\ c.kind # "none" /\ c.state = "sent"
        /\ configCalls' \in [CallSlot -> ConfigCall] /\ sections' \in [Target -> Section]
        /\ \A j \in CallSlot \ {i} : configCalls'[j] = configCalls[j]
        /\ configCalls'[i].kind = c.kind /\ configCalls'[i].of = c.of /\ configCalls'[i].taken = c.taken
        /\ \/ configCalls'[i].state = "failed" /\ configCalls'[i].what = c.what
           \/ /\ configCalls'[i].state = "done" /\ configCalls'[i].what = RepliedSection(c)
              /\ sections' = [sections EXCEPT ![c.of] = StoredSection(c)]
    BY <1>1, <1>2, Served
  <1>4. sections' = sections \/ sections' = [sections EXCEPT ![c.of] = StoredSection(c)]
    BY <1>1, <1>2, Served
  <1>5. /\ UNCHANGED <<detailsRole, detailsServer, detailsTab, formRow, serviceRow, debounced, loadError>>
        /\ UNCHANGED <<editingRole, editorServer, editorContent, editorBusy, contentOf, editMixed>>
    BY DEF ServeConfig, configEditorVars
  <1>6. rowsOvertaken' \in BOOLEAN /\ (rowsOvertaken' = FALSE => rowsOvertaken = FALSE)
    BY <1>1 DEF ServeConfig, RoleTypes
  <1>7. RoleTypes'
    BY <1>1, <1>3, <1>5, <1>6 DEF RoleTypes
  <1>8. EditorKept'
    <2>1. EditorCallsStay
      BY <1>2, <1>3 DEF EditorCallsStay
    <2> QED
      BY <1>1, <1>5, <2>1, EditorStays DEF EditorKept, configEditorVars
  <1>9. RowsKept'
    <2> SUFFICES ASSUME detailsRole # NoRole, rowsOvertaken = FALSE
                 PROVE  /\ CallsOfRows'
                        /\ NoWrite' /\ loadError = FALSE =>
                             /\ detailsTab = "forms" /\ debounced = Unset /\ formRow.error = FALSE => FormShows'
                             /\ detailsTab = "services" /\ serviceRow.error = FALSE => ServiceShows'
      BY <1>5, <1>6 DEF RowsKept
    <2>1. CallsOfRows /\ ShownTarget \in Target /\ ShownTarget' = ShownTarget
      BY <1>1, <1>5, ShownIsTarget DEF RowsKept, ShownTarget
    <2>2. c.of = ShownTarget /\ c.taken = TRUE /\ c.kind \in KindsOf(detailsTab) /\ Stands(c)
      BY <1>2, <1>3, <2>1 DEF CallsOfRows
    <2>3. /\ StoredSection(c) \in Section
          /\ c.kind = "patch" => StoredSection(c).field = c.what.field /\ RepliedSection(c) = c.what
          /\ c.kind = "reset" => StoredSection(c).field = Unset
          /\ c.kind = "toggle" => StoredSection(c).service = c.what.service /\ RepliedSection(c) = c.what
          /\ c.kind \in RowReads => StoredSection(c) = sections[c.of]
      BY <1>1, ServedSection
    <2>4. c.kind \in RowReads => sections' = sections
      BY <1>1, <1>4, <2>1, <2>2, <2>3 DEF RoleTypes
    <2>5. Stands(configCalls[i])'
      <3>1. CASE configCalls'[i].state = "failed"
        BY <1>3, <2>2, <3>1 DEF Stands
      <3>2. CASE configCalls'[i].state = "done"
        <4>1. sections'[ShownTarget] = StoredSection(c) /\ configCalls'[i].what = RepliedSection(c)
          BY <1>1, <1>3, <2>1, <2>2, <3>2 DEF RoleTypes
        <4> QED
          BY <1>3, <2>1, <2>2, <2>3, <4>1 DEF Stands
      <3> QED
        BY <1>3, <3>1, <3>2
    <2>6. ASSUME NEW j \in CallSlot, j # i, configCalls[j].kind # "none" PROVE Stands(configCalls[j])'
      <3>1. configCalls'[j] = configCalls[j] /\ Stands(configCalls[j]) /\ configCalls[j].kind \in KindsOf(detailsTab)
        BY <1>3, <2>1, <2>6 DEF CallsOfRows
      <3>2. CASE configCalls[j].kind \in RowWrites
        <4>1. c.kind \notin RowWrites
          BY <1>2, <2>1, <2>6, <3>2 DEF CallsOfRows
        <4>2. c.kind \in RowReads
          BY <2>2, <3>1, <3>2, <4>1, <1>1 DEF KindsOf, RowWrites, RowReads, RoleTypes, PlanCall
        <4> QED
          BY <2>1, <2>4, <3>1, <4>2 DEF Stands
      <3>3. CASE configCalls[j].kind \notin RowWrites
        BY <3>1, <3>3 DEF Stands, RowWrites
      <3> QED
        BY <3>2, <3>3
    <2>7. CallsOfRows'
      <3>1. \A j \in CallSlot : configCalls'[j].kind = configCalls[j].kind /\ configCalls'[j].of = configCalls[j].of
              /\ configCalls'[j].taken = configCalls[j].taken
        BY <1>2, <1>3
      <3>2. \A j \in CallSlot : configCalls[j].kind # "none" => Stands(configCalls[j])'
        BY <2>5, <2>6
      <3> QED
        BY <1>5, <2>1, <3>1, <3>2 DEF CallsOfRows
    <2>8. (NoWrite' => NoWrite) /\ (Reading => Reading')
      BY <1>2, <1>3 DEF NoWrite, Reading
    <2>9. NoWrite' /\ detailsTab \in {"forms", "services"} => sections' = sections
      BY <1>2, <1>3, <2>2, <2>4, <2>8 DEF KindsOf, NoWrite, RowWrites, RowReads
    <2>10. NoWrite' /\ loadError = FALSE =>
             /\ detailsTab = "forms" /\ debounced = Unset /\ formRow.error = FALSE => FormShows
             /\ detailsTab = "services" /\ serviceRow.error = FALSE => ServiceShows
      BY <1>1, <2>8 DEF RowsKept
    <2>11. sections' = sections => (FormShows => FormShows') /\ (ServiceShows => ServiceShows')
      BY <1>5, <2>1, <2>8 DEF FormShows, ServiceShows
    <2> QED
      BY <2>7, <2>9, <2>10, <2>11
  <1> QED
    BY <1>7, <1>8, <1>9 DEF RoleInv

-----------------------------------------------------------------------------
(* Answers.                                                                 *)

LEMMA OverriddenRow ==
  ASSUME NEW v \in FieldValues \cup {Unset}
  PROVE  Overridden(v) \in FormRow /\ Overridden(v).value = v /\ Overridden(v).override = TRUE
  <1>1. PICK yes, no \in BOOLEAN : yes = TRUE /\ no = FALSE
    OBVIOUS
  <1>2. Overridden(v) = [value |-> v, override |-> yes, pending |-> no, error |-> no]
    BY <1>1 DEF Overridden
  <1> QED
    BY <1>1, <1>2 DEF FormRow

\* The form after an answer.
LEMMA FormAfterIs ==
  ASSUME RoleTypes, NEW c \in ConfigCall, c.state # "sent", c.kind \in {"formsRead", "patch", "reset"}
  PROVE  /\ FormAfter(c) \in FormRow
         /\ c.state = "failed" /\ c.kind = "formsRead" => FormAfter(c) = formRow
         /\ c.state = "failed" /\ c.kind # "formsRead" => FormAfter(c).error = TRUE
         /\ c.state = "done" /\ c.kind = "reset" => FormAfter(c) = InitialForm
         /\ c.state = "done" /\ c.kind = "patch" => FormAfter(c) = Overridden(c.what.field)
         /\ c.state = "done" /\ c.kind = "formsRead" =>
              FormAfter(c) = IF c.what.field = Unset THEN formRow ELSE Overridden(c.what.field)
  <1>1. c.what.field \in FieldValues \cup {Unset} /\ c.state \in {"done", "failed"}
    BY CallFields, SectionFields
  <1>2. Overridden(c.what.field) \in FormRow /\ InitialForm \in FormRow /\ formRow \in FormRow
    BY <1>1, OverriddenRow, RowsAfresh DEF RoleTypes
  <1>3. CASE c.state = "failed"
    <2>1. PICK yes, no \in BOOLEAN : yes = TRUE /\ no = FALSE
      OBVIOUS
    <2>2. PICK f : f = [formRow EXCEPT !.pending = no, !.error = yes]
      OBVIOUS
    <2>3. f \in FormRow /\ f.error = yes
      BY <1>2, <2>2 DEF FormRow
    <2>4. FormAfter(c) = IF c.kind = "formsRead" THEN formRow ELSE f
      BY <1>3, <2>1, <2>2 DEF FormAfter
    <2> QED
      BY <1>2, <1>3, <2>1, <2>3, <2>4
  <1>4. CASE c.state = "done"
    <2>1. FormAfter(c) = CASE c.kind = "reset" -> InitialForm
                           [] c.kind = "patch" -> Overridden(c.what.field)
                           [] OTHER -> IF c.what.field = Unset THEN formRow ELSE Overridden(c.what.field)
      BY <1>4 DEF FormAfter
    <2> QED
      BY <1>2, <1>4, <2>1
  <1> QED
    BY <1>1, <1>3, <1>4

LEMMA ServiceAfterIs ==
  ASSUME RoleTypes, NEW c \in ConfigCall, c.state # "sent", c.kind \in {"servicesRead", "toggle"}
  PROVE  /\ ServiceAfter(c) \in ServiceRow
         /\ c.kind = "toggle" /\ c.state = "failed" => ServiceAfter(c).error = TRUE
         /\ c.kind = "toggle" /\ c.state = "done" => ServiceAfter(c).enabled = (c.what.service = "on")
         /\ c.kind = "servicesRead" /\ (c.state = "failed" \/ c.what.service = "unset") => ServiceAfter(c) = serviceRow
         /\ c.kind = "servicesRead" /\ c.state = "done" /\ c.what.service # "unset" =>
              /\ ServiceAfter(c).enabled = (c.what.service = "on") /\ ServiceAfter(c).error = serviceRow.error
  <1>1. c.state \in {"done", "failed"} /\ serviceRow \in ServiceRow
    BY CallFields DEF RoleTypes
  <1>2. PICK on \in BOOLEAN : on = (c.what.service = "on")
    OBVIOUS
  <1>3. CASE c.kind = "servicesRead"
    <2>1. PICK s : s = [serviceRow EXCEPT !.enabled = on]
      OBVIOUS
    <2>2. s \in ServiceRow /\ s.enabled = on /\ s.error = serviceRow.error
      BY <1>1, <2>1 DEF ServiceRow
    <2>3. ServiceAfter(c) = IF c.state = "failed" \/ c.what.service = "unset" THEN serviceRow
                            ELSE [serviceRow EXCEPT !.enabled = (c.what.service = "on")]
      BY <1>3 DEF ServiceAfter
    <2>4. ServiceAfter(c) = IF c.state = "failed" \/ c.what.service = "unset" THEN serviceRow ELSE s
      BY <1>2, <2>1, <2>3, Zenon
    <2> QED
      BY <1>1, <1>2, <1>3, <2>2, <2>4
  <1>4. CASE c.kind = "toggle"
    <2>1. PICK bad \in BOOLEAN : bad = (c.state = "failed")
      OBVIOUS
    <2>2. PICK en \in BOOLEAN : en = (on # bad)
      OBVIOUS
    <2>3. PICK no \in BOOLEAN : no = FALSE
      OBVIOUS
    <2>4. ServiceAfter(c) = [enabled |-> (c.what.service = "on") # (c.state = "failed"), pending |-> FALSE,
                             error |-> c.state = "failed"]
      BY <1>4 DEF ServiceAfter
    <2>5. ServiceAfter(c) = [enabled |-> en, pending |-> no, error |-> bad]
      BY <1>2, <2>1, <2>2, <2>3, <2>4, Zenon
    <2>6. ServiceAfter(c) \in ServiceRow /\ ServiceAfter(c).enabled = en /\ ServiceAfter(c).error = bad
      BY <2>5 DEF ServiceRow
    <2> QED
      BY <1>1, <1>2, <1>4, <2>1, <2>2, <2>6
  <1> QED
    BY <1>3, <1>4

\* A row is answered.
LEMMA RowsAnsweredKeeps ==
  ASSUME RoleInv, NEW i \in CallSlot, RowsAnswered(i)
  PROVE  RoleInv'
  <1>1. RoleTypes /\ EditorKept /\ RowsKept
    BY DEF RoleInv
  <1>2. PICK c \in ConfigCall : c = configCalls[i]
    BY <1>1 DEF RoleTypes
  <1>3. /\ c.kind \in DetailsCall /\ c.state # "sent" /\ configCalls' = [configCalls EXCEPT ![i] = NoConfigCall]
        /\ UNCHANGED <<sections, detailsRole, detailsServer, detailsTab, debounced>>
        /\ UNCHANGED <<editingRole, editorServer, editorContent, editorBusy, contentOf, editMixed>>
        /\ c.taken = FALSE => UNCHANGED <<formRow, serviceRow, loadError, rowsOvertaken>>
        /\ c.taken = TRUE =>
             /\ c.kind \in {"formsRead", "patch", "reset"} => formRow' = FormAfter(c) /\ serviceRow' = serviceRow
             /\ c.kind \notin {"formsRead", "patch", "reset"} => serviceRow' = ServiceAfter(c) /\ formRow' = formRow
    BY <1>2 DEF RowsAnswered, configEditorVars
  <1>4. c.taken \in BOOLEAN /\ c.state \in {"done", "failed"} /\ c.what \in Section
    BY <1>3, CallFields
  <1>5. /\ c.taken = TRUE => loadError' = (loadError \/ (c.state = "failed" /\ c.kind \in {"formsRead", "servicesRead"}))
        /\ c.taken = TRUE => rowsOvertaken' = (rowsOvertaken \/ Outdated(c))
    BY <1>2 DEF RowsAnswered
  <1>6. /\ loadError' \in BOOLEAN /\ rowsOvertaken' \in BOOLEAN /\ (rowsOvertaken' = FALSE => rowsOvertaken = FALSE)
        /\ loadError' = FALSE => loadError = FALSE
        /\ c.taken = TRUE /\ rowsOvertaken' = FALSE => ~Outdated(c)
        /\ c.taken = TRUE /\ loadError' = FALSE /\ c.kind \in RowReads => c.state = "done"
    BY <1>1, <1>3, <1>4, <1>5 DEF RoleTypes, RowReads
  <1>7. /\ configCalls' \in [CallSlot -> ConfigCall] /\ configCalls'[i].kind = "none"
        /\ \A j \in CallSlot \ {i} : configCalls'[j] = configCalls[j]
    BY <1>1, <1>3, TakenOff DEF RoleTypes
  <1>8. formRow' \in FormRow /\ serviceRow' \in ServiceRow
    BY <1>1, <1>3, <1>4, FormAfterIs, ServiceAfterIs DEF RoleTypes, DetailsCall
  <1>9. RoleTypes'
    BY <1>1, <1>3, <1>6, <1>7, <1>8 DEF RoleTypes
  <1>10. EditorKept'
    <2>1. EditorCallsStay
      BY <1>7 DEF EditorCallsStay, EditorCall
    <2> QED
      BY <1>1, <1>3, <2>1, EditorStays DEF EditorKept, configEditorVars
  <1>11. RowsKept'
    <2> SUFFICES ASSUME detailsRole # NoRole, rowsOvertaken' = FALSE
                 PROVE  /\ CallsOfRows'
                        /\ NoWrite' /\ loadError' = FALSE =>
                             /\ detailsTab = "forms" /\ debounced = Unset /\ formRow'.error = FALSE => FormShows'
                             /\ detailsTab = "services" /\ serviceRow'.error = FALSE => ServiceShows'
      BY <1>3 DEF RowsKept
    <2>1. CallsOfRows /\ rowsOvertaken = FALSE /\ ShownTarget' = ShownTarget
      BY <1>1, <1>3, <1>6 DEF RowsKept, ShownTarget
    <2>2. c.of = ShownTarget /\ c.taken = TRUE /\ c.kind \in KindsOf(detailsTab) /\ Stands(c) /\ ~Outdated(c)
      BY <1>2, <1>3, <1>6, <2>1 DEF CallsOfRows, DetailsCall
    <2>3. CallsOfRows'
      <3>1. \A j \in CallSlot : configCalls'[j].kind # "none" => configCalls'[j] = configCalls[j]
        BY <1>7
      <3>2. \A j \in CallSlot : configCalls'[j].kind # "none" => Stands(configCalls[j])'
        BY <1>3, <2>1, <3>1 DEF CallsOfRows, Stands
      <3>3. \A j \in CallSlot : configCalls'[j].kind \in RowWrites => configCalls'[j] = configCalls[j]
        BY <3>1 DEF RowWrites
      <3> QED
        BY <1>3, <2>1, <3>1, <3>2, <3>3 DEF CallsOfRows
    <2>4. ASSUME NoWrite', loadError' = FALSE PROVE c.kind \in RowReads => NoWrite /\ c.state = "done"
      BY <1>2, <1>6, <1>7, <2>2, <2>4 DEF NoWrite, RowReads, RowWrites
    <2>5. ASSUME NoWrite', loadError' = FALSE, detailsTab = "forms", debounced = Unset, formRow'.error = FALSE
          PROVE  formRow'.value = sections[ShownTarget].field /\ formRow'.override = (sections[ShownTarget].field # Unset)
      <3>1. c.kind \in {"formsRead", "patch", "reset"} /\ formRow' = FormAfter(c)
        BY <1>3, <2>2, <2>5 DEF KindsOf
      <3>2. c.what.field \in FieldValues \cup {Unset}
        BY <1>4, SectionFields
      <3>3. CASE c.kind = "formsRead"
        <4>1. c.state = "done" /\ NoWrite /\ c.what.field = sections[ShownTarget].field
          BY <2>2, <2>4, <2>5, <3>3 DEF RowReads, Outdated
        <4>2. CASE c.what.field = Unset
          <5>1. formRow' = formRow
            BY <1>3, <1>4, <1>1, <3>1, <3>3, <4>1, <4>2, FormAfterIs
          <5>2. FormShows
            BY <1>1, <1>6, <2>1, <2>5, <4>1, <5>1 DEF RowsKept
          <5> QED
            BY <4>1, <4>2, <5>1, <5>2 DEF FormShows
        <4>3. CASE c.what.field # Unset
          <5>1. formRow' = Overridden(c.what.field)
            BY <1>3, <1>4, <1>1, <3>1, <3>3, <4>1, <4>3, FormAfterIs
          <5> QED
            BY <3>2, <4>1, <4>3, <5>1, OverriddenRow
        <4> QED
          BY <4>2, <4>3
      <3>4. CASE c.kind # "formsRead"
        <4>1. c.state = "done"
          BY <1>1, <1>3, <1>4, <2>5, <3>1, <3>4, FormAfterIs
        <4>2. CASE c.kind = "patch"
          <5>1. formRow' = Overridden(c.what.field) /\ c.what.field = sections[ShownTarget].field /\ c.what.field # Unset
            BY <1>1, <1>3, <2>2, <3>1, <4>1, <4>2, FormAfterIs DEF Stands
          <5> QED
            BY <3>2, <5>1, OverriddenRow
        <4>3. CASE c.kind = "reset"
          <5>1. formRow' = InitialForm /\ sections[ShownTarget].field = Unset
            BY <1>1, <1>3, <2>2, <3>1, <4>1, <4>3, FormAfterIs DEF Stands
          <5> QED
            BY <5>1, RowsAfresh
        <4> QED
          BY <3>1, <3>4, <4>2, <4>3
      <3> QED
        BY <3>3, <3>4
    <2>6. ASSUME NoWrite', loadError' = FALSE, detailsTab = "services", serviceRow'.error = FALSE
          PROVE  serviceRow'.enabled = (sections[ShownTarget].service = "on")
      <3>1. c.kind \in {"servicesRead", "toggle"} /\ serviceRow' = ServiceAfter(c)
        BY <1>3, <2>2, <2>6 DEF KindsOf
      <3>2. CASE c.kind = "servicesRead"
        <4>1. c.state = "done" /\ NoWrite /\ c.what.service = sections[ShownTarget].service
          BY <2>2, <2>4, <2>6, <3>2 DEF RowReads, Outdated
        <4>2. CASE c.what.service = "unset"
          <5>1. serviceRow' = serviceRow
            BY <1>3, <1>1, <3>1, <3>2, <4>2, ServiceAfterIs
          <5>2. ServiceShows
            BY <1>1, <1>6, <2>1, <2>6, <4>1, <5>1 DEF RowsKept
          <5> QED
            BY <4>1, <4>2, <5>1, <5>2 DEF ServiceShows
        <4>3. CASE c.what.service # "unset"
          BY <1>3, <1>1, <3>1, <3>2, <4>1, <4>3, ServiceAfterIs
        <4> QED
          BY <4>2, <4>3
      <3>3. CASE c.kind = "toggle"
        <4>1. c.state = "done" /\ sections[ShownTarget].service = c.what.service
          BY <1>1, <1>3, <1>4, <2>2, <2>6, <3>1, <3>3, ServiceAfterIs DEF Stands
        <4> QED
          BY <1>1, <1>3, <3>1, <3>3, <4>1, ServiceAfterIs
      <3> QED
        BY <3>1, <3>2, <3>3
    <2>7. sections'[ShownTarget'] = sections[ShownTarget]
      BY <1>3, <2>1
    <2> QED
      BY <2>3, <2>5, <2>6, <2>7 DEF FormShows, ServiceShows
  <1> QED
    BY <1>9, <1>10, <1>11 DEF RoleInv

\* The plan is put after it was read.
LEMMA PlanAnsweredKeeps ==
  ASSUME RoleInv, NEW i \in CallSlot, PlanAnswered(i)
  PROVE  RoleInv'
  <1>1. RoleTypes /\ EditorKept /\ RowsKept
    BY DEF RoleInv
  <1>2. PICK c \in ConfigCall : c = configCalls[i]
    BY <1>1 DEF RoleTypes
  <1>3. /\ c.kind \in PlanCall
        /\ UNCHANGED <<sections, detailsRole, detailsServer, detailsTab, formRow, serviceRow, debounced, loadError, rowsOvertaken>>
        /\ UNCHANGED <<editingRole, editorServer, editorContent, editorBusy, contentOf, editMixed>>
    BY <1>2 DEF PlanAnswered, configEditorVars, rowVars
  <1>4. PICK k \in DetailsCall \cup EditorCall \cup PlanCall : k = "planPut"
    BY DEF PlanCall
  <1>5. PICK p : p = ConfigRequest(k, c.of, c.what)
    OBVIOUS
  <1>6. p \in ConfigCall /\ p.kind = "planPut" /\ p.of = c.of /\ p.state = "sent"
    BY <1>4, <1>5, ConfigRequestIs, CallFields
  <1>7. p.taken = TRUE
    BY <1>5, RequestTaken
  <1>8. PICK n \in ConfigCall : /\ configCalls' = [configCalls EXCEPT ![i] = n]
                                /\ n = p \/ n = NoConfigCall
    BY <1>2, <1>4, <1>5, <1>6, NoConfigCallIs DEF PlanAnswered
  <1>9. /\ configCalls' \in [CallSlot -> ConfigCall] /\ configCalls'[i] = n
        /\ \A j \in CallSlot \ {i} : configCalls'[j] = configCalls[j]
    BY <1>1, <1>8 DEF RoleTypes
  <1>10. n.kind \in {"none", "planPut"}
    BY <1>6, <1>8, NoConfigCallIs
  <1>11. RoleTypes'
    BY <1>1, <1>3, <1>9 DEF RoleTypes
  <1>12. EditorKept'
    <2>1. EditorCallsStay
      BY <1>9, <1>10 DEF EditorCallsStay, EditorCall
    <2> QED
      BY <1>1, <1>3, <2>1, EditorStays DEF EditorKept, configEditorVars
  <1>13. RowsKept'
    <2> SUFFICES ASSUME detailsRole # NoRole, rowsOvertaken = FALSE
                 PROVE  CallsOfRows' /\ detailsTab \notin {"forms", "services"}
      BY <1>3 DEF RowsKept
    <2>1. CallsOfRows /\ ShownTarget' = ShownTarget
      BY <1>1, <1>3 DEF RowsKept, ShownTarget
    <2>2. c.of = ShownTarget /\ c.kind \in KindsOf(detailsTab)
      BY <1>2, <1>3, <2>1 DEF CallsOfRows, PlanCall
    <2>3. detailsTab = "billing"
      BY <1>1, <1>3, <2>2 DEF KindsOf, PlanCall, RoleTypes
    <2>4. ASSUME NEW j \in CallSlot, configCalls'[j].kind # "none"
          PROVE  /\ configCalls'[j].of = ShownTarget /\ configCalls'[j].taken = TRUE
                 /\ configCalls'[j].kind \in KindsOf(detailsTab) /\ Stands(configCalls[j])'
      <3>1. CASE j = i
        <4>1. n = p /\ configCalls'[j] = p
          BY <1>8, <1>9, <2>4, <3>1, NoConfigCallIs
        <4> QED
          BY <1>6, <1>7, <2>2, <2>3, <4>1 DEF KindsOf, PlanCall, Stands
      <3>2. CASE j # i
        <4>1. configCalls'[j] = configCalls[j] /\ configCalls[j].kind \in PlanCall
          BY <1>9, <2>1, <2>3, <2>4, <3>2 DEF CallsOfRows, KindsOf
        <4> QED
          BY <2>1, <2>4, <4>1 DEF CallsOfRows, Stands, PlanCall
      <3> QED
        BY <3>1, <3>2
    <2>5. \A j \in CallSlot : configCalls'[j].kind \notin RowWrites
      BY <2>3, <2>4 DEF KindsOf, PlanCall, RowWrites
    <2> QED
      BY <1>3, <2>1, <2>3, <2>4, <2>5 DEF CallsOfRows
  <1> QED
    BY <1>11, <1>12, <1>13 DEF RoleInv

\* The editor takes any answer.
LEMMA EditorAnsweredKeeps ==
  ASSUME RoleInv, NEW i \in CallSlot, EditorAnswered(i)
  PROVE  RoleInv'
  <1>1. RoleTypes /\ EditorKept /\ RowsKept
    BY DEF RoleInv
  <1>2. PICK c \in ConfigCall : c = configCalls[i]
    BY <1>1 DEF RoleTypes
  <1>3. /\ c.kind \in EditorCall /\ c.state # "sent" /\ configCalls' = [configCalls EXCEPT ![i] = NoConfigCall]
        /\ UNCHANGED <<sections, detailsRole, detailsServer, detailsTab, formRow, serviceRow, debounced, loadError, rowsOvertaken>>
        /\ editingRole' = editingRole /\ editorBusy' = FALSE /\ editMixed' = (editMixed \/ ~c.taken)
        /\ \/ editorContent' = c.what /\ contentOf' = c.of /\ editorServer' = c.of[2]
           \/ c.kind = "load" /\ editorContent' = Blank /\ contentOf' = c.of /\ editorServer' = c.of[2]
           \/ c.kind # "load" /\ UNCHANGED <<editorContent, contentOf, editorServer>>
    <2>1. c.state = "done" \/ (c.state = "failed" /\ c.kind = "load") \/ (c.state = "failed" /\ c.kind # "load")
      BY <1>2, CallFields DEF EditorAnswered
    <2> QED
      BY <1>2, <2>1 DEF EditorAnswered, FailedLoad, rowVars
  <1>4. c.taken \in BOOLEAN /\ c.what \in Section /\ c.of \in Target /\ c.of[2] \in Servers
    BY CallFields DEF Target
  <1>5. /\ configCalls' \in [CallSlot -> ConfigCall] /\ configCalls'[i].kind = "none"
        /\ \A j \in CallSlot \ {i} : configCalls'[j] = configCalls[j]
    BY <1>1, <1>3, TakenOff DEF RoleTypes
  <1>6. editorBusy' \in BOOLEAN /\ editMixed' \in BOOLEAN /\ (editMixed' = FALSE => editMixed = FALSE /\ c.taken = TRUE)
    BY <1>1, <1>3, <1>4 DEF RoleTypes
  <1>7. RoleTypes'
    <2>1. editorContent' \in Section /\ editorServer' \in Servers
      BY <1>1, <1>3, <1>4, ShownIsTarget DEF RoleTypes
    <2> QED
      BY <1>1, <1>3, <1>5, <1>6, <2>1 DEF RoleTypes
  <1>8. EditorKept'
    <2>1. \A j \in CallSlot : Own(j)' => Own(j) /\ j # i
      BY <1>5 DEF Own, EditorCall
    <2>2. ASSUME editingRole # NoRole, editMixed' = FALSE
          PROVE  contentOf' = EditedTarget' /\ \A j \in CallSlot : ~Own(j)'
      <3>1. Own(i) /\ editMixed = FALSE
        BY <1>2, <1>3, <1>6, <2>2 DEF Own
      <3>2. c.of = EditedTarget /\ (c.kind # "load" => contentOf = EditedTarget) /\ \A j \in CallSlot : Own(j) => j = i
        BY <1>1, <1>2, <2>2, <3>1 DEF EditorKept
      <3>3. c.of[2] = editorServer
        BY <3>2 DEF EditedTarget
      <3>4. EditedTarget' = EditedTarget
        BY <1>3, <3>3 DEF EditedTarget
      <3> QED
        BY <1>3, <2>1, <3>2, <3>4
    <2> QED
      BY <1>1, <1>3, <2>1, <2>2 DEF EditorKept
  <1>9. RowsKept'
    <2> SUFFICES ASSUME detailsRole # NoRole, rowsOvertaken = FALSE PROVE FALSE
      BY <1>3 DEF RowsKept
    <2>1. c.kind \in KindsOf(detailsTab)
      BY <1>1, <1>2, <1>3 DEF RowsKept, CallsOfRows, EditorCall
    <2> QED
      BY <1>1, <1>3, <2>1 DEF KindsOf, EditorCall, PlanCall, RoleTypes
  <1> QED
    BY <1>7, <1>8, <1>9 DEF RoleInv

LEMMA RoleInitially == RoleConfigInit => RoleInv
  <1> SUFFICES ASSUME RoleConfigInit PROVE RoleInv
    OBVIOUS
  <1>1. /\ sections = [t \in Target |-> [Blank EXCEPT !.sealed = TRUE]]
        /\ detailsRole = NoRole /\ detailsServer = (CHOOSE s \in Servers : TRUE) /\ detailsTab = "general"
        /\ formRow = InitialForm /\ serviceRow = InitialService /\ debounced = Unset
        /\ configCalls = [i \in CallSlot |-> NoConfigCall] /\ editingRole = NoRole
        /\ editorServer = detailsServer /\ editorContent = Blank
    BY DEF RoleConfigInit
  <1>2. editorBusy \in BOOLEAN /\ loadError \in BOOLEAN /\ editMixed \in BOOLEAN /\ rowsOvertaken \in BOOLEAN
    BY DEF RoleConfigInit
  <1>3. detailsServer \in Servers
    BY <1>1, RoleConfigAssumption
  <1>4. Blank \in Section
    BY DEF Blank, Section
  <1>5. sections \in [Target -> Section]
    <2>1. PICK yes \in BOOLEAN : yes = TRUE
      OBVIOUS
    <2>2. PICK b : b = [Blank EXCEPT !.sealed = yes]
      OBVIOUS
    <2>3. b \in Section
      BY <1>4, <2>2 DEF Section
    <2>4. sections = [t \in Target |-> b]
      BY <1>1, <2>1, <2>2, Zenon
    <2> QED
      BY <2>3, <2>4
  <1>6. RoleTypes
    BY <1>1, <1>2, <1>3, <1>4, <1>5, NoConfigCallIs, RowsAfresh DEF RoleTypes
  <1>7. EditorKept
    BY <1>1, NoConfigCallIs DEF EditorKept, Own, EditorCall
  <1> QED
    BY <1>1, <1>6, <1>7 DEF RoleInv, RowsKept

LEMMA RoleStep == RoleInv /\ [RoleConfigNext]_roleConfigVars => RoleInv'
  <1> SUFFICES ASSUME RoleInv, [RoleConfigNext]_roleConfigVars PROVE RoleInv'
    OBVIOUS
  <1>1. CASE UNCHANGED roleConfigVars
    BY <1>1 DEF roleConfigVars, RoleInv, RoleTypes, EditorKept, Own, EditedTarget, RowsKept, CallsOfRows, Stands, ShownTarget,
                NoWrite, Reading, FormShows, ServiceShows
  <1>2. CASE RoleConfigNext
    BY <1>2, TabsKeep, ChangeFieldKeeps, RowRequestsKeep, EditorKeeps, ContentKeeps, ServeKeeps, RowsAnsweredKeeps,
       PlanAnsweredKeeps, EditorAnsweredKeeps DEF RoleConfigNext
  <1> QED
    BY <1>1, <1>2

\* Both editors of a role show, and would write, the settings of the role and
\* the server they name (useRoleDashboardEditor.ts, FormsTab.tsx,
\* ServicesTab.tsx).
THEOREM RoleShowsItsConfig == RoleConfigSpec => []RoleConfigAgrees
  <1>1. RoleInv => RoleConfigAgrees
    <2> SUFFICES ASSUME RoleInv PROVE ConfigStaysHome /\ RowsShowStored
      BY DEF RoleConfigAgrees
    <2>1. RoleTypes /\ EditorKept /\ RowsKept
      BY DEF RoleInv
    <2>2. ConfigStaysHome
      BY <2>1 DEF ConfigStaysHome, EditorKept, RoleTypes
    <2>3. RowsShowStored
      <3> SUFFICES ASSUME detailsRole # NoRole, InFlight = {}, debounced = Unset, ~loadError, ~rowsOvertaken
                   PROVE  /\ (detailsTab = "forms" /\ ~formRow.error) =>
                               /\ formRow.value = sections[ShownTarget].field
                               /\ formRow.override = (formRow.value # Unset)
                          /\ (detailsTab = "services" /\ ~serviceRow.error) =>
                               serviceRow.enabled = (sections[ShownTarget].service = "on")
        BY DEF RowsShowStored
      <3>1. \A i \in CallSlot : configCalls[i].kind = "none"
        BY DEF InFlight
      <3>2. NoWrite /\ ~Reading
        BY <3>1 DEF NoWrite, Reading, RowWrites, RowReads
      <3>3. loadError = FALSE /\ rowsOvertaken = FALSE /\ formRow.error \in BOOLEAN /\ serviceRow.error \in BOOLEAN
        BY <2>1 DEF RoleTypes, FormRow, ServiceRow
      <3>4. /\ detailsTab = "forms" /\ formRow.error = FALSE => FormShows
            /\ detailsTab = "services" /\ serviceRow.error = FALSE => ServiceShows
        BY <2>1, <3>2, <3>3 DEF RowsKept
      <3> QED
        BY <3>2, <3>3, <3>4 DEF FormShows, ServiceShows
    <2> QED
      BY <2>2, <2>3
  <1> QED
    BY <1>1, RoleInitially, RoleStep, PTL DEF RoleConfigSpec

-----------------------------------------------------------------------------
(***************************************************************************)
(* The filters of the Software tab.  After a load the URL holds them until *)
(* the first pass has read it; from then on the tab does.                  *)
(***************************************************************************)
SameButStatus(f, g) ==
  /\ f.scope = g.scope /\ f.track = g.track /\ f.expert = g.expert /\ f.words = g.words
  /\ f.selectedOnly = g.selectedOnly /\ f.view = g.view /\ f.column = g.column

OnOffer == StatusesOf(RolesListed) \ {"alpha"}

FiltersTypes ==
  /\ filters \in Filters /\ url \in Filters \cup {NoFilters} /\ wanted \in Filters \cup {NoFilters}
  /\ queryReady \in BOOLEAN /\ rolesThere \in BOOLEAN /\ pageNumber \in Nat \ {0}
  /\ apps \in [Apps -> [status : Statuses, words : SUBSET Words]]

\* What is left to be read, or has been.
Kept ==
  /\ wanted.expert = TRUE \/ wanted.track = "stable"
  /\ wanted.scope = "apps" => wanted.status \subseteq OnOffer
  /\ queryReady = FALSE =>
       /\ filters = DefaultFilters /\ url # NoFilters /\ SameButStatus(url, wanted)
       /\ wanted.scope = "apps" => url.status \cap OnOffer = wanted.status
  /\ queryReady = TRUE =>
       /\ SameButStatus(filters, wanted)
       /\ wanted.scope = "apps" => filters.status = wanted.status

FiltersInv == FiltersTypes /\ (wanted # NoFilters => Kept)

\* One field of the filters is set.
LEMMA FilterSet ==
  ASSUME NEW f \in Filters
  PROVE  /\ \A v \in {"apps", "bundles"} : [f EXCEPT !.scope = v] \in Filters
         /\ \A v \in {"stable", "preview"} : [f EXCEPT !.track = v] \in Filters
         /\ \A v \in BOOLEAN : [f EXCEPT !.expert = v] \in Filters
         /\ \A v \in SUBSET Words : [f EXCEPT !.words = v] \in Filters
         /\ \A v \in SUBSET Statuses : [f EXCEPT !.status = v] \in Filters
         /\ \A v \in BOOLEAN : [f EXCEPT !.selectedOnly = v] \in Filters
         /\ \A v \in {"list", "row"} : [f EXCEPT !.view = v] \in Filters
         /\ \A v \in {"auto", "open", "closed"} : [f EXCEPT !.column = v] \in Filters
  BY DEF Filters

LEMMA DefaultIsFilter == DefaultFilters \in Filters
  BY DEF DefaultFilters, Filters

\* What the effects leave of the filters they have read.
LEMMA CorrectedFilters ==
  ASSUME FiltersTypes, NEW f \in Filters
  PROVE  /\ Corrected(f) \in Filters
         /\ Corrected(f).track = IF filters.expert THEN f.track ELSE IF filters.track = "stable" THEN f.track ELSE "stable"
         /\ Corrected(f).status = f.status \cap LifecycleOptions(filters)
         /\ Corrected(f).scope = f.scope /\ Corrected(f).expert = f.expert /\ Corrected(f).words = f.words
         /\ Corrected(f).selectedOnly = f.selectedOnly /\ Corrected(f).view = f.view /\ Corrected(f).column = f.column
  <1> DEFINE t == IF filters.expert THEN f.track ELSE IF filters.track = "stable" THEN f.track ELSE "stable"
             o == f.status \cap LifecycleOptions(filters)
  <1>1. t \in {"stable", "preview"} /\ o \in SUBSET Statuses
    BY DEF Filters
  <1>2. Corrected(f) = [f EXCEPT !.track = t, !.status = o]
    BY DEF Corrected
  <1> HIDE DEF t, o
  <1>3. PICK c : c = [f EXCEPT !.track = t, !.status = o]
    OBVIOUS
  <1>4. /\ c \in Filters /\ c.track = t /\ c.status = o
        /\ c.scope = f.scope /\ c.expert = f.expert /\ c.words = f.words
        /\ c.selectedOnly = f.selectedOnly /\ c.view = f.view /\ c.column = f.column
    BY <1>1, <1>3 DEF Filters
  <1> QED
    BY <1>2, <1>3, <1>4 DEF t, o

\* What the lists of the page offer, to the tab as it is after a load and later.
LEMMA Offered ==
  ASSUME FiltersTypes
  PROVE  /\ filters = DefaultFilters => LifecycleOptions(filters) = OnOffer
         /\ filters.scope = "apps" => OnOffer \subseteq LifecycleOptions(filters)
         /\ LifecycleOptions(filters) \subseteq StatusesOf(RolesListed)
  <1>1. StatusesOf(RolesListed) \subseteq Statuses
    BY DEF FiltersTypes, StatusesOf, RolesListed
  <1> QED
    BY <1>1 DEF LifecycleOptions, LifecycleBase, LifecycleAllowed, OnOffer, DefaultFilters, Statuses

LEMMA PageCountIsNumber ==
  ASSUME FiltersTypes
  PROVE  PageCount(filters) \in Nat
  <1>1. IsFiniteSet(FilteredRoles(filters)) /\ IsFiniteSet(FilteredBundles(filters))
    <2>1. FilteredRoles(filters) \subseteq Apps /\ FilteredBundles(filters) \subseteq BundleIds
      BY DEF FilteredRoles, FilteredBundles, RolesListed, BundlesListed
    <2> QED
      BY <2>1, FS_Subset, SoftwareFiltersAssumption
  <1>2. Cardinality(FilteredRoles(filters)) \in Nat /\ Cardinality(FilteredBundles(filters)) \in Nat
    BY <1>1, FS_CardinalityType
  <1> QED
    BY <1>2 DEF PageCount

LEMMA FiltersInitially == FiltersInit => FiltersInv
  <1> SUFFICES ASSUME FiltersInit PROVE FiltersInv
    OBVIOUS
  <1>1. /\ apps \in [Apps -> [status : Statuses, words : SUBSET Words]] /\ rolesThere \in BOOLEAN
        /\ filters = DefaultFilters /\ url = NoFilters /\ wanted = NoFilters
    BY DEF FiltersInit
  <1>2. queryReady \in BOOLEAN
    BY DEF FiltersInit
  <1>3. pageNumber \in Nat \ {0}
    <2>1. pageNumber = 1
      BY DEF FiltersInit
    <2> QED
      BY <2>1
  <1> QED
    BY <1>1, <1>2, <1>3, DefaultIsFilter DEF FiltersInv, FiltersTypes

\* The effects.
LEMMA EffectsKeep ==
  ASSUME FiltersInv, RunEffects
  PROVE  FiltersInv'
  <1>1. FiltersTypes /\ filters' = Corrected(ReadFilters) /\ queryReady' = TRUE /\ url' = filters
        /\ pageNumber' = PageAfter /\ UNCHANGED <<apps, rolesThere, wanted>>
    BY DEF FiltersInv, RunEffects, Read
  <1>2. ReadFilters \in Filters
    BY <1>1 DEF ReadFilters, FiltersTypes
  <1>3. PICK r \in Filters : r = ReadFilters
    BY <1>2
  <1>4. /\ filters' \in Filters
        /\ filters'.track = IF filters.expert THEN r.track ELSE IF filters.track = "stable" THEN r.track ELSE "stable"
        /\ filters'.status = r.status \cap LifecycleOptions(filters)
        /\ filters'.scope = r.scope /\ filters'.expert = r.expert /\ filters'.words = r.words
        /\ filters'.selectedOnly = r.selectedOnly /\ filters'.view = r.view /\ filters'.column = r.column
    BY <1>1, <1>3, CorrectedFilters
  <1>5. pageNumber' \in Nat \ {0}
    <2>1. PageCount(filters) \in Nat /\ pageNumber \in Nat \ {0}
      BY <1>1, PageCountIsNumber DEF FiltersTypes
    <2>2. PageCount(filters) # 0
      <3>1. IsFiniteSet(FilteredRoles(filters)) /\ IsFiniteSet(FilteredBundles(filters))
        <4>1. FilteredRoles(filters) \subseteq Apps /\ FilteredBundles(filters) \subseteq BundleIds
          BY DEF FilteredRoles, FilteredBundles, RolesListed, BundlesListed
        <4> QED
          BY <4>1, FS_Subset, SoftwareFiltersAssumption
      <3>2. /\ FilteredRoles(filters) # {} => Cardinality(FilteredRoles(filters)) # 0
            /\ FilteredBundles(filters) # {} => Cardinality(FilteredBundles(filters)) # 0
        BY <3>1, FS_EmptySet
      <3> QED
        BY <3>2 DEF PageCount
    <2> QED
      BY <1>1, <2>1, <2>2 DEF PageAfter
  <1>6. FiltersTypes'
    BY <1>1, <1>4, <1>5 DEF FiltersTypes
  <1>7. ASSUME wanted # NoFilters PROVE Kept'
    <2>1. Kept /\ OnOffer' = OnOffer
      BY <1>1, <1>7 DEF FiltersInv, OnOffer, StatusesOf, RolesListed
    <2>2. SameButStatus(filters', wanted)
      <3>1. CASE queryReady = FALSE
        BY <1>1, <1>3, <1>4, <2>1, <3>1 DEF Kept, SameButStatus, ReadFilters, DefaultFilters
      <3>2. CASE queryReady = TRUE
        BY <1>1, <1>3, <1>4, <2>1, <3>2 DEF Kept, SameButStatus, ReadFilters
      <3> QED
        BY <1>1, <3>1, <3>2 DEF FiltersTypes
    <2>3. wanted.scope = "apps" => filters'.status = wanted.status
      <3>1. CASE queryReady = FALSE
        BY <1>1, <1>3, <1>4, <2>1, <3>1, Offered DEF Kept, ReadFilters
      <3>2. CASE queryReady = TRUE
        BY <1>1, <1>3, <1>4, <2>1, <3>2, Offered DEF Kept, SameButStatus, ReadFilters
      <3> QED
        BY <1>1, <3>1, <3>2 DEF FiltersTypes
    <2> QED
      BY <1>1, <2>1, <2>2, <2>3 DEF Kept, SameButStatus
  <1> QED
    BY <1>1, <1>6, <1>7 DEF FiltersInv

\* Anything the user chooses takes the place of what was there before the load.
LEMMA ChosenKeeps ==
  ASSUME FiltersInv, NEW f \in Filters, Choose(f)
  PROVE  FiltersInv'
  BY DEF FiltersInv, FiltersTypes, Choose

LEMMA ChoiceKeeps ==
  ASSUME FiltersInv,
         \/ ToggleSoftwareScope \/ ToggleReleaseTrack \/ HandleModeChange \/ ShowSelectedOnly
         \/ \E w \in Words : SearchOrFilter(w)
         \/ \E s \in Statuses : ToggleStatus(s)
         \/ \E v \in {"list", "row"} : SelectViewMode(v)
         \/ \E c \in {"open", "closed"} : ToggleColumn(c)
  PROVE  FiltersInv'
  <1> USE DEF Toolbar, InFilters
  <1>1. filters \in Filters /\ filters.expert \in BOOLEAN /\ filters.selectedOnly \in BOOLEAN
        /\ filters.words \subseteq Words /\ filters.status \subseteq Statuses
    BY DEF FiltersInv, FiltersTypes, Filters
  <1>2. CASE ToggleSoftwareScope
    <2>1. PICK v \in {"apps", "bundles"} : v = IF filters.scope = "apps" THEN "bundles" ELSE "apps"
      OBVIOUS
    <2>2. Choose([filters EXCEPT !.scope = v])
      BY <1>2, <2>1 DEF ToggleSoftwareScope
    <2> QED
      BY <1>1, <2>2, FilterSet, ChosenKeeps
  <1>3. CASE ToggleReleaseTrack
    <2>1. PICK v \in {"stable", "preview"} : v = IF filters.track = "stable" THEN "preview" ELSE "stable"
      OBVIOUS
    <2>2. Choose([filters EXCEPT !.track = v])
      BY <1>3, <2>1 DEF ToggleReleaseTrack
    <2> QED
      BY <1>1, <2>2, FilterSet, ChosenKeeps
  <1>4. CASE HandleModeChange
    <2>1. PICK v \in BOOLEAN : v = ~filters.expert
      OBVIOUS
    <2>2. Choose([filters EXCEPT !.expert = v])
      BY <1>4, <2>1 DEF HandleModeChange
    <2> QED
      BY <1>1, <2>2, FilterSet, ChosenKeeps
  <1>5. CASE ShowSelectedOnly
    <2>1. PICK v \in BOOLEAN : v = ~filters.selectedOnly
      OBVIOUS
    <2>2. Choose([filters EXCEPT !.selectedOnly = v])
      BY <1>5, <2>1 DEF ShowSelectedOnly
    <2> QED
      BY <1>1, <2>2, FilterSet, ChosenKeeps
  <1>6. ASSUME NEW w \in Words, SearchOrFilter(w) PROVE FiltersInv'
    <2>1. PICK v \in {filters.words \cup {w}, filters.words \ {w}} : Choose([filters EXCEPT !.words = v])
      BY <1>6 DEF SearchOrFilter
    <2>2. v \in SUBSET Words
      BY <1>1
    <2> QED
      BY <1>1, <2>1, <2>2, FilterSet, ChosenKeeps
  <1>7. ASSUME NEW s \in Statuses, ToggleStatus(s) PROVE FiltersInv'
    <2>1. PICK v \in {filters.status \cup {s}, filters.status \ {s}} : Choose([filters EXCEPT !.status = v])
      BY <1>7 DEF ToggleStatus
    <2>2. v \in SUBSET Statuses
      BY <1>1
    <2> QED
      BY <1>1, <2>1, <2>2, FilterSet, ChosenKeeps
  <1>8. ASSUME NEW v \in {"list", "row"}, SelectViewMode(v) PROVE FiltersInv'
    BY <1>1, <1>8, FilterSet, ChosenKeeps DEF SelectViewMode
  <1>9. ASSUME NEW c \in {"open", "closed"}, ToggleColumn(c) PROVE FiltersInv'
    <2>1. c \in {"auto", "open", "closed"}
      OBVIOUS
    <2> QED
      BY <1>1, <1>9, <2>1, FilterSet, ChosenKeeps DEF ToggleColumn
  <1> QED
    BY <1>2, <1>3, <1>4, <1>5, <1>6, <1>7, <1>8, <1>9

\* Lists arrive, pages are turned.
LEMMA OthersKeep ==
  ASSUME FiltersInv,
         \/ RolesArrive \/ BundlesArrive \/ \E S \in SUBSET Apps : PickApps(S)
         \/ ToggleFilters \/ ToggleViewMenu \/ ClosePopover \/ NextPage \/ PrevPage \/ UNCHANGED filtersVars
  PROVE  FiltersInv'
  <1>1. UNCHANGED <<filters, url, wanted, queryReady, apps>> /\ (UNCHANGED rolesThere \/ (rolesThere' = TRUE /\ queryReady = TRUE))
    BY DEF FiltersInv, FiltersTypes, RolesArrive, BundlesArrive, PickApps, ToggleFilters, ToggleViewMenu, ClosePopover, NextPage,
           PrevPage, Turn, filtersVars
  <1>2. pageNumber' \in Nat \ {0}
    <2>1. pageNumber \in Nat \ {0} /\ pageNumber' \in {pageNumber, pageNumber + 1, pageNumber - 1}
          /\ (pageNumber' = pageNumber - 1 => pageNumber > 1)
      BY DEF FiltersInv, FiltersTypes, RolesArrive, BundlesArrive, PickApps, ToggleFilters, ToggleViewMenu, ClosePopover, NextPage,
             PrevPage, Turn, filtersVars
    <2> QED
      BY <2>1
  <1>3. FiltersTypes'
    BY <1>1, <1>2 DEF FiltersInv, FiltersTypes
  <1>4. OnOffer \subseteq OnOffer' /\ (queryReady = FALSE => OnOffer' = OnOffer)
    BY <1>1 DEF OnOffer, StatusesOf, RolesListed, FiltersInv, FiltersTypes
  <1>5. wanted # NoFilters => Kept'
    BY <1>1, <1>4 DEF FiltersInv, Kept, SameButStatus
  <1> QED
    BY <1>1, <1>3, <1>5 DEF FiltersInv

LEMMA ReloadKeeps ==
  ASSUME FiltersInv, NEW there \in BOOLEAN, ReloadPage(there)
  PROVE  FiltersInv'
  <1>1. FiltersTypes /\ filters \in Filters
    BY DEF FiltersInv, FiltersTypes
  <1>2. /\ ~Due /\ wanted' = Surviving(there) /\ rolesThere' = there /\ filters' = DefaultFilters /\ queryReady' = FALSE
        /\ pageNumber' = 1 /\ UNCHANGED <<apps, url>>
    BY DEF ReloadPage
  <1>3. url = filters /\ filters = Corrected(filters)
    BY <1>2 DEF Due
  <1>4. /\ filters.expert = TRUE \/ filters.track = "stable"
        /\ filters.status \subseteq StatusesOf(RolesListed)
    BY <1>1, <1>3, CorrectedFilters, Offered DEF Filters
  <1>5. StatusesOf(RolesListed) \subseteq Statuses /\ (there = TRUE => StatusesOf(RolesListed) \subseteq StatusesOf(RolesListed)')
        /\ (there = FALSE => OnOffer' = {})
    BY <1>1, <1>2 DEF StatusesOf, RolesListed, FiltersTypes, OnOffer
  <1> DEFINE v == IF there /\ filters.scope = "apps" THEN filters.status \ {"alpha"} ELSE {}
  <1>6. PICK w : w = [filters EXCEPT !.status = v]
    OBVIOUS
  <1>7. wanted' = w
    BY <1>2, <1>6 DEF Surviving
  <1>8. w \in Filters /\ w.status = v /\ SameButStatus(filters, w)
    BY <1>1, <1>6 DEF Filters, SameButStatus
  <1>9. FiltersTypes'
    <2>1. filters' \in Filters /\ url' \in Filters \cup {NoFilters} /\ wanted' \in Filters \cup {NoFilters}
      BY <1>1, <1>2, <1>7, <1>8, DefaultIsFilter DEF FiltersTypes
    <2>2. queryReady' \in BOOLEAN /\ rolesThere' \in BOOLEAN
      BY <1>2
    <2>3. pageNumber' \in Nat \ {0}
      <3>1. pageNumber' = 1
        BY <1>2
      <3> QED
        BY <3>1
    <2>4. apps' \in [Apps -> [status : Statuses, words : SUBSET Words]]
      BY <1>1, <1>2 DEF FiltersTypes
    <2> QED
      BY <2>1, <2>2, <2>3, <2>4 DEF FiltersTypes
  <1>10. filters # NoFilters
    BY <1>1, SoftwareFiltersAssumption
  <1>11. Kept'
    <2>1. w.expert = TRUE \/ w.track = "stable"
      BY <1>4, <1>8 DEF SameButStatus
    <2>2. w.scope = "apps" => w.status \subseteq OnOffer'
      BY <1>4, <1>5, <1>8 DEF SameButStatus, OnOffer
    <2>3. w.scope = "apps" => filters.status \cap OnOffer' = w.status
      BY <1>4, <1>5, <1>8 DEF SameButStatus, OnOffer
    <2>4. url' = filters /\ SameButStatus(url', wanted')
      BY <1>2, <1>3, <1>7, <1>8
    <2> QED
      BY <1>2, <1>7, <1>10, <2>1, <2>2, <2>3, <2>4 DEF Kept, SameButStatus
  <1> QED
    BY <1>9, <1>11 DEF FiltersInv

LEMMA FiltersStep == FiltersInv /\ [FiltersNext]_filtersVars => FiltersInv'
  <1> SUFFICES ASSUME FiltersInv, [FiltersNext]_filtersVars PROVE FiltersInv'
    OBVIOUS
  <1> QED
    BY EffectsKeep, ChoiceKeeps, OthersKeep, ReloadKeeps DEF FiltersNext

\* Once its effects rest after a load, the tab filters as before, but for
\* statuses its lists do not offer (useRoleDashboardBootstrap.ts).
THEOREM FiltersComeBack == FiltersSpec => []FiltersSurviveReload
  <1>1. FiltersInv => FiltersSurviveReload
    <2> SUFFICES ASSUME FiltersInv, ~Due PROVE /\ wanted # NoFilters =>
                                                    \/ filters = wanted
                                                    \/ /\ wanted.scope = "bundles"
                                                       /\ filters = [wanted EXCEPT !.status = filters.status]
                                               /\ pageNumber <= PageCount(filters)
                                               /\ filters.status \subseteq LifecycleOptions(filters)
      BY DEF FiltersSurviveReload
    <2>1. FiltersTypes /\ queryReady = TRUE /\ filters = Corrected(filters) /\ pageNumber = PageAfter
      BY DEF FiltersInv, FiltersTypes, Due
    <2>2. PageCount(filters) \in Nat /\ pageNumber \in Nat
      BY <2>1, PageCountIsNumber DEF FiltersTypes
    <2>3. pageNumber <= PageCount(filters)
      BY <2>1, <2>2 DEF PageAfter
    <2>4. filters.status \subseteq LifecycleOptions(filters)
      BY <2>1, CorrectedFilters DEF FiltersTypes
    <2>5. ASSUME wanted # NoFilters
          PROVE  \/ filters = wanted
                 \/ wanted.scope = "bundles" /\ filters = [wanted EXCEPT !.status = filters.status]
      <3>1. filters \in Filters /\ wanted \in Filters /\ SameButStatus(filters, wanted)
            /\ (wanted.scope = "apps" => filters.status = wanted.status)
        BY <2>1, <2>5 DEF FiltersInv, FiltersTypes, Kept
      <3>2. CASE wanted.scope = "apps"
        BY <3>1, <3>2 DEF SameButStatus, Filters
      <3>3. CASE wanted.scope = "bundles"
        <4>1. PICK w : w = [wanted EXCEPT !.status = filters.status]
          OBVIOUS
        <4>2. w \in Filters /\ w.status = filters.status /\ SameButStatus(w, wanted)
          BY <3>1, <4>1 DEF SameButStatus, Filters
        <4>3. filters = w
          BY <3>1, <4>2 DEF SameButStatus, Filters
        <4> QED
          BY <3>3, <4>1, <4>3
      <3> QED
        BY <3>1, <3>2, <3>3 DEF Filters
    <2> QED
      BY <2>3, <2>4, <2>5
  <1> QED
    BY <1>1, FiltersInitially, FiltersStep, PTL DEF FiltersSpec

-----------------------------------------------------------------------------
(***************************************************************************)
(* The buttons of the Software tab.  Where a confirmation did not come too *)
(* late, a button says "disable" only while the fade of what was disabled  *)
(* is still to begin.                                                      *)
(***************************************************************************)
SettlesAs(b, on) ==
  /\ b \in Button
  /\ b.label = "disable" => b.timer = "start" /\ b.slow = FALSE
  /\ on = TRUE => b.timer = "none" /\ b.slow = FALSE /\ b.label = "enable"

ButtonsSettle ==
  \A i \in Item \ vainly : SettlesAs(buttons[i], Enabled(onHost, shownHost, i))

ButtonTypes ==
  /\ onHost \in [Hosts -> SUBSET RoleApps] /\ shownHost \in Hosts
  /\ buttons \in [Item -> Button] /\ mergePrompt \subseteq Hosts

ButtonsInv == ButtonTypes /\ ButtonsSettle

\* Fields of a button are set.
LEMMA ButtonStopped ==
  ASSUME NEW b \in Button, NEW no \in BOOLEAN, NEW t \in {"none", "start", "reset"}
  PROVE  /\ [b EXCEPT !.slow = no, !.timer = t] \in Button
         /\ [b EXCEPT !.slow = no, !.timer = t].slow = no
         /\ [b EXCEPT !.slow = no, !.timer = t].label = b.label
         /\ [b EXCEPT !.slow = no, !.timer = t].timer = t
  BY DEF Button

LEMMA ButtonAsked ==
  ASSUME NEW b \in Button, NEW no \in BOOLEAN
  PROVE  /\ [b EXCEPT !.confirm = no] \in Button
         /\ [b EXCEPT !.confirm = no].slow = b.slow
         /\ [b EXCEPT !.confirm = no].label = b.label
         /\ [b EXCEPT !.confirm = no].timer = b.timer
  BY DEF Button

LEMMA ButtonAnswered ==
  ASSUME NEW b \in Button, NEW no \in BOOLEAN, NEW l \in {"enable", "disable"}
  PROVE  [b EXCEPT !.confirm = no, !.label = l] \in Button
  BY DEF Button

\* What is enabled fades no longer, and what is disabled begins to.
LEMMA FadesAndUnfades ==
  ASSUME NEW b \in Button
  PROVE  /\ SettlesAs(Unfade(b), TRUE) /\ SettlesAs(Unfade(b), FALSE)
         /\ SettlesAs(Fade(b), FALSE)
  <1>1. PICK no \in BOOLEAN : no = FALSE
    OBVIOUS
  <1>2. /\ [b EXCEPT !.slow = no, !.label = "enable", !.timer = "none"] = Unfade(b)
        /\ [b EXCEPT !.slow = no, !.label = "disable", !.timer = "start"] = Fade(b)
    BY <1>1, Zenon DEF Unfade, Fade
  <1>3. /\ Unfade(b) \in Button /\ Unfade(b).slow = no /\ Unfade(b).label = "enable" /\ Unfade(b).timer = "none"
        /\ Fade(b) \in Button /\ Fade(b).slow = no /\ Fade(b).label = "disable" /\ Fade(b).timer = "start"
    <2>1. ASSUME NEW l \in {"enable", "disable"}, NEW t \in {"none", "start"}
          PROVE  /\ [b EXCEPT !.slow = no, !.label = l, !.timer = t] \in Button
                 /\ [b EXCEPT !.slow = no, !.label = l, !.timer = t].slow = no
                 /\ [b EXCEPT !.slow = no, !.label = l, !.timer = t].label = l
                 /\ [b EXCEPT !.slow = no, !.label = l, !.timer = t].timer = t
      BY DEF Button
    <2>2. PICK u, f : /\ u = [b EXCEPT !.slow = no, !.label = "enable", !.timer = "none"]
                      /\ f = [b EXCEPT !.slow = no, !.label = "disable", !.timer = "start"]
      OBVIOUS
    <2>3. u \in Button /\ u.slow = no /\ u.label = "enable" /\ u.timer = "none"
      BY <2>1, <2>2
    <2>4. f \in Button /\ f.slow = no /\ f.label = "disable" /\ f.timer = "start"
      BY <2>1, <2>2
    <2> QED
      BY <1>2, <2>2, <2>3, <2>4
  <1> QED
    BY <1>1, <1>3 DEF SettlesAs

\* Whatever changes the selection or the active server, the buttons follow.
LEMMA FollowSettles ==
  ASSUME NEW before \in [Item -> Button], NEW after, NEW g, NEW late,
         \A i \in Item \ late : SettlesAs(before[i], Enabled(onHost, shownHost, i))
  PROVE  /\ Follow(before, shownHost, after, g) \in [Item -> Button]
         /\ \A i \in Item \ {j \in late : Enabled(after, g, j) = Enabled(onHost, shownHost, j)} :
              SettlesAs(Follow(before, shownHost, after, g)[i], Enabled(after, g, i))
  <1> DEFINE f == Follow(before, shownHost, after, g)
  <1>1. \A i \in Item : f[i] = IF Enabled(onHost, shownHost, i) = Enabled(after, g, i) THEN before[i]
                               ELSE IF Enabled(after, g, i) THEN Unfade(before[i]) ELSE Fade(before[i])
    BY DEF Follow
  <1>2. \A i \in Item : SettlesAs(Unfade(before[i]), TRUE) /\ SettlesAs(Unfade(before[i]), FALSE)
                        /\ SettlesAs(Fade(before[i]), FALSE)
    BY FadesAndUnfades
  <1>3. f \in [Item -> Button]
    BY <1>2 DEF Follow, SettlesAs
  <1> HIDE DEF f
  <1>4. ASSUME NEW i \in Item, i \notin {j \in late : Enabled(after, g, j) = Enabled(onHost, shownHost, j)}
        PROVE  SettlesAs(f[i], Enabled(after, g, i))
    <2>1. CASE Enabled(onHost, shownHost, i) = Enabled(after, g, i)
      BY <1>1, <1>4, <2>1
    <2>2. CASE Enabled(onHost, shownHost, i) # Enabled(after, g, i) /\ Enabled(after, g, i)
      BY <1>1, <1>2, <2>2 DEF SettlesAs
    <2>3. CASE Enabled(onHost, shownHost, i) # Enabled(after, g, i) /\ ~Enabled(after, g, i)
      BY <1>1, <1>2, <2>3 DEF SettlesAs
    <2> QED
      BY <2>1, <2>2, <2>3
  <1> QED
    BY <1>3, <1>4 DEF f

LEMMA ButtonsInitially == SoftwareInit => ButtonsInv
  BY SoftwareSelectionAssumption DEF SoftwareInit, ButtonsInv, ButtonTypes, ButtonsSettle, SettlesAs, Released, Button, Enabled, Item

\* A selection that an action makes, with the buttons as the action leaves them.
LEMMA Reselected ==
  ASSUME ButtonTypes, NEW before \in [Item -> Button], NEW sel \in [Hosts -> SUBSET RoleApps], NEW h \in Hosts,
         \A i \in Item \ vainly : SettlesAs(before[i], Enabled(onHost, shownHost, i)),
         Reselect(before, sel, h), mergePrompt' \subseteq Hosts
  PROVE  ButtonsInv'
  <1>1. /\ onHost' = sel /\ shownHost' = h /\ buttons' = Follow(before, shownHost, sel, h)
        /\ vainly' = {j \in vainly : Enabled(sel, h, j) = Enabled(onHost, shownHost, j)}
    BY DEF Reselect
  <1>2. /\ buttons' \in [Item -> Button]
        /\ \A i \in Item \ vainly' : SettlesAs(buttons'[i], Enabled(sel, h, i))
    BY <1>1, FollowSettles
  <1>3. \A i \in Item : Enabled(sel, h, i) = Enabled(onHost', shownHost', i)
    BY <1>1 DEF Enabled
  <1> QED
    BY <1>1, <1>2, <1>3 DEF ButtonsInv, ButtonTypes, ButtonsSettle

\* A bundle that is enabled, or asked about.
LEMMA BundleEnabled ==
  ASSUME ButtonsInv, NEW before \in [Item -> Button], NEW h \in Hosts,
         \A i \in Item \ vainly : SettlesAs(before[i], Enabled(onHost, shownHost, i)),
         \/ \E s \in {"merge", "overwrite"} : ApplyBundle(before, h, s) /\ mergePrompt' \subseteq Hosts
         \/ RequestEnableBundle(before, h)
  PROVE  ButtonsInv'
  <1>1. ButtonTypes
    BY DEF ButtonsInv
  <1>2. ASSUME NEW s \in {"merge", "overwrite"}, ApplyBundle(before, h, s), mergePrompt' \subseteq Hosts PROVE ButtonsInv'
    <2> DEFINE S == IF s = "merge" THEN onHost[h] \cup BundleApps ELSE BundleApps
               sel == [onHost EXCEPT ![h] = S]
    <2>1. sel \in [Hosts -> SUBSET RoleApps] /\ shownHost \in Hosts
      BY <1>1, SoftwareSelectionAssumption DEF ButtonTypes
    <2>2. Reselect(before, sel, shownHost)
      BY <1>2 DEF ApplyBundle, Select
    <2> QED
      BY <1>1, <1>2, <2>1, <2>2, Reselected
  <1>3. CASE RequestEnableBundle(before, h) /\ onHost[h] = {}
    BY <1>1, <1>2, <1>3 DEF RequestEnableBundle, ButtonTypes
  <1>4. CASE RequestEnableBundle(before, h) /\ onHost[h] # {}
    BY <1>1, <1>4 DEF RequestEnableBundle, ButtonsInv, ButtonTypes, ButtonsSettle, Enabled
  <1> QED
    BY <1>2, <1>3, <1>4

LEMMA ButtonsStep == ButtonsInv /\ [SoftwareNext]_softwareVars => ButtonsInv'
  <1> SUFFICES ASSUME ButtonsInv, [SoftwareNext]_softwareVars PROVE ButtonsInv'
    OBVIOUS
  <1>1. /\ ButtonTypes /\ buttons \in [Item -> Button] /\ shownHost \in Hosts
        /\ \A i \in Item \ vainly : SettlesAs(buttons[i], Enabled(onHost, shownHost, i))
    BY DEF ButtonsInv, ButtonTypes, ButtonsSettle
  <1>2. CASE UNCHANGED softwareVars
    BY <1>1, <1>2 DEF softwareVars, ButtonsInv, ButtonTypes, ButtonsSettle, Enabled
  <1>3. ASSUME NEW i \in Item, HandleStateToggle(i) PROVE ButtonsInv'
    <2>1. CASE Enabled(onHost, shownHost, i)
      <3>1. PICK yes \in BOOLEAN : buttons' = [buttons EXCEPT ![i] = [buttons[i] EXCEPT !.confirm = yes]]
        BY <1>3, <2>1 DEF HandleStateToggle
      <3>2. UNCHANGED <<onHost, shownHost, mergePrompt, vainly>>
        BY <1>3, <2>1 DEF HandleStateToggle
      <3>3. PICK b \in Button : b = buttons[i]
        BY <1>1
      <3>4. PICK a : a = [b EXCEPT !.confirm = yes]
        OBVIOUS
      <3>5. a \in Button /\ a.slow = b.slow /\ a.label = b.label /\ a.timer = b.timer
        BY <3>4, ButtonAsked
      <3>6. buttons' = [buttons EXCEPT ![i] = a]
        BY <3>1, <3>3, <3>4
      <3>7. \A j \in Item \ vainly : SettlesAs(buttons'[j], Enabled(onHost, shownHost, j))
        BY <1>1, <3>3, <3>5, <3>6 DEF SettlesAs
      <3> QED
        BY <1>1, <3>2, <3>5, <3>6, <3>7 DEF ButtonsInv, ButtonTypes, ButtonsSettle, Enabled
    <2>2. CASE ~Enabled(onHost, shownHost, i)
      <3> DEFINE stopped == [buttons EXCEPT ![i] = Unfade(@)]
      <3>1. SettlesAs(Unfade(buttons[i]), FALSE)
        BY <1>1, FadesAndUnfades
      <3>2. stopped \in [Item -> Button] /\ \A j \in Item \ vainly : SettlesAs(stopped[j], Enabled(onHost, shownHost, j))
        BY <1>1, <2>2, <3>1 DEF SettlesAs
      <3>3. IF i = "app" THEN /\ Select(stopped, shownHost, onHost[shownHost] \cup {OneApp}) /\ UNCHANGED mergePrompt
                         ELSE RequestEnableBundle(stopped, shownHost)
        BY <1>3, <2>2, Zenon DEF HandleStateToggle
      <3> HIDE DEF stopped
      <3>4. CASE i = "app"
        <4> DEFINE sel == [onHost EXCEPT ![shownHost] = onHost[shownHost] \cup {OneApp}]
        <4>1. sel \in [Hosts -> SUBSET RoleApps]
          BY <1>1, SoftwareSelectionAssumption DEF ButtonTypes
        <4>2. Reselect(stopped, sel, shownHost) /\ mergePrompt' \subseteq Hosts
          BY <1>1, <3>3, <3>4 DEF Select, ButtonTypes
        <4> QED
          BY <1>1, <3>2, <4>1, <4>2, Reselected
      <3>5. CASE i # "app"
        BY <1>1, <3>2, <3>3, <3>5, BundleEnabled
      <3> QED
        BY <3>4, <3>5
    <2> QED
      BY <2>1, <2>2
  <1>4. ASSUME NEW i \in Item, ConfirmDisable(i) PROVE ButtonsInv'
    <2>1. PICK no \in BOOLEAN : no = FALSE
      OBVIOUS
    <2>2. PICK b \in Button : b = buttons[i]
      BY <1>1
    <2>3. PICK a : a = [b EXCEPT !.confirm = no, !.label = "disable"]
      OBVIOUS
    <2>4. a \in Button
      BY <2>3, ButtonAnswered
    <2> DEFINE answered == [buttons EXCEPT ![i] = a]
    <2>5. answered \in [Item -> Button] /\ \A j \in Item \ (vainly \cup {i}) : SettlesAs(answered[j], Enabled(onHost, shownHost, j))
      BY <1>1, <2>4
    <2>6. answered = [buttons EXCEPT ![i] = [@ EXCEPT !.confirm = FALSE, !.label = "disable"]]
      BY <2>1, <2>2, <2>3, Zenon
    <2>7. /\ IF i = "app" \/ Enabled(onHost, shownHost, i)
             THEN /\ onHost' = [onHost EXCEPT ![shownHost] = @ \ AppsOf(i)]
                  /\ buttons' = Follow(answered, shownHost, onHost', shownHost)
             ELSE buttons' = answered /\ UNCHANGED onHost
          /\ vainly' = IF Enabled(onHost, shownHost, i) THEN vainly \ {i} ELSE vainly \cup {i}
          /\ UNCHANGED <<shownHost, mergePrompt>>
      BY <1>4, <2>6, Zenon DEF ConfirmDisable
    <2> HIDE DEF answered
    <2>8. CASE ~(i = "app" \/ Enabled(onHost, shownHost, i))
      BY <1>1, <2>5, <2>7, <2>8 DEF ButtonsInv, ButtonTypes, ButtonsSettle, Enabled
    <2>9. CASE i = "app" \/ Enabled(onHost, shownHost, i)
      <3> DEFINE sel == [onHost EXCEPT ![shownHost] = @ \ AppsOf(i)]
      <3>1. sel \in [Hosts -> SUBSET RoleApps] /\ onHost' = sel
        BY <1>1, <2>7, <2>9 DEF ButtonTypes
      <3>2. /\ buttons' \in [Item -> Button]
            /\ \A j \in Item \ {k \in vainly \cup {i} : Enabled(onHost', shownHost, k) = Enabled(onHost, shownHost, k)} :
                 SettlesAs(buttons'[j], Enabled(onHost', shownHost, j))
        <4>1. PICK late, after : late = vainly \cup {i} /\ after = onHost'
          OBVIOUS
        <4>2. \A j \in Item \ late : SettlesAs(answered[j], Enabled(onHost, shownHost, j))
          BY <2>5, <4>1
        <4>3. /\ Follow(answered, shownHost, after, shownHost) \in [Item -> Button]
              /\ \A j \in Item \ {k \in late : Enabled(after, shownHost, k) = Enabled(onHost, shownHost, k)} :
                   SettlesAs(Follow(answered, shownHost, after, shownHost)[j], Enabled(after, shownHost, j))
          BY <2>5, <4>2, FollowSettles
        <4> QED
          BY <2>7, <2>9, <4>1, <4>3
      <3>3. Enabled(onHost, shownHost, i) => Enabled(onHost', shownHost, i) # Enabled(onHost, shownHost, i)
        BY <1>1, <3>1 DEF Enabled, ButtonTypes
      <3>4. \A j \in Item \ vainly' : SettlesAs(buttons'[j], Enabled(onHost', shownHost, j))
        BY <2>7, <3>2, <3>3
      <3> QED
        BY <1>1, <2>7, <3>1, <3>2, <3>4 DEF ButtonsInv, ButtonTypes, ButtonsSettle, Enabled
    <2> QED
      BY <2>8, <2>9
  <1>5. ASSUME NEW i \in Item, CancelDisable(i) \/ FadeStart(i) \/ FadeReset(i) PROVE ButtonsInv'
    <2>1. UNCHANGED <<onHost, shownHost, mergePrompt, vainly>>
      BY <1>5 DEF CancelDisable, FadeStart, FadeReset
    <2>2. PICK b \in Button : b = buttons[i]
      BY <1>1
    <2>3. PICK no, yes \in BOOLEAN : no = FALSE /\ yes = TRUE
      OBVIOUS
    <2>4. PICK c, f, r : /\ c = [b EXCEPT !.confirm = no]
                         /\ f = [b EXCEPT !.slow = yes, !.label = "enable", !.timer = "reset"]
                         /\ r = [b EXCEPT !.slow = no, !.timer = "none"]
      OBVIOUS
    <2>5. c \in Button /\ c.slow = b.slow /\ c.label = b.label /\ c.timer = b.timer
      BY <2>3, <2>4, ButtonAsked
    <2>6. f \in Button /\ f.label = "enable" /\ f.timer = "reset"
      <3>1. \A on \in BOOLEAN : /\ [b EXCEPT !.slow = on, !.label = "enable", !.timer = "reset"] \in Button
                               /\ [b EXCEPT !.slow = on, !.label = "enable", !.timer = "reset"].label = "enable"
                               /\ [b EXCEPT !.slow = on, !.label = "enable", !.timer = "reset"].timer = "reset"
        BY DEF Button
      <3> QED
        BY <2>3, <2>4, <3>1, Zenon
    <2>7. r \in Button /\ r.slow = no /\ r.label = b.label /\ r.timer = "none"
      BY <2>3, <2>4, ButtonStopped
    <2>8. CASE CancelDisable(i)
      <3>1. buttons' = [buttons EXCEPT ![i] = c]
        BY <2>2, <2>3, <2>4, <2>8 DEF CancelDisable
      <3>2. \A j \in Item \ vainly : SettlesAs(buttons'[j], Enabled(onHost, shownHost, j))
        BY <1>1, <2>2, <2>5, <3>1 DEF SettlesAs
      <3> QED
        BY <1>1, <2>1, <2>5, <3>1, <3>2 DEF ButtonsInv, ButtonTypes, ButtonsSettle, Enabled
    <2>9. CASE FadeStart(i)
      <3>1. buttons' = [buttons EXCEPT ![i] = f] /\ b.timer = "start"
        BY <2>2, <2>3, <2>4, <2>9 DEF FadeStart
      <3>2. \A j \in Item \ vainly : SettlesAs(buttons'[j], Enabled(onHost, shownHost, j))
        BY <1>1, <2>2, <2>6, <3>1 DEF SettlesAs
      <3> QED
        BY <1>1, <2>1, <2>6, <3>1, <3>2 DEF ButtonsInv, ButtonTypes, ButtonsSettle, Enabled
    <2>10. CASE FadeReset(i)
      <3>1. buttons' = [buttons EXCEPT ![i] = r] /\ b.timer = "reset"
        BY <2>2, <2>3, <2>4, <2>10 DEF FadeReset
      <3>2. \A j \in Item \ vainly : SettlesAs(buttons'[j], Enabled(onHost, shownHost, j))
        BY <1>1, <2>2, <2>3, <2>7, <3>1 DEF SettlesAs, Button
      <3> QED
        BY <1>1, <2>1, <2>7, <3>1, <3>2 DEF ButtonsInv, ButtonTypes, ButtonsSettle, Enabled
    <2> QED
      BY <1>5, <2>8, <2>9, <2>10
  <1>6. CASE SelectAppPlan
    <2> DEFINE sel == [onHost EXCEPT ![shownHost] = onHost[shownHost] \cup {OneApp}]
    <2>1. sel \in [Hosts -> SUBSET RoleApps] /\ mergePrompt' \subseteq Hosts /\ Reselect(buttons, sel, shownHost)
      BY <1>1, <1>6, SoftwareSelectionAssumption DEF SelectAppPlan, Select, ButtonTypes
    <2> QED
      BY <1>1, <2>1, Reselected
  <1>7. CASE CancelMergePrompt
    BY <1>1, <1>7 DEF CancelMergePrompt, ButtonsInv, ButtonTypes, ButtonsSettle, Enabled
  <1>8. ASSUME NEW s \in {"merge", "overwrite"}, AnswerMergePrompt(s) PROVE ButtonsInv'
    <2>1. PICK h \in mergePrompt : mergePrompt' = {} /\ ApplyBundle(buttons, h, s)
      BY <1>8 DEF AnswerMergePrompt
    <2>2. h \in Hosts
      BY <1>1 DEF ButtonTypes
    <2> QED
      BY <1>1, <2>1, <2>2, BundleEnabled
  <1>9. ASSUME NEW h \in Hosts, EnablePartial(h) PROVE ButtonsInv'
    BY <1>1, <1>9, BundleEnabled DEF EnablePartial
  <1>10. ASSUME NEW h \in Hosts, ActiveChanges(h) PROVE ButtonsInv'
    BY <1>1, <1>10, Reselected DEF ActiveChanges, ButtonTypes
  <1>11. ASSUME NEW h \in Hosts, NEW S \in SUBSET RoleApps, InventoryBrings(h, S) PROVE ButtonsInv'
    <2> DEFINE sel == [onHost EXCEPT ![h] = S]
    <2>1. sel \in [Hosts -> SUBSET RoleApps] /\ mergePrompt' \subseteq Hosts /\ Reselect(buttons, sel, shownHost)
      BY <1>1, <1>11 DEF InventoryBrings, Select, ButtonTypes
    <2> QED
      BY <1>1, <2>1, Reselected
  <1> QED
    BY <1>2, <1>3, <1>4, <1>5, <1>6, <1>7, <1>8, <1>9, <1>10, <1>11 DEF SoftwareNext

\* A button comes to rest offering to enable what is disabled, and what is
\* enabled does not fade, however the selection changes (EnableDropdown.tsx).
THEOREM ButtonsComeToRest == SoftwareSpec => []ButtonSettles
  <1>1. ButtonsInv => ButtonSettles
    BY DEF ButtonsInv, ButtonsSettle, ButtonSettles, SettlesAs, Button
  <1> QED
    BY <1>1, ButtonsInitially, ButtonsStep, PTL DEF SoftwareSpec

-----------------------------------------------------------------------------
(***************************************************************************)
(* Purged servers.  From the purge until its request has run, the alias is *)
(* kept out of the page alone; then out of the inventory, the host_vars    *)
(* and every copy of them that a run still holds.                          *)
(***************************************************************************)
Entry == {NoEntry} \cup SUBSET Roles
RunKinds == {"generate", "push", "pull", "rename", "delete", "cleanup", "hostVars"}
AnyRun == [kind : RunKinds, pc : {"post", "read", "apply", "write", "files", "list"}, ws : Spaces,
           from : Aliases \cup {NoAlias}, to : Aliases \cup {NoAlias}, sel : [Aliases -> Entry],
           hosts : SUBSET Aliases, text : [Aliases -> Entry]]
KindsAt(s) ==
  CASE s = "auto" -> {"generate", "push", "pull", "rename"}
    [] s = "removal" -> {"delete", "cleanup"}
    [] s = "vars" -> {"hostVars"}

\* What a run is in the middle of.
Sound(r) ==
  /\ r.pc = "post" => r.kind = "generate" /\ r.sel[r.from] # NoEntry
  /\ r.pc = "write" /\ r.kind # "hostVars" =>
       r.text \in [Aliases -> SUBSET Roles] /\ inventory[r.ws] # NoFile
  /\ r.pc = "read" => r.kind \in {"push", "pull", "rename", "delete", "cleanup"}
  /\ r.pc = "apply" => r.kind = "pull"
  /\ r.kind \in {"generate", "rename", "delete", "cleanup", "hostVars"} => r.from \in Aliases
  /\ r.kind = "rename" => r.to \in Aliases
  /\ r.kind = "hostVars" => r.hosts = {} /\ r.text = NoFile

ApiTypes ==
  /\ hostVars \in [Spaces -> SUBSET Aliases] /\ inventory \in [Spaces -> [Aliases -> Entry]]
  /\ \A w \in Spaces : inventory[w] = NoFile \/ inventory[w] \in [Aliases -> SUBSET Roles]
StoredTypes ==
  stored = [w \in Spaces |-> stored[w]] /\ \A w \in Spaces : stored[w].sel \in [Aliases -> Entry]
PageTypes ==
  /\ servers \in Seq(Aliases) /\ (\A i, j \in 1 .. Len(servers) : servers[i] = servers[j] => i = j)
  /\ active \in Aliases \cup {NoAlias} /\ selected \in [Aliases -> Entry]
QueueTypes == renames \in Seq(Aliases \X Aliases) /\ deletes \in Seq(Aliases) /\ cleanups \in Seq(Aliases)
RunTypes ==
  /\ runs \in [Refs -> AnyRun \cup {NoRun}]
  /\ \A s \in Refs : runs[s] # NoRun => runs[s].kind \in KindsAt(s) /\ Sound(runs[s])
SyncTypes ==
  /\ ApiTypes /\ StoredTypes /\ PageTypes /\ QueueTypes /\ RunTypes
  /\ open \in Spaces /\ hosts \in SUBSET Aliases /\ ready \in BOOLEAN /\ due \in BOOLEAN
  /\ due = TRUE \/ seen.ws = open
  /\ "ws" \in DOMAIN seen

-----------------------------------------------------------------------------
(* An alias that is out.                                                    *)

Nothing(x) == x = {} \/ x = NoEntry
InQueue(a) == \E i \in 1 .. Len(cleanups) : cleanups[i] = a
Again(a) == \E i \in 2 .. Len(cleanups) : cleanups[i] = a

\* Where a run that is to remove the alias stands.
Cleaning(a, r) ==
  /\ r.pc \in {"read", "write", "files", "list"}
  /\ a \in hostVars[open] => a \in r.hosts
  /\ r.pc = "write" => Nothing(r.text[a])
  /\ r.pc \in {"files", "list"} => Nothing(inventory[open][a])
  /\ r.pc = "list" => a \notin hostVars[open]
\* What a run holds of the alias afterwards.
Forgotten(a, r) ==
  /\ a \notin r.hosts /\ Nothing(r.text[a])
  /\ r.pc = "apply" => r.text[a] = NoEntry
  /\ r.kind = "push" => r.sel[a] = NoEntry

OffList(a) == (\A i \in 1 .. Len(servers) : servers[i] # a) /\ selected[a] = NoEntry /\ active # a
OffPage(a) == OffList(a) /\ seen.ws = open /\ \A i \in 1 .. Len(renames) : renames[i][2] # a
OffRuns(a) ==
  /\ \A s \in Refs : runs[s] # NoRun => runs[s].ws = open
  /\ runs["auto"].kind = "rename" => runs["auto"].to # a
  /\ runs["auto"].kind = "generate" => runs["auto"].from # a
  /\ runs["vars"].kind = "hostVars" => runs["vars"].from # a
  /\ runs["removal"].kind = "cleanup" => cleanups # <<>> /\ runs["removal"].from = cleanups[1]
Waiting(a) ==
  /\ runs["auto"].kind \in {"idle", "rename"}
  /\ a \in hostVars[open] => a \in hosts
  /\ ready = TRUE \/ inventory[open] = NoFile
  /\ (runs["removal"].kind = "cleanup" /\ runs["removal"].from = a /\ ~Again(a)) =>
       runs["auto"].kind = "idle" /\ Cleaning(a, runs["removal"])
Over(a) ==
  /\ a \notin hostVars[open] /\ a \notin hosts /\ Nothing(inventory[open][a])
  /\ \A s \in Refs : runs[s] # NoRun => Forgotten(a, runs[s])
Out(a) ==
  /\ a \in Aliases /\ OffPage(a) /\ OffRuns(a)
  /\ InQueue(a) => Waiting(a)
  /\ ~InQueue(a) => Over(a)
PurgesKept == \A p \in gone \ excused : p[2] # Device => p = <<open, p[2]>> /\ Out(p[2])
PurgeInv == SyncTypes /\ PurgesKept

-----------------------------------------------------------------------------
(* Values.                                                                  *)

LEMMA EntryFacts ==
  /\ NoFile \in [Aliases -> Entry] /\ \A a \in Aliases : NoFile[a] = NoEntry
  /\ {} \in Entry /\ {} # NoEntry /\ NoEntry \in Entry
  /\ \A S \in SUBSET Roles : S \in Entry /\ S # NoEntry
  /\ \A f \in [Aliases -> SUBSET Roles] : f \in [Aliases -> Entry] /\ f # NoFile
  /\ \A x \in Entry : x # NoEntry => x \in SUBSET Roles
  <1>1. \A S \in SUBSET Roles : S \in Entry /\ S # NoEntry
    BY InventoryAssumption DEF Entry
  <1>2. {} \in SUBSET Roles
    OBVIOUS
  <1>3. NoFile \in [Aliases -> Entry] /\ \A a \in Aliases : NoFile[a] = NoEntry
    BY DEF NoFile, Entry
  <1>4. ASSUME NEW f \in [Aliases -> SUBSET Roles] PROVE f \in [Aliases -> Entry] /\ f # NoFile
    <2>1. Device \in Aliases /\ f[Device] \in SUBSET Roles
      BY InventoryAssumption
    <2>2. f[Device] # NoFile[Device]
      BY <1>1, <1>3, <2>1
    <2> QED
      BY <1>1, <2>2
  <1> QED
    BY <1>1, <1>2, <1>3, <1>4 DEF Entry

LEMMA NoRunIs == NoRun.kind = "idle" /\ \A r \in AnyRun : r # NoRun /\ r.kind # "idle"
  <1>1. NoRun.kind = "idle"
    BY DEF NoRun
  <1>2. \A r \in AnyRun : r.kind # "idle"
    BY DEF AnyRun, RunKinds
  <1> QED
    BY <1>1, <1>2

LEMMA RunAt ==
  ASSUME RunTypes, NEW s \in Refs
  PROVE  /\ runs[s] = NoRun \/ runs[s] \in AnyRun
         /\ runs[s] = NoRun <=> runs[s].kind = "idle"
         /\ runs[s] # NoRun => runs[s].kind \in KindsAt(s) /\ Sound(runs[s])
  BY NoRunIs DEF RunTypes

LEMMA RunFields ==
  ASSUME NEW r \in AnyRun
  PROVE  /\ r.kind \in RunKinds /\ r.pc \in {"post", "read", "apply", "write", "files", "list"} /\ r.ws \in Spaces
         /\ r.from \in Aliases \cup {NoAlias} /\ r.to \in Aliases \cup {NoAlias} /\ r.sel \in [Aliases -> Entry]
         /\ r.hosts \in SUBSET Aliases /\ r.text \in [Aliases -> Entry]
  BY DEF AnyRun

\* A run as it starts, and its copy with the selection it is to push.
LEMMA RunIs ==
  ASSUME SyncTypes, NEW k \in RunKinds, NEW pc \in {"post", "read", "apply", "write", "files", "list"},
         NEW from \in Aliases \cup {NoAlias}, NEW to \in Aliases \cup {NoAlias}, NEW r, r = Run(k, pc, from, to)
  PROVE  /\ r \in AnyRun /\ r.kind = k /\ r.pc = pc /\ r.ws = open /\ r.from = from /\ r.to = to
         /\ r.sel = NoFile /\ r.hosts = hosts /\ r.text = NoFile
  BY EntryFacts DEF Run, AnyRun, SyncTypes

LEMMA RunWith ==
  ASSUME NEW r \in AnyRun, NEW x \in [Aliases -> Entry], NEW h \in SUBSET Aliases, NEW q
  PROVE  /\ q = [r EXCEPT !.sel = x] =>
              /\ q \in AnyRun /\ q.kind = r.kind /\ q.pc = r.pc /\ q.ws = r.ws /\ q.from = r.from /\ q.to = r.to
              /\ q.sel = x /\ q.hosts = r.hosts /\ q.text = r.text
         /\ q = [r EXCEPT !.hosts = h] =>
              /\ q \in AnyRun /\ q.kind = r.kind /\ q.pc = r.pc /\ q.ws = r.ws /\ q.from = r.from /\ q.to = r.to
              /\ q.sel = r.sel /\ q.hosts = h /\ q.text = r.text
  BY DEF AnyRun

\* A run after one of its steps.
LEMMA RunOn ==
  ASSUME NEW r \in AnyRun, NEW pc \in {"post", "read", "apply", "write", "files", "list"},
         NEW x \in [Aliases -> Entry], NEW y \in [Aliases -> Entry],
         NEW q, q = [r EXCEPT !.pc = pc, !.sel = x, !.text = y]
  PROVE  /\ q \in AnyRun /\ q.kind = r.kind /\ q.pc = pc /\ q.ws = r.ws /\ q.from = r.from /\ q.to = r.to
         /\ q.sel = x /\ q.hosts = r.hosts /\ q.text = y
  BY DEF AnyRun

-----------------------------------------------------------------------------
(* Sequences.                                                               *)

LEMMA SetListed ==
  ASSUME NEW S, IsFiniteSet(S)
  PROVE  /\ SetToSeq(S) \in [1 .. Cardinality(S) -> S]
         /\ \A x \in S : \E i \in 1 .. Cardinality(S) : SetToSeq(S)[i] = x
         /\ \A i, j \in 1 .. Cardinality(S) : SetToSeq(S)[i] = SetToSeq(S)[j] => i = j
         /\ Cardinality(S) \in Nat
  <1> DEFINE n == Cardinality(S)
  <1>1. n \in Nat
    BY FS_CardinalityType
  <1>2. PICK m \in Nat : ExistsBijection(1 .. m, S)
    BY FS_NatBijection
  <1>3. m = n
    BY <1>2, FS_CountingElements
  <1>4. \E f \in [1 .. n -> S] : IsInjective(f)
    BY <1>2, <1>3 DEF ExistsBijection, Bijection, Injection
  <1>5. SetToSeq(S) \in [1 .. n -> S] /\ IsInjective(SetToSeq(S))
    BY <1>4 DEF SetToSeq
  <1>6. SetToSeq(S) \in Injection(1 .. n, S)
    BY <1>5 DEF Injection
  <1>7. Cardinality(1 .. n) = n
    BY <1>1, FS_Interval
  <1>8. SetToSeq(S) \in Surjection(1 .. n, S)
    BY <1>6, <1>7, FS_Injection
  <1> QED
    BY <1>1, <1>5, <1>8 DEF Surjection, IsInjective

\* A set of new aliases is appended.
LEMMA Extended ==
  ASSUME NEW q \in Seq(Aliases), \A i, j \in 1 .. Len(q) : q[i] = q[j] => i = j,
         NEW S \in SUBSET Aliases, \A i \in 1 .. Len(q) : q[i] \notin S, NEW e, e = q \o SetToSeq(S)
  PROVE  /\ e \in Seq(Aliases) /\ \A i, j \in 1 .. Len(e) : e[i] = e[j] => i = j
         /\ \A i \in 1 .. Len(e) : e[i] \in S \/ \E j \in 1 .. Len(q) : e[i] = q[j]
         /\ Len(e) = Len(q) + Cardinality(S) /\ Cardinality(S) \in Nat
  <1>1. IsFiniteSet(S)
    BY InventoryAssumption, FS_Subset
  <1> DEFINE n == Cardinality(S)
             t == SetToSeq(S)
  <1>2. n \in Nat /\ t \in [1 .. n -> S] /\ \A i, j \in 1 .. n : t[i] = t[j] => i = j
    BY <1>1, SetListed
  <1> HIDE DEF n, t
  <1>3. t \in Seq(Aliases) /\ Len(t) = n
    BY <1>2
  <1>4. e = q \o t
    BY DEF t
  <1>5. /\ e \in Seq(Aliases) /\ Len(e) = Len(q) + n
        /\ \A i \in 1 .. Len(e) : e[i] = IF i <= Len(q) THEN q[i] ELSE t[i - Len(q)]
    <2>1. \A u \in Seq(Aliases) : q \o u \in Seq(Aliases) /\ Len(q \o u) = Len(q) + Len(u)
      OBVIOUS
    <2>2. \A u \in Seq(Aliases) : \A i \in 1 .. Len(q \o u) : (q \o u)[i] = IF i <= Len(q) THEN q[i] ELSE u[i - Len(q)]
      OBVIOUS
    <2>3. e \in Seq(Aliases) /\ Len(e) = Len(q) + Len(t)
      BY <1>3, <1>4, <2>1
    <2>4. \A i \in 1 .. Len(e) : e[i] = IF i <= Len(q) THEN q[i] ELSE t[i - Len(q)]
      BY <1>3, <1>4, <2>2
    <2> QED
      BY <1>3, <2>3, <2>4
  <1>6. Len(q) \in Nat
    OBVIOUS
  <1>7. ASSUME NEW i \in 1 .. Len(e)
        PROVE  \/ i <= Len(q) /\ i \in 1 .. Len(q) /\ e[i] = q[i]
               \/ i > Len(q) /\ i - Len(q) \in 1 .. n /\ e[i] = t[i - Len(q)] /\ e[i] \in S
    BY <1>2, <1>5, <1>6
  <1>8. \A i, j \in 1 .. Len(e) : e[i] = e[j] => i = j
    <2> SUFFICES ASSUME NEW i \in 1 .. Len(e), NEW j \in 1 .. Len(e), e[i] = e[j] PROVE i = j
      OBVIOUS
    <2>1. i \in Int /\ j \in Int
      BY <1>2, <1>5, <1>6
    <2>2. CASE i <= Len(q) /\ j <= Len(q)
      BY <1>7, <2>1, <2>2
    <2>3. CASE i > Len(q) /\ j > Len(q)
      <3>1. i - Len(q) = j - Len(q)
        BY <1>2, <1>7, <2>1, <2>3
      <3> QED
        BY <1>6, <2>1, <3>1
    <2>4. CASE i <= Len(q) /\ j > Len(q)
      BY <1>7, <2>1, <2>4
    <2>5. CASE i > Len(q) /\ j <= Len(q)
      BY <1>7, <2>1, <2>5
    <2> QED
      BY <1>6, <2>1, <2>2, <2>3, <2>4, <2>5
  <1> QED
    BY <1>2, <1>5, <1>7, <1>8 DEF n

\* An alias is taken out.
LEMMA Removed ==
  ASSUME NEW q \in Seq(Aliases), \A i, j \in 1 .. Len(q) : q[i] = q[j] => i = j,
         NEW k \in 1 .. Len(q), NEW e, e = RemoveAt(q, k)
  PROVE  /\ e \in Seq(Aliases) /\ \A i, j \in 1 .. Len(e) : e[i] = e[j] => i = j
         /\ \A i \in 1 .. Len(e) : e[i] # q[k] /\ \E j \in 1 .. Len(q) : e[i] = q[j]
  <1>1. k \in Nat /\ Len(q) \in Nat /\ k >= 1 /\ k <= Len(q)
    OBVIOUS
  <1>2. PICK l : l = SubSeq(q, 1, k - 1)
    OBVIOUS
  <1>3. PICK r : r = SubSeq(q, k + 1, Len(q))
    OBVIOUS
  <1>4. l \in Seq(Aliases) /\ Len(l) = k - 1 /\ \A i \in 1 .. k - 1 : l[i] = q[i]
    BY <1>1, <1>2
  <1>5. r \in Seq(Aliases) /\ Len(r) = Len(q) - k /\ \A i \in 1 .. Len(q) - k : r[i] = q[k + i]
    BY <1>1, <1>3
  <1>6. e = l \o r
    BY <1>2, <1>3 DEF RemoveAt
  <1>7. e \in Seq(Aliases) /\ Len(e) = Len(q) - 1
    BY <1>1, <1>4, <1>5, <1>6
  <1>8. ASSUME NEW i \in 1 .. Len(e)
        PROVE  \/ i < k /\ i \in 1 .. Len(q) /\ e[i] = q[i]
               \/ i >= k /\ i + 1 \in 1 .. Len(q) /\ e[i] = q[i + 1]
    <2>1. i \in Nat /\ i >= 1 /\ i <= Len(q) - 1
      BY <1>1, <1>7
    <2>2. CASE i < k
      <3>1. i \in 1 .. k - 1 /\ i \in 1 .. Len(q)
        BY <1>1, <2>1, <2>2
      <3>2. e[i] = l[i]
        BY <1>4, <1>5, <1>6, <3>1
      <3> QED
        BY <1>4, <2>2, <3>1, <3>2
    <2>3. CASE i >= k
      <3>1. i - (k - 1) \in 1 .. Len(q) - k /\ i + 1 \in 1 .. Len(q)
        BY <1>1, <2>1, <2>3
      <3>2. e[i] = r[i - (k - 1)]
        BY <1>1, <1>4, <1>5, <1>6, <1>7, <2>1, <2>3
      <3>3. k + (i - (k - 1)) = i + 1
        BY <1>1, <2>1
      <3> QED
        BY <1>5, <2>3, <3>1, <3>2, <3>3
    <2> QED
      BY <1>1, <2>1, <2>2, <2>3
  <1>9. \A i, j \in 1 .. Len(e) : e[i] = e[j] => i = j
    <2> SUFFICES ASSUME NEW i \in 1 .. Len(e), NEW j \in 1 .. Len(e), e[i] = e[j] PROVE i = j
      OBVIOUS
    <2>1. i \in Nat /\ j \in Nat
      BY <1>1, <1>7
    <2> QED
      BY <1>1, <1>8, <2>1
  <1>10. \A i \in 1 .. Len(e) : e[i] # q[k] /\ \E j \in 1 .. Len(q) : e[i] = q[j]
    <2> SUFFICES ASSUME NEW i \in 1 .. Len(e) PROVE e[i] # q[k] /\ \E j \in 1 .. Len(q) : e[i] = q[j]
      OBVIOUS
    <2>1. i \in Nat
      BY <1>1, <1>7
    <2> QED
      BY <1>1, <1>8, <2>1
  <1> QED
    BY <1>7, <1>9, <1>10

-----------------------------------------------------------------------------
(* Runs that go on, and runs that end.                                      *)
RunPc == {"post", "read", "apply", "write", "files", "list"}
Replaced(s, q) == runs' = [t \in Refs |-> IF t = s THEN q ELSE runs[t]]
Onward(s, pc, x, y) == runs' = [runs EXCEPT ![s].pc = pc, ![s].sel = x, ![s].text = y]
SameRun(q, r) == q.kind = r.kind /\ q.ws = r.ws /\ q.from = r.from /\ q.to = r.to /\ q.hosts = r.hosts

LEMMA RunsStay ==
  ASSUME RunTypes, \A w \in Spaces : inventory[w] # NoFile => inventory'[w] # NoFile,
         NEW after, after = runs', after = [s \in Refs |-> after[s]],
         \A s \in Refs : \/ after[s] = runs[s]
                         \/ after[s] = NoRun
                         \/ (after[s] \in AnyRun /\ after[s].kind \in KindsAt(s) /\ Sound(after[s])')
  PROVE  RunTypes'
  <1>1. ASSUME NEW s \in Refs, after[s] # NoRun
        PROVE  after[s] \in AnyRun /\ after[s].kind \in KindsAt(s) /\ Sound(after[s])'
    <2>1. CASE after[s] = runs[s]
      <3>1. runs[s] \in AnyRun /\ runs[s].kind \in KindsAt(s) /\ Sound(runs[s]) /\ runs[s].ws \in Spaces
        BY <1>1, <2>1, RunAt, RunFields
      <3>2. PICK r : r = runs[s]
        OBVIOUS
      <3>3. Sound(r)'
        BY <3>1, <3>2 DEF Sound
      <3> QED
        BY <2>1, <3>1, <3>2, <3>3
    <2> QED
      BY <1>1, <2>1
  <1>2. after \in [Refs -> AnyRun \cup {NoRun}]
    BY <1>1
  <1>3. \A s \in Refs : after[s] # NoRun => after[s].kind \in KindsAt(s) /\ Sound(after[s])'
    BY <1>1
  <1> QED
    BY <1>2, <1>3 DEF RunTypes

LEMMA OneReplaced ==
  ASSUME RunTypes, \A w \in Spaces : inventory[w] # NoFile => inventory'[w] # NoFile,
         NEW s \in Refs, NEW q, Replaced(s, q),
         q = NoRun \/ (q \in AnyRun /\ q.kind \in KindsAt(s) /\ Sound(q)')
  PROVE  RunTypes'
  <1>1. PICK after : after = runs'
    OBVIOUS
  <1>2. after = [t \in Refs |-> IF t = s THEN q ELSE runs[t]]
    BY <1>1 DEF Replaced
  <1>3. after = [t \in Refs |-> after[t]] /\ after[s] = q /\ \A t \in Refs : t # s => after[t] = runs[t]
    BY <1>2
  <1>4. q # NoRun => after[s] \in AnyRun /\ after[s].kind \in KindsAt(s) /\ Sound(after[s])'
    BY <1>3 DEF Sound
  <1>5. \A t \in Refs : \/ after[t] = runs[t]
                       \/ after[t] = NoRun
                       \/ (after[t] \in AnyRun /\ after[t].kind \in KindsAt(t) /\ Sound(after[t])')
    BY <1>3, <1>4
  <1> QED
    BY <1>1, <1>3, <1>5, RunsStay

LEMMA GoingOn ==
  ASSUME RunTypes, NEW s \in Refs, runs[s] # NoRun, NEW pc \in RunPc,
         NEW x \in [Aliases -> Entry], NEW y \in [Aliases -> Entry],
         Onward(s, pc, x, y)
  PROVE  \E q \in AnyRun : /\ Replaced(s, q) /\ SameRun(q, runs[s])
                           /\ q.pc = pc /\ q.sel = x /\ q.text = y
  <1>1. runs[s] \in AnyRun /\ runs \in [Refs -> AnyRun \cup {NoRun}]
    BY RunAt DEF RunTypes
  <1>2. PICK q : q = [runs[s] EXCEPT !.pc = pc, !.sel = x, !.text = y]
    OBVIOUS
  <1>3. q \in AnyRun /\ SameRun(q, runs[s]) /\ q.pc = pc /\ q.sel = x /\ q.text = y
    <2>1. pc \in {"post", "read", "apply", "write", "files", "list"}
      BY DEF RunPc
    <2>2. PICK r \in AnyRun : r = runs[s]
      BY <1>1
    <2>3. q = [r EXCEPT !.pc = pc, !.sel = x, !.text = y]
      BY <1>2, <2>2
    <2>4. /\ q \in AnyRun /\ q.kind = r.kind /\ q.pc = pc /\ q.ws = r.ws /\ q.from = r.from /\ q.to = r.to
          /\ q.sel = x /\ q.hosts = r.hosts /\ q.text = y
      BY <2>1, <2>3 DEF AnyRun
    <2> QED
      BY <2>2, <2>4 DEF SameRun
  <1>4. runs' = [runs EXCEPT ![s] = q]
    BY <1>1, <1>2 DEF Onward
  <1>5. Replaced(s, q)
    BY <1>1, <1>4 DEF Replaced
  <1> QED
    BY <1>3, <1>5

LEMMA RestOf ==
  ASSUME NEW S, NEW q \in Seq(S)
  PROVE  /\ Rest(q) \in Seq(S)
         /\ \A i \in 1 .. Len(Rest(q)) : i + 1 \in 1 .. Len(q) /\ Rest(q)[i] = q[i + 1]
         /\ \A i \in 2 .. Len(q) : i - 1 \in 1 .. Len(Rest(q)) /\ Rest(q)[i - 1] = q[i]
  <1>1. CASE q = <<>>
    BY <1>1 DEF Rest
  <1>2. CASE q # <<>>
    <2>1. Rest(q) = Tail(q) /\ Tail(q) \in Seq(S) /\ Len(Tail(q)) = Len(q) - 1 /\ Len(q) \in Nat
      BY <1>2 DEF Rest
    <2>2. \A i \in 1 .. Len(q) - 1 : Tail(q)[i] = q[i + 1]
      BY <1>2
    <2>3. \A i \in 1 .. Len(q) - 1 : i + 1 \in 1 .. Len(q)
      BY <2>1
    <2>4. \A i \in 2 .. Len(q) : i - 1 \in 1 .. Len(q) - 1 /\ (i - 1) + 1 = i
      BY <2>1
    <2> QED
      BY <2>1, <2>2, <2>3, <2>4
  <1> QED
    BY <1>1, <1>2

LEMMA Ended ==
  ASSUME SyncTypes, NEW s \in Refs, runs[s] # NoRun, End(s)
  PROVE  /\ Replaced(s, NoRun) /\ QueueTypes'
         /\ renames' = renames \/ renames' = Rest(renames)
         /\ runs[s].kind = "cleanup" => cleanups' = Rest(cleanups) /\ s = "removal"
         /\ runs[s].kind # "cleanup" => cleanups' = cleanups
  <1>1. runs[s] \in AnyRun /\ runs[s].kind \in KindsAt(s) /\ runs \in [Refs -> AnyRun \cup {NoRun}]
    BY RunAt DEF SyncTypes, RunTypes
  <1>2. Replaced(s, NoRun)
    BY <1>1 DEF End, Replaced
  <1>3. /\ renames' = renames \/ renames' = Rest(renames)
        /\ deletes' = deletes \/ deletes' = Rest(deletes)
        /\ runs[s].kind = "cleanup" => cleanups' = Rest(cleanups)
        /\ runs[s].kind # "cleanup" => cleanups' = cleanups
    BY DEF End
  <1>4. renames' \in Seq(Aliases \X Aliases) /\ deletes' \in Seq(Aliases) /\ cleanups' \in Seq(Aliases)
    BY <1>3, RestOf DEF SyncTypes, QueueTypes
  <1>5. runs[s].kind = "cleanup" => s = "removal"
    BY <1>1 DEF KindsAt, Refs
  <1> QED
    BY <1>2, <1>3, <1>4, <1>5 DEF QueueTypes

-----------------------------------------------------------------------------
(* What a request does.                                                     *)
LEMMA EffectIs ==
  ASSUME NEW r \in AnyRun, Effect(r)
  PROVE  \/ /\ r.pc = "write" /\ r.kind # "hostVars" /\ hostVars' = hostVars
            /\ inventory' = [inventory EXCEPT ![r.ws] = r.text]
         \/ /\ r.pc = "write" /\ r.kind = "hostVars" /\ inventory' = inventory
            /\ hostVars' = [hostVars EXCEPT ![r.ws] = @ \cup {r.from}]
         \/ /\ r.pc = "post" /\ hostVars' = [hostVars EXCEPT ![r.ws] = @ \cup {r.from}]
            /\ inventory' = [inventory EXCEPT ![r.ws] = [a \in Aliases |->
                 (IF @[a] = NoEntry THEN {} ELSE @[a]) \cup (IF a = r.from THEN r.sel[a] ELSE {})]]
         \/ /\ r.pc = "files" /\ r.kind = "rename" /\ inventory' = inventory
            /\ hostVars' = [hostVars EXCEPT ![r.ws] = (@ \ {r.from}) \cup {r.to}]
         \/ /\ r.pc = "files" /\ r.kind = "cleanup" /\ inventory' = inventory
            /\ hostVars' = [hostVars EXCEPT ![r.ws] = @ \ {r.from}]
         \/ inventory' = inventory /\ hostVars' = hostVars /\ r.pc # "write"
            /\ ~(r.pc = "files" /\ r.kind \in {"rename", "cleanup"})
  BY DEF Effect, api

\* An inventory that is changed has its entries, and none goes away.
LEMMA InventorySet ==
  ASSUME ApiTypes, NEW w \in Spaces, NEW f \in [Aliases -> SUBSET Roles],
         inventory' = [inventory EXCEPT ![w] = f], NEW h, hostVars' = h, h \in [Spaces -> SUBSET Aliases]
  PROVE  ApiTypes' /\ \A v \in Spaces : inventory[v] # NoFile => inventory'[v] # NoFile
  <1>1. f \in [Aliases -> Entry] /\ f # NoFile
    BY EntryFacts
  <1>2. /\ inventory' \in [Spaces -> [Aliases -> Entry]]
        /\ \A v \in Spaces : inventory'[v] = IF v = w THEN f ELSE inventory[v]
    BY <1>1 DEF ApiTypes
  <1> QED
    BY <1>1, <1>2 DEF ApiTypes

LEMMA PostedEntries ==
  ASSUME ApiTypes, NEW r \in AnyRun, Sound(r), r.pc = "post"
  PROVE  /\ r.from \in Aliases
         /\ [a \in Aliases |-> (IF inventory[r.ws][a] = NoEntry THEN {} ELSE inventory[r.ws][a])
               \cup (IF a = r.from THEN r.sel[a] ELSE {})] \in [Aliases -> SUBSET Roles]
  <1>1. r.from \in Aliases /\ r.sel \in [Aliases -> Entry] /\ r.ws \in Spaces
    BY RunFields DEF Sound
  <1>2. r.sel[r.from] \in SUBSET Roles
    BY <1>1, EntryFacts DEF Sound
  <1>3. \A a \in Aliases : inventory[r.ws][a] # NoEntry => inventory[r.ws][a] \in SUBSET Roles
    BY <1>1, EntryFacts DEF ApiTypes
  <1> QED
    BY <1>1, <1>2, <1>3

LEMMA ApiAfter ==
  ASSUME ApiTypes, NEW r \in AnyRun, Sound(r), UNCHANGED api \/ Effect(r)
  PROVE  ApiTypes' /\ \A w \in Spaces : inventory[w] # NoFile => inventory'[w] # NoFile
  <1>1. /\ r.ws \in Spaces /\ hostVars \in [Spaces -> SUBSET Aliases]
        /\ inventory \in [Spaces -> [Aliases -> Entry]]
    BY RunFields DEF ApiTypes
  <1>2. ASSUME inventory' = inventory, hostVars' \in [Spaces -> SUBSET Aliases]
        PROVE  ApiTypes' /\ \A w \in Spaces : inventory[w] # NoFile => inventory'[w] # NoFile
    BY <1>2 DEF ApiTypes
  <1>3. CASE r.pc = "write" /\ r.kind # "hostVars" /\ hostVars' = hostVars
             /\ inventory' = [inventory EXCEPT ![r.ws] = r.text]
    <2>1. r.text \in [Aliases -> SUBSET Roles]
      BY <1>3 DEF Sound
    <2> QED
      BY <1>1, <1>3, <2>1, InventorySet
  <1>4. CASE inventory' = inventory /\ r.kind = "hostVars"
             /\ hostVars' = [hostVars EXCEPT ![r.ws] = @ \cup {r.from}]
    <2>1. r.from \in Aliases
      BY <1>4 DEF Sound
    <2> QED
      BY <1>1, <1>2, <1>4, <2>1
  <1>5. CASE /\ r.pc = "post" /\ hostVars' = [hostVars EXCEPT ![r.ws] = @ \cup {r.from}]
             /\ inventory' = [inventory EXCEPT ![r.ws] = [a \in Aliases |->
                 (IF @[a] = NoEntry THEN {} ELSE @[a]) \cup (IF a = r.from THEN r.sel[a] ELSE {})]]
    <2>1. PICK f : f = [a \in Aliases |-> (IF inventory[r.ws][a] = NoEntry THEN {} ELSE inventory[r.ws][a])
                          \cup (IF a = r.from THEN r.sel[a] ELSE {})]
      OBVIOUS
    <2>2. r.from \in Aliases /\ f \in [Aliases -> SUBSET Roles]
      BY <1>5, <2>1, PostedEntries
    <2>3. inventory' = [inventory EXCEPT ![r.ws] = f]
      BY <1>1, <1>5, <2>1
    <2>4. hostVars' \in [Spaces -> SUBSET Aliases]
      BY <1>1, <1>5, <2>2
    <2> QED
      BY <1>1, <2>2, <2>3, <2>4, InventorySet
  <1>6. CASE /\ r.kind = "rename" /\ inventory' = inventory
             /\ hostVars' = [hostVars EXCEPT ![r.ws] = (@ \ {r.from}) \cup {r.to}]
    <2>1. r.to \in Aliases
      BY <1>6 DEF Sound
    <2> QED
      BY <1>1, <1>2, <1>6, <2>1
  <1>7. CASE inventory' = inventory /\ hostVars' = [hostVars EXCEPT ![r.ws] = @ \ {r.from}]
    BY <1>1, <1>2, <1>7
  <1>8. CASE inventory' = inventory /\ hostVars' = hostVars
    BY <1>1, <1>2, <1>8
  <1>9. CASE UNCHANGED api
    BY <1>8, <1>9 DEF api
  <1>10. CASE Effect(r)
    BY <1>3, <1>4, <1>5, <1>6, <1>7, <1>8, <1>10, EffectIs
  <1> QED
    BY <1>9, <1>10

-----------------------------------------------------------------------------
(* The steps of the user.                                                   *)
LEMMA KeepsPurges ==
  ASSUME PurgesKept, open' = open, gone' \ excused' \subseteq gone \ excused,
         \A a \in Aliases : Out(a) /\ a # Device /\ <<open, a>> \in gone' \ excused' => Out(a)'
  PROVE  PurgesKept'
  <1> SUFFICES ASSUME NEW p \in gone' \ excused', p[2] # Device PROVE p = <<open, p[2]>> /\ Out(p[2])'
    BY DEF PurgesKept
  <1>1. p \in gone \ excused
    OBVIOUS
  <1>2. p = <<open, p[2]>> /\ Out(p[2])
    BY <1>1 DEF PurgesKept
  <1>3. PICK a : a = p[2]
    OBVIOUS
  <1>4. a \in Aliases /\ Out(a) /\ a # Device /\ <<open, a>> \in gone' \ excused'
    BY <1>2, <1>3 DEF Out
  <1>5. Out(a)'
    BY <1>4
  <1> QED
    BY <1>2, <1>3, <1>5

LEMMA Listed ==
  ASSUME NEW q, \E S : q \in Seq(S), NEW a
  PROVE  a \in ToSet(q) <=> \E i \in 1 .. Len(q) : q[i] = a
  BY DEF ToSet

LEMMA UserTypes ==
  ASSUME SyncTypes, UNCHANGED <<inventory, stored, open, ready, hosts, runs, seen>>, due' = TRUE,
         hostVars' \in [Spaces -> SUBSET Aliases], PageTypes', QueueTypes'
  PROVE  SyncTypes'
  <1>1. ApiTypes' /\ StoredTypes'
    BY DEF SyncTypes, ApiTypes, StoredTypes
  <1>2. RunTypes'
    BY DEF SyncTypes, RunTypes, Sound
  <1> QED
    BY <1>1, <1>2 DEF SyncTypes

LEMMA UserKeeps ==
  ASSUME PurgeInv, UNCHANGED <<inventory, stored, open, ready, hosts, runs, seen, cleanups>>, due' = TRUE,
         hostVars' \in [Spaces -> SUBSET Aliases], PageTypes',
         renames' \in Seq(Aliases \X Aliases), deletes' \in Seq(Aliases),
         gone' \subseteq gone, excused' = excused,
         \A a \in Aliases : OffPage(a) /\ <<open, a>> \in gone' =>
                              OffPage(a)' /\ (a \in hostVars'[open] => a \in hostVars[open])
  PROVE  PurgeInv'
  <1>1. SyncTypes'
    <2>1. QueueTypes'
      BY DEF PurgeInv, SyncTypes, QueueTypes
    <2> QED
      BY <2>1, UserTypes DEF PurgeInv
  <1>2. ASSUME NEW a \in Aliases, Out(a), <<open, a>> \in gone' PROVE Out(a)'
    <2>1. OffPage(a)' /\ (a \in hostVars'[open] => a \in hostVars[open])
      BY <1>2 DEF Out
    <2>2. OffRuns(a)' /\ (InQueue(a)' <=> InQueue(a))
      BY <1>2 DEF Out, OffRuns, InQueue
    <2>3. Waiting(a) => Waiting(a)'
      BY <2>1 DEF Waiting, Cleaning, Again
    <2>4. Over(a) => Over(a)'
      BY <2>1 DEF Over, Forgotten
    <2> QED
      BY <1>2, <2>1, <2>2, <2>3, <2>4 DEF Out
  <1> QED
    BY <1>1, <1>2, KeepsPurges DEF PurgeInv

LEMMA TogglesKeep ==
  ASSUME PurgeInv, NEW b \in Aliases, NEW r \in Roles, Toggle(b, r) \/ ChoosePlan(b, r)
  PROVE  PurgeInv'
  <1>1. /\ UNCHANGED <<inventory, stored, open, ready, hosts, runs, seen, cleanups>> /\ due' = TRUE
        /\ UNCHANGED <<hostVars, renames, deletes, gone, excused, servers, active>>
    BY DEF Toggle, ChoosePlan, Touch, api, queues
  <1>2. \E i \in 1 .. Len(servers) : servers[i] = b
    BY Listed DEF Toggle, ChoosePlan, PurgeInv, SyncTypes, PageTypes
  <1>3. \E S \in SUBSET Roles : selected' = [selected EXCEPT ![b] = S]
    <2>1. selected[b] # NoEntry => selected[b] \in SUBSET Roles
      BY EntryFacts DEF PurgeInv, SyncTypes, PageTypes
    <2>2. CASE Toggle(b, r)
      <3>1. PICK S : S = IF selected[b] = NoEntry \/ r \notin selected[b]
                         THEN (IF selected[b] = NoEntry THEN {} ELSE selected[b]) \cup {r}
                         ELSE (IF selected[b] = NoEntry THEN {} ELSE selected[b]) \ {r}
        OBVIOUS
      <3>2. selected' = [selected EXCEPT ![b] = S]
        BY <2>2, <3>1 DEF Toggle
      <3>3. S \in SUBSET Roles
        BY <2>1, <3>1
      <3> QED
        BY <3>2, <3>3
    <2>3. CASE ChoosePlan(b, r)
      <3>1. PICK S : S = IF selected[b] = NoEntry THEN {r} ELSE selected[b] \cup {r}
        OBVIOUS
      <3>2. selected' = [selected EXCEPT ![b] = S]
        BY <2>3, <3>1 DEF ChoosePlan
      <3>3. S \in SUBSET Roles
        BY <2>1, <3>1
      <3> QED
        BY <3>2, <3>3
    <2> QED
      BY <2>2, <2>3
  <1>4. PageTypes' /\ \A a \in Aliases : a # b => selected'[a] = selected[a]
    BY <1>1, <1>3, EntryFacts DEF PurgeInv, SyncTypes, PageTypes
  <1>5. \A a \in Aliases : OffPage(a) => OffPage(a)'
    BY <1>1, <1>2, <1>4 DEF OffPage, OffList
  <1>6. hostVars' \in [Spaces -> SUBSET Aliases] /\ renames' \in Seq(Aliases \X Aliases) /\ deletes' \in Seq(Aliases)
    BY <1>1 DEF PurgeInv, SyncTypes, ApiTypes, QueueTypes
  <1> QED
    BY <1>1, <1>4, <1>5, <1>6, UserKeeps

LEMMA SelectsKeep ==
  ASSUME PurgeInv, NEW b \in Aliases, SelectServer(b)
  PROVE  PurgeInv'
  <1>1. /\ UNCHANGED <<inventory, stored, open, ready, hosts, runs, seen, cleanups>> /\ due' = TRUE
        /\ UNCHANGED <<hostVars, renames, deletes, gone, excused, servers, selected>> /\ active' = b
    BY DEF SelectServer, api, queues, ghosts
  <1>2. \E i \in 1 .. Len(servers) : servers[i] = b
    BY Listed DEF SelectServer, PurgeInv, SyncTypes, PageTypes
  <1>3. PageTypes'
    BY <1>1 DEF PurgeInv, SyncTypes, PageTypes
  <1>4. \A a \in Aliases : OffPage(a) => OffPage(a)'
    BY <1>1, <1>2 DEF OffPage, OffList
  <1>5. hostVars' \in [Spaces -> SUBSET Aliases] /\ renames' \in Seq(Aliases \X Aliases) /\ deletes' \in Seq(Aliases)
    BY <1>1 DEF PurgeInv, SyncTypes, ApiTypes, QueueTypes
  <1> QED
    BY <1>1, <1>3, <1>4, <1>5, UserKeeps

LEMMA AddsKeep ==
  ASSUME PurgeInv, NEW b \in Aliases, AddServer(b) \/ OrderServer(b)
  PROVE  PurgeInv'
  <1>1. /\ UNCHANGED <<inventory, stored, open, ready, hosts, runs, seen, cleanups>> /\ due' = TRUE
        /\ UNCHANGED <<renames, deletes, excused>> /\ active' = b
        /\ hostVars' = [hostVars EXCEPT ![open] = @ \cup {b}] /\ gone' = gone \ {<<open, b>>}
    BY DEF AddServer, OrderServer, api, queues
  <1>2. /\ servers \in Seq(Aliases) /\ selected \in [Aliases -> Entry]
        /\ \A i, j \in 1 .. Len(servers) : servers[i] = servers[j] => i = j
    BY DEF PurgeInv, SyncTypes, PageTypes
  <1>3. servers' = servers \/ (servers' = Append(servers, b) /\ \A i \in 1 .. Len(servers) : servers[i] # b)
    BY <1>2, Listed DEF AddServer, OrderServer
  <1>4. /\ servers' \in Seq(Aliases) /\ \A i \in 1 .. Len(servers') : servers'[i] = b \/ \E j \in 1 .. Len(servers) : servers'[i] = servers[j]
        /\ \A i, j \in 1 .. Len(servers') : servers'[i] = servers'[j] => i = j
    <2>1. CASE servers' = servers
      BY <1>2, <2>1
    <2>2. CASE servers' = Append(servers, b) /\ \A i \in 1 .. Len(servers) : servers[i] # b
      <3>1. PICK e : e = servers'
        OBVIOUS
      <3>2. /\ e \in Seq(Aliases) /\ Len(e) = Len(servers) + 1 /\ e[Len(servers) + 1] = b
            /\ \A i \in 1 .. Len(servers) : e[i] = servers[i]
        BY <1>2, <2>2, <3>1
      <3>3. \A i \in 1 .. Len(e) : i = Len(servers) + 1 \/ i \in 1 .. Len(servers)
        BY <1>2, <3>2
      <3> QED
        BY <1>2, <2>2, <3>1, <3>2, <3>3
    <2> QED
      BY <1>3, <2>1, <2>2
  <1>5. selected' \in [Aliases -> Entry] /\ \A a \in Aliases : a # b => selected'[a] = selected[a]
    BY <1>2, EntryFacts DEF AddServer, OrderServer
  <1>6. PageTypes'
    BY <1>1, <1>4, <1>5 DEF PageTypes
  <1>7. \A a \in Aliases : OffPage(a) /\ <<open, a>> \in gone' => OffPage(a)' /\ a # b
    BY <1>1, <1>4, <1>5 DEF OffPage, OffList
  <1>8. open \in Spaces /\ hostVars \in [Spaces -> SUBSET Aliases]
    BY DEF PurgeInv, SyncTypes, ApiTypes
  <1>9. /\ hostVars' \in [Spaces -> SUBSET Aliases]
        /\ \A a \in Aliases : a # b => (a \in hostVars'[open] => a \in hostVars[open])
    BY <1>1, <1>8
  <1>10. renames' \in Seq(Aliases \X Aliases) /\ deletes' \in Seq(Aliases)
    BY <1>1 DEF PurgeInv, SyncTypes, QueueTypes
  <1> QED
    BY <1>1, <1>6, <1>7, <1>9, <1>10, UserKeeps

LEMMA RenamesKeep ==
  ASSUME PurgeInv, NEW b \in Aliases, NEW c \in Aliases, RenameServer(b, c)
  PROVE  PurgeInv'
  <1>1. /\ UNCHANGED <<inventory, stored, open, ready, hosts, runs, seen, cleanups>> /\ due' = TRUE
        /\ UNCHANGED <<hostVars, deletes, excused>> /\ gone' = gone \ {<<open, c>>}
        /\ active' \in {active, c} /\ renames' = Append(renames, <<b, c>>)
    BY DEF RenameServer, api
  <1>2. /\ servers \in Seq(Aliases) /\ selected \in [Aliases -> Entry] /\ active \in Aliases \cup {NoAlias}
        /\ \A i, j \in 1 .. Len(servers) : servers[i] = servers[j] => i = j
    BY DEF PurgeInv, SyncTypes, PageTypes
  <1>3. \A i \in 1 .. Len(servers) : servers[i] # c
    BY <1>2, Listed DEF RenameServer
  <1>4. servers' = [i \in 1 .. Len(servers) |-> IF servers[i] = b THEN c ELSE servers[i]]
    BY <1>2 DEF RenameServer
  <1>5. /\ servers' \in Seq(Aliases) /\ Len(servers') = Len(servers)
        /\ \A i \in 1 .. Len(servers) : servers'[i] = IF servers[i] = b THEN c ELSE servers[i]
    BY <1>2, <1>4
  <1>6. \E S : selected' = [selected EXCEPT ![b] = NoEntry, ![c] = S] /\ S \in SUBSET Roles
    <2>1. \A a \in Aliases : selected[a] # NoEntry => selected[a] \in SUBSET Roles
      BY <1>2, EntryFacts
    <2>2. b # c
      BY <1>2, <1>3, Listed DEF RenameServer
    <2>3. PICK R : R = IF selected[b] = NoEntry THEN {} ELSE selected[b]
      OBVIOUS
    <2>4. PICK S : S = IF selected[c] = NoEntry THEN R ELSE selected[c] \cup R
      OBVIOUS
    <2>5. selected' = [selected EXCEPT ![b] = NoEntry, ![c] = IF @ = NoEntry THEN R ELSE @ \cup R]
      BY <2>3 DEF RenameServer
    <2>6. selected' = [selected EXCEPT ![b] = NoEntry, ![c] = S]
      BY <1>2, <2>2, <2>4, <2>5
    <2> QED
      BY <2>1, <2>3, <2>4, <2>6
  <1>7. selected' \in [Aliases -> Entry] /\ \A a \in Aliases : a # c => selected'[a] \in {selected[a], NoEntry}
    BY <1>2, <1>6, EntryFacts
  <1>8. PageTypes'
    BY <1>1, <1>2, <1>3, <1>5, <1>7 DEF PageTypes
  <1>9. renames \in Seq(Aliases \X Aliases)
    BY DEF PurgeInv, SyncTypes, QueueTypes
  <1>10. /\ renames' \in Seq(Aliases \X Aliases)
         /\ \A i \in 1 .. Len(renames') : renames'[i] = <<b, c>> \/ (i \in 1 .. Len(renames) /\ renames'[i] = renames[i])
    <2>1. renames' \in Seq(Aliases \X Aliases) /\ Len(renames') = Len(renames) + 1
      BY <1>1, <1>9
    <2>2. \A i \in 1 .. Len(renames) + 1 : i = Len(renames) + 1 \/ i \in 1 .. Len(renames)
      BY <1>9
    <2>3. renames'[Len(renames) + 1] = <<b, c>> /\ \A i \in 1 .. Len(renames) : renames'[i] = renames[i]
      BY <1>1, <1>9
    <2>4. PICK e : e = renames'
      OBVIOUS
    <2>5. \A i \in 1 .. Len(e) : i = Len(renames) + 1 \/ i \in 1 .. Len(renames)
      BY <2>1, <2>2, <2>4
    <2> QED
      BY <2>1, <2>3, <2>4, <2>5
  <1>11. ASSUME NEW a \in Aliases, OffPage(a), <<open, a>> \in gone' PROVE OffPage(a)'
    <2>1. a # c
      BY <1>1, <1>11
    <2>2. OffList(a)'
      BY <1>1, <1>5, <1>7, <1>11, <2>1 DEF OffPage, OffList
    <2>3. \A i \in 1 .. Len(renames') : renames'[i][2] # a
      BY <1>10, <1>11, <2>1 DEF OffPage
    <2> QED
      BY <1>1, <1>11, <2>2, <2>3 DEF OffPage
  <1>12. hostVars' \in [Spaces -> SUBSET Aliases] /\ deletes' \in Seq(Aliases)
    BY <1>1 DEF PurgeInv, SyncTypes, ApiTypes, QueueTypes
  <1> QED
    BY <1>1, <1>8, <1>10, <1>11, <1>12, UserKeeps

-----------------------------------------------------------------------------
(* Deletes and purges.                                                      *)
LEMMA Dropped ==
  ASSUME SyncTypes, NEW b \in Aliases, b \in ToSet(servers), Drop(b)
  PROVE  /\ PageTypes' /\ due' = TRUE /\ OffList(b)'
         /\ \A a \in Aliases : OffList(a) => OffList(a)'
  <1>1. /\ servers \in Seq(Aliases) /\ selected \in [Aliases -> Entry] /\ active \in Aliases \cup {NoAlias}
        /\ \A i, j \in 1 .. Len(servers) : servers[i] = servers[j] => i = j
    BY DEF SyncTypes, PageTypes
  <1>2. PICK k : k = CHOOSE i \in DOMAIN servers : servers[i] = b
    OBVIOUS
  <1>3. k \in 1 .. Len(servers) /\ servers[k] = b
    <2>1. \E i \in DOMAIN servers : servers[i] = b
      BY DEF ToSet
    <2>2. k \in DOMAIN servers /\ servers[k] = b
      BY <1>2, <2>1
    <2> QED
      BY <1>1, <2>2
  <1>4. servers' = RemoveAt(servers, k)
    BY <1>2 DEF Drop
  <1>5. PICK e : e = servers'
    OBVIOUS
  <1>6. /\ e \in Seq(Aliases) /\ \A i, j \in 1 .. Len(e) : e[i] = e[j] => i = j
        /\ \A i \in 1 .. Len(e) : e[i] # b /\ \E j \in 1 .. Len(servers) : e[i] = servers[j]
    BY <1>1, <1>3, <1>4, <1>5, Removed
  <1>7. /\ active' = (IF active # b THEN active ELSE IF e = <<>> THEN NoAlias ELSE Head(e))
        /\ selected' = [selected EXCEPT ![b] = NoEntry] /\ due' = TRUE
    BY <1>4, <1>5 DEF Drop, Touch
  <1>8. e # <<>> => Head(e) = e[1] /\ 1 \in 1 .. Len(e)
    BY <1>6
  <1>9. selected' \in [Aliases -> Entry] /\ selected'[b] = NoEntry /\ \A a \in Aliases : a # b => selected'[a] = selected[a]
    BY <1>1, <1>7, EntryFacts
  <1>10. active' \in Aliases \cup {NoAlias} /\ (active' = active \/ active' = NoAlias \/ \E i \in 1 .. Len(e) : active' = e[i])
         /\ active' # b
    <2>1. CASE active # b
      BY <1>1, <1>7, <2>1
    <2>2. CASE active = b /\ e = <<>>
      BY <1>7, <2>2, InventoryAssumption
    <2>3. CASE active = b /\ e # <<>>
      <3>1. active' = e[1]
        BY <1>7, <1>8, <2>3
      <3>2. e[1] \in Aliases
        BY <1>6, <1>8, <2>3
      <3> QED
        BY <1>6, <1>8, <2>3, <3>1, <3>2
    <2> QED
      BY <2>1, <2>2, <2>3
  <1>11. PageTypes'
    BY <1>5, <1>6, <1>9, <1>10 DEF PageTypes
  <1>12. OffList(b)'
    BY <1>5, <1>6, <1>9, <1>10 DEF OffList
  <1>13. ASSUME NEW a \in Aliases, OffList(a), a # b PROVE OffList(a)'
    <2>1. \A i \in 1 .. Len(e) : e[i] # a
      BY <1>6, <1>13 DEF OffList
    <2>2. active' # a
      BY <1>10, <1>13, <2>1, InventoryAssumption DEF OffList
    <2> QED
      BY <1>5, <1>9, <1>13, <2>1, <2>2 DEF OffList
  <1> QED
    BY <1>7, <1>11, <1>12, <1>13

LEMMA DeletesKeep ==
  ASSUME PurgeInv, NEW b \in Aliases, DeleteServer(b)
  PROVE  PurgeInv'
  <1>1. /\ UNCHANGED <<inventory, stored, open, ready, hosts, runs, seen, cleanups>>
        /\ UNCHANGED <<hostVars, renames, gone, excused>> /\ deletes' = Append(deletes, b)
        /\ b \in ToSet(servers) /\ Drop(b)
    BY DEF DeleteServer, api, ghosts
  <1>2. PageTypes' /\ due' = TRUE /\ \A a \in Aliases : OffList(a) => OffList(a)'
    BY <1>1, Dropped DEF PurgeInv
  <1>3. \A a \in Aliases : OffPage(a) => OffPage(a)'
    BY <1>1, <1>2 DEF OffPage
  <1>4. hostVars' \in [Spaces -> SUBSET Aliases] /\ renames' \in Seq(Aliases \X Aliases) /\ deletes' \in Seq(Aliases)
    BY <1>1 DEF PurgeInv, SyncTypes, ApiTypes, QueueTypes
  <1> QED
    BY <1>1, <1>2, <1>3, <1>4, UserKeeps

LEMMA PurgesKeep ==
  ASSUME PurgeInv, NEW b \in Aliases, PurgeServer(b)
  PROVE  PurgeInv'
  <1>1. /\ UNCHANGED <<inventory, stored, open, ready, hosts, runs, seen, hostVars, renames, deletes>>
        /\ cleanups' = Append(cleanups, b) /\ b \in ToSet(servers) /\ Drop(b)
        /\ ready = TRUE /\ due # TRUE /\ gone' = gone \cup {<<open, b>>}
    <2>1. ready
      BY DEF PurgeServer
    <2>2. ~due
      BY DEF PurgeServer, May
    <2>3. ready = TRUE /\ due # TRUE
      BY <2>1, <2>2 DEF PurgeInv, SyncTypes
    <2> QED
      BY <2>3 DEF PurgeServer, api
  <1>2. PageTypes' /\ due' = TRUE /\ OffList(b)' /\ \A a \in Aliases : OffList(a) => OffList(a)'
    BY <1>1, Dropped DEF PurgeInv
  <1>3. cleanups \in Seq(Aliases)
    BY DEF PurgeInv, SyncTypes, QueueTypes
  <1>4. PICK c : c = cleanups'
    OBVIOUS
  <1>5. /\ c \in Seq(Aliases) /\ Len(c) = Len(cleanups) + 1 /\ c[Len(cleanups) + 1] = b /\ c # <<>>
        /\ Len(cleanups) \in Nat /\ \A i \in 1 .. Len(cleanups) : c[i] = cleanups[i]
    BY <1>1, <1>3, <1>4
  <1>6. \A i \in 1 .. Len(c) : i = Len(cleanups) + 1 \/ i \in 1 .. Len(cleanups)
    BY <1>5
  <1>7. \A i \in 1 .. Len(cleanups) : i \in 1 .. Len(c)
    BY <1>5
  <1>8. SyncTypes'
    <2>1. QueueTypes' /\ hostVars' \in [Spaces -> SUBSET Aliases]
      BY <1>1, <1>4, <1>5 DEF PurgeInv, SyncTypes, ApiTypes, QueueTypes
    <2> QED
      BY <1>1, <1>2, <2>1, UserTypes DEF PurgeInv
  <1>9. ASSUME NEW a \in Aliases, a # b, Out(a) PROVE Out(a)'
    <2>1. OffPage(a)'
      BY <1>1, <1>2, <1>9 DEF Out, OffPage
    <2>2. cleanups # <<>> => c[1] = cleanups[1]
      BY <1>3, <1>5
    <2>3. OffRuns(a)'
      BY <1>1, <1>4, <1>5, <1>9, <2>2 DEF Out, OffRuns
    <2>4. InQueue(a)' <=> InQueue(a)
      BY <1>4, <1>5, <1>6, <1>7, <1>9 DEF InQueue
    <2>5. Again(a) => Again(a)'
      <3>1. \A i \in 2 .. Len(cleanups) : i \in 1 .. Len(cleanups) /\ i \in 2 .. Len(c)
        BY <1>5
      <3> QED
        BY <1>4, <1>5, <3>1 DEF Again
    <2>6. Waiting(a) => Waiting(a)'
      BY <1>1, <2>5 DEF Waiting, Cleaning
    <2>7. Over(a) => Over(a)'
      BY <1>1 DEF Over, Forgotten
    <2> QED
      BY <1>9, <2>1, <2>3, <2>4, <2>6, <2>7 DEF Out
  <1>10. ASSUME <<open, b>> \notin excused' PROVE Out(b)'
    <2>1. ~Unlisted(b) /\ ~Beside /\ \A i \in DOMAIN renames : renames[i][2] # b
      BY <1>10 DEF PurgeServer
    <2>2. seen.ws = open
      BY <1>1 DEF PurgeInv, SyncTypes
    <2>3. DOMAIN renames = 1 .. Len(renames)
      BY DEF PurgeInv, SyncTypes, QueueTypes
    <2>4. OffPage(b)'
      BY <1>1, <1>2, <2>1, <2>2, <2>3 DEF OffPage
    <2>5. \A s \in Refs : runs[s] = NoRun \/ (s = "removal" /\ runs[s].ws = open /\ ~Lost(runs[s]))
      BY <2>1 DEF Beside
    <2>6. runs["auto"] = NoRun /\ runs["vars"] = NoRun
      BY <2>5 DEF Refs
    <2>7. runs["auto"].kind = "idle" /\ runs["vars"].kind = "idle"
      BY <2>6, NoRunIs
    <2>8. ASSUME runs["removal"].kind = "cleanup"
          PROVE  cleanups # <<>> /\ runs["removal"].from = cleanups[1]
      <3>1. runs["removal"] # NoRun
        BY <2>8, NoRunIs
      <3>2. ~Lost(runs["removal"])
        BY <2>5, <3>1 DEF Refs
      <3>3. cleanups # <<>> /\ Head(cleanups) = runs["removal"].from
        BY <2>8, <3>2 DEF Lost
      <3> QED
        BY <1>3, <3>3
    <2>9. cleanups # <<>> => c[1] = cleanups[1] /\ Len(cleanups) >= 1
      BY <1>3, <1>5
    <2>10. OffRuns(b)'
      BY <1>1, <1>4, <1>5, <2>5, <2>7, <2>8, <2>9 DEF OffRuns
    <2>11. InQueue(b)'
      BY <1>4, <1>5 DEF InQueue
    <2>12. ASSUME runs["removal"].kind = "cleanup" PROVE Again(b)'
      <3>1. Len(cleanups) + 1 \in 2 .. Len(c)
        BY <1>5, <2>8, <2>9, <2>12
      <3> QED
        BY <1>4, <1>5, <3>1 DEF Again
    <2>13. b \in hostVars[open] => b \in hosts
      BY <2>1 DEF Unlisted
    <2>14. Waiting(b)'
      BY <1>1, <2>7, <2>12, <2>13 DEF Waiting
    <2> QED
      BY <2>4, <2>10, <2>11, <2>14 DEF Out
  <1>11. PurgesKept'
    <2> SUFFICES ASSUME NEW p \in gone' \ excused', p[2] # Device PROVE p = <<open, p[2]>> /\ Out(p[2])'
      BY <1>1 DEF PurgesKept
    <2>1. CASE p = <<open, b>>
      BY <1>10, <2>1
    <2>2. CASE p # <<open, b>>
      <3>1. p \in gone \ excused
        BY <1>1, <2>2 DEF PurgeServer
      <3>2. p = <<open, p[2]>> /\ Out(p[2])
        BY <3>1 DEF PurgeInv, PurgesKept
      <3>3. PICK a : a = p[2]
        OBVIOUS
      <3>4. a \in Aliases /\ a # b /\ Out(a)
        BY <2>2, <3>2, <3>3 DEF Out
      <3> QED
        BY <1>9, <3>2, <3>3, <3>4
    <2> QED
      BY <2>1, <2>2
  <1> QED
    BY <1>8, <1>11 DEF PurgeInv

LEMMA LeavesKeep ==
  ASSUME PurgeInv, Reload \/ \E w \in Spaces : SwitchWorkspace(w)
  PROVE  PurgeInv'
  <1>1. gone' \ excused' = {} /\ due' = TRUE /\ UNCHANGED <<inventory, hostVars, stored>>
    BY DEF Reload, SwitchWorkspace, api
  <1>2. PurgesKept'
    BY <1>1 DEF PurgesKept
  <1>3. ApiTypes' /\ StoredTypes'
    BY <1>1 DEF PurgeInv, SyncTypes, ApiTypes, StoredTypes
  <1>4. open' \in Spaces /\ hosts' \in SUBSET Aliases /\ ready' \in BOOLEAN
    BY DEF Reload, SwitchWorkspace, PurgeInv, SyncTypes, ApiTypes
  <1>5. PageTypes' /\ QueueTypes' /\ RunTypes'
    <2>1. CASE Reload
      <3>1. servers' = <<>> /\ active' = NoAlias /\ selected' = stored[open].sel
        BY <2>1 DEF Reload
      <3>2. stored[open].sel \in [Aliases -> Entry]
        BY DEF PurgeInv, SyncTypes, StoredTypes
      <3>3. PageTypes'
        BY <3>1, <3>2 DEF PageTypes
      <3>4. QueueTypes'
        BY <2>1 DEF Reload, QueueTypes
      <3>5. runs' = [s \in Refs |-> NoRun]
        BY <2>1 DEF Reload
      <3> QED
        BY <3>3, <3>4, <3>5 DEF RunTypes
    <2>2. CASE \E w \in Spaces : SwitchWorkspace(w)
      <3>1. UNCHANGED <<servers, active, selected, renames, deletes, cleanups, runs>>
        BY <2>2 DEF SwitchWorkspace, page, queues
      <3> QED
        BY <1>1, <3>1 DEF PurgeInv, SyncTypes, PageTypes, QueueTypes, RunTypes, Sound
    <2> QED
      BY <2>1, <2>2
  <1>6. "ws" \in DOMAIN seen'
    <2>1. seen' = NothingSeen \/ seen' = seen
      BY DEF Reload, SwitchWorkspace
    <2> QED
      BY <2>1 DEF NothingSeen, PurgeInv, SyncTypes
  <1> QED
    BY <1>1, <1>2, <1>3, <1>4, <1>5, <1>6 DEF PurgeInv, SyncTypes

-----------------------------------------------------------------------------
(* A step of a run, on an alias that is out.                                *)
LEMMA StepTypes ==
  ASSUME SyncTypes, NEW s \in Refs, NEW q, Replaced(s, q),
         q = NoRun \/ (q \in AnyRun /\ q.kind \in KindsAt(s) /\ Sound(q)'),
         ApiTypes', \A w \in Spaces : inventory[w] # NoFile => inventory'[w] # NoFile,
         PageTypes', QueueTypes', UNCHANGED <<stored, open>>, seen'.ws = seen.ws, DOMAIN seen' = DOMAIN seen,
         hosts' \in SUBSET Aliases, ready' \in BOOLEAN, due' = due \/ due' = TRUE
  PROVE  SyncTypes'
  <1>1. RunTypes'
    BY OneReplaced DEF SyncTypes
  <1>2. StoredTypes'
    BY DEF SyncTypes, StoredTypes
  <1> QED
    BY <1>1, <1>2 DEF SyncTypes

LEMMA SoundOn ==
  ASSUME NEW r \in AnyRun, NEW q \in AnyRun, Sound(r), SameRun(q, r), q.pc \in {"files", "list"}, q.text = NoFile
  PROVE  Sound(q)'
  BY DEF Sound, SameRun

LEMMA EffectOn ==
  ASSUME SyncTypes, NEW s \in Refs, runs[s] # NoRun, NEW a \in Aliases, OffRuns(a), open' = open,
         UNCHANGED api \/ Effect(runs[s])
  PROVE  /\ a \in hostVars'[open] => a \in hostVars[open]
         /\ Over(a) => Nothing(inventory'[open][a])
         /\ Waiting(a) => ready = TRUE \/ inventory'[open] = NoFile
         /\ runs[s].kind = "hostVars" => inventory' = inventory
  <1>1. PICK r : r = runs[s]
    OBVIOUS
  <1>2. /\ r \in AnyRun /\ r.kind \in KindsAt(s) /\ Sound(r) /\ r.ws = open /\ open \in Spaces
        /\ hostVars \in [Spaces -> SUBSET Aliases] /\ inventory \in [Spaces -> [Aliases -> Entry]]
    BY <1>1, RunAt DEF SyncTypes, ApiTypes, OffRuns
  <1>3. r.kind \in {"generate", "hostVars"} => r.from # a
    BY <1>1, <1>2 DEF KindsAt, Refs, OffRuns
  <1>4. r.kind = "rename" => r.to # a
    BY <1>1, <1>2 DEF KindsAt, Refs, OffRuns
  <1>5. Over(a) => Nothing(inventory[open][a]) /\ Nothing(r.text[a])
    BY <1>1, <1>2 DEF Over, Forgotten
  <1>6. Waiting(a) => (ready = TRUE \/ inventory[open] = NoFile) /\ r.kind # "generate"
    BY <1>1, <1>2 DEF Waiting, KindsAt, Refs
  <1>7. CASE r.pc = "write" /\ r.kind # "hostVars" /\ hostVars' = hostVars
             /\ inventory' = [inventory EXCEPT ![r.ws] = r.text]
    <2>1. inventory'[open] = r.text /\ inventory[open] # NoFile
      BY <1>2, <1>7 DEF Sound
    <2> QED
      BY <1>1, <1>5, <1>6, <1>7, <2>1
  <1>8. CASE r.kind = "hostVars" /\ inventory' = inventory
             /\ hostVars' = [hostVars EXCEPT ![r.ws] = @ \cup {r.from}]
    BY <1>1, <1>2, <1>3, <1>5, <1>6, <1>8
  <1>9. CASE /\ r.pc = "post" /\ hostVars' = [hostVars EXCEPT ![r.ws] = @ \cup {r.from}]
             /\ inventory' = [inventory EXCEPT ![r.ws] = [b \in Aliases |->
                 (IF @[b] = NoEntry THEN {} ELSE @[b]) \cup (IF b = r.from THEN r.sel[b] ELSE {})]]
    <2>1. r.kind = "generate"
      BY <1>2, <1>9 DEF Sound
    <2>2. a \in hostVars'[open] => a \in hostVars[open]
      BY <1>2, <1>3, <1>9, <2>1
    <2>3. inventory'[open][a] = (IF inventory[open][a] = NoEntry THEN {} ELSE inventory[open][a]) \cup {}
      BY <1>2, <1>3, <1>9, <2>1
    <2>4. Nothing(inventory[open][a]) => inventory'[open][a] = {}
      BY <2>3 DEF Nothing
    <2> QED
      BY <1>1, <1>5, <1>6, <2>1, <2>2, <2>4 DEF Nothing
  <1>10. CASE /\ r.kind = "rename" /\ inventory' = inventory
              /\ hostVars' = [hostVars EXCEPT ![r.ws] = (@ \ {r.from}) \cup {r.to}]
    BY <1>1, <1>2, <1>4, <1>5, <1>6, <1>10
  <1>11. CASE inventory' = inventory /\ hostVars' = [hostVars EXCEPT ![r.ws] = @ \ {r.from}]
    BY <1>1, <1>2, <1>5, <1>6, <1>11
  <1>12. CASE inventory' = inventory /\ hostVars' = hostVars
    BY <1>1, <1>5, <1>6, <1>12
  <1>13. CASE UNCHANGED api
    BY <1>12, <1>13 DEF api
  <1>14. CASE Effect(r)
    BY <1>2, <1>7, <1>8, <1>9, <1>10, <1>11, <1>12, <1>14, EffectIs
  <1> QED
    BY <1>1, <1>13, <1>14

LEMMA QueueStep ==
  ASSUME QueueTypes, cleanups # <<>>, cleanups' = Rest(cleanups), NEW a
  PROVE  /\ InQueue(a)' <=> Again(a)
         /\ cleanups[1] # a => (InQueue(a)' <=> InQueue(a))
  <1>1. cleanups \in Seq(Aliases) /\ Len(cleanups) \in Nat /\ Len(cleanups) >= 1
    BY DEF QueueTypes
  <1>2. PICK c : c = cleanups'
    OBVIOUS
  <1>3. /\ \A i \in 1 .. Len(c) : i + 1 \in 1 .. Len(cleanups) /\ c[i] = cleanups[i + 1]
        /\ \A i \in 2 .. Len(cleanups) : i - 1 \in 1 .. Len(c) /\ c[i - 1] = cleanups[i]
    BY <1>1, <1>2, RestOf
  <1>4. \A i \in 1 .. Len(c) : i + 1 \in 2 .. Len(cleanups)
    BY <1>3
  <1>5. InQueue(a)' <=> Again(a)
    BY <1>2, <1>3, <1>4 DEF InQueue, Again
  <1>6. cleanups[1] # a => (InQueue(a) <=> Again(a))
    <2>1. \A i \in 1 .. Len(cleanups) : i = 1 \/ i \in 2 .. Len(cleanups)
      BY <1>1
    <2>2. \A i \in 2 .. Len(cleanups) : i \in 1 .. Len(cleanups)
      BY <1>1
    <2> QED
      BY <2>1, <2>2 DEF InQueue, Again
  <1> QED
    BY <1>5, <1>6

\* The run that is to remove the alias ends only with its queue entry.
LEMMA StepOut ==
  ASSUME SyncTypes, NEW s \in Refs, runs[s] # NoRun, NEW q, Replaced(s, q),
         q = NoRun \/ (q \in AnyRun /\ SameRun(q, runs[s])),
         NEW a \in Aliases, Out(a), OffList(a)', open' = open, seen'.ws = seen.ws,
         renames' = renames \/ renames' = Rest(renames),
         cleanups' = cleanups \/ (q = NoRun /\ s = "removal"),
         InQueue(a)' => Waiting(a)', ~InQueue(a)' => Over(a)'
  PROVE  Out(a)'
  <1>1. OffPage(a) /\ OffRuns(a)
    BY DEF Out
  <1>2. \A i \in 1 .. Len(renames') : renames'[i][2] # a
    <2>1. renames \in Seq(Aliases \X Aliases)
      BY DEF SyncTypes, QueueTypes
    <2>2. CASE renames' = renames
      BY <1>1, <2>2 DEF OffPage
    <2>3. CASE renames' = Rest(renames)
      <3>1. PICK e : e = renames'
        OBVIOUS
      <3>2. \A i \in 1 .. Len(e) : i + 1 \in 1 .. Len(renames) /\ e[i] = renames[i + 1]
        BY <2>1, <2>3, <3>1, RestOf
      <3> QED
        BY <1>1, <3>1, <3>2 DEF OffPage
    <2> QED
      BY <2>2, <2>3
  <1>3. OffPage(a)'
    BY <1>1, <1>2 DEF OffPage
  <1>4. PICK after : after = runs'
    OBVIOUS
  <1>5. after[s] = q /\ \A t \in Refs : t # s => after[t] = runs[t]
    BY <1>4 DEF Replaced
  <1>6. \A t \in Refs : after[t] = runs[t] \/ after[t] = NoRun
                         \/ (SameRun(after[t], runs[t]) /\ runs[t] # NoRun)
    BY <1>5
  <1>7. after["removal"].kind = "cleanup" => cleanups' # <<>> /\ after["removal"].from = cleanups'[1]
    <2>1. NoRun.kind # "cleanup"
      BY NoRunIs
    <2>2. CASE q = NoRun /\ s = "removal"
      BY <1>5, <2>1, <2>2
    <2>3. CASE cleanups' = cleanups
      <3>1. after["removal"].kind = "cleanup" =>
              runs["removal"].kind = "cleanup" /\ after["removal"].from = runs["removal"].from
        BY <1>6, <2>1 DEF SameRun, Refs
      <3> QED
        BY <1>1, <2>3, <3>1 DEF OffRuns
    <2> QED
      BY <2>2, <2>3
  <1>8. OffRuns(a)'
    <2>1. \A t \in Refs : after[t] # NoRun =>
            after[t].kind = runs[t].kind /\ after[t].ws = runs[t].ws /\ after[t].from = runs[t].from
             /\ after[t].to = runs[t].to /\ runs[t] # NoRun
      BY <1>6 DEF SameRun
    <2>2. "auto" \in Refs /\ "vars" \in Refs
      BY DEF Refs
    <2>3. NoRun.kind = "idle"
      BY NoRunIs
    <2>4. \A t \in Refs : after[t] # NoRun => after[t].ws = open
      BY <1>1, <2>1 DEF OffRuns
    <2>5. /\ after["auto"].kind = "rename" => after["auto"].to # a
          /\ after["auto"].kind = "generate" => after["auto"].from # a
          /\ after["vars"].kind = "hostVars" => after["vars"].from # a
      BY <1>1, <2>1, <2>2, <2>3 DEF OffRuns
    <2> QED
      BY <1>4, <1>7, <2>4, <2>5 DEF OffRuns
  <1> QED
    BY <1>3, <1>8 DEF Out

LEMMA WaitingAside ==
  ASSUME SyncTypes, NEW s \in Refs, runs[s] # NoRun, NEW q, Replaced(s, q),
         q = NoRun \/ (q \in AnyRun /\ SameRun(q, runs[s])),
         NEW a \in Aliases, Waiting(a), open' = open,
         s # "removal" \/ runs[s].kind # "cleanup" \/ runs[s].from # a \/ q = NoRun,
         cleanups' = cleanups \/ (q = NoRun /\ s = "removal"),
         a \in hostVars'[open] => a \in hostVars[open], a \in hostVars'[open] => a \in hosts',
         ready' = TRUE \/ inventory'[open] = NoFile, runs[s].kind = "hostVars" => inventory' = inventory
  PROVE  Waiting(a)'
  <1>1. PICK after : after = runs'
    OBVIOUS
  <1>2. after[s] = q /\ \A t \in Refs : t # s => after[t] = runs[t]
    BY <1>1 DEF Replaced
  <1>3. NoRun.kind = "idle" /\ {"auto", "removal", "vars"} = Refs
    BY NoRunIs DEF Refs
  <1>4. after["auto"].kind \in {"idle", "rename"}
    BY <1>2, <1>3 DEF Waiting, SameRun
  <1>5. ASSUME after["removal"].kind = "cleanup", after["removal"].from = a, ~Again(a)'
        PROVE  after["auto"].kind = "idle" /\ Cleaning(a, after["removal"])'
    <2>1. s # "removal"
      BY <1>2, <1>3, <1>5 DEF SameRun
    <2>2. after["removal"] = runs["removal"] /\ ~Again(a)
      BY <1>2, <1>3, <1>5, <2>1 DEF Again
    <2>3. runs["auto"].kind = "idle" /\ Cleaning(a, runs["removal"])
      BY <1>5, <2>2 DEF Waiting
    <2>4. s = "vars" /\ runs["auto"] = NoRun
      BY <1>3, <2>1, <2>3, RunAt DEF SyncTypes
    <2>5. inventory' = inventory
      <3>1. runs["vars"].kind = "hostVars"
        BY <1>3, <2>4, RunAt DEF SyncTypes, KindsAt
      <3> QED
        BY <2>4, <3>1
    <2>6. after["auto"].kind = "idle"
      BY <1>2, <1>3, <2>3, <2>4
    <2> QED
      BY <2>2, <2>3, <2>5, <2>6 DEF Cleaning
  <1> QED
    BY <1>1, <1>4, <1>5 DEF Waiting

LEMMA OverStays ==
  ASSUME SyncTypes, NEW s \in Refs, NEW q, Replaced(s, q), NEW a \in Aliases, Over(a), open' = open,
         q = NoRun \/ Forgotten(a, q),
         a \notin hosts', a \in hostVars'[open] => a \in hostVars[open], Nothing(inventory'[open][a])
  PROVE  Over(a)'
  <1>1. PICK after : after = runs'
    OBVIOUS
  <1>2. after[s] = q /\ \A t \in Refs : t # s => after[t] = runs[t]
    BY <1>1 DEF Replaced
  <1>3. \A t \in Refs : after[t] # NoRun => Forgotten(a, after[t])
    BY <1>2 DEF Over
  <1> QED
    BY <1>1, <1>3 DEF Over, Forgotten

-----------------------------------------------------------------------------
(* The steps of a run at the API.                                           *)

LEMMA EditedIs ==
  ASSUME SyncTypes, NEW r \in AnyRun, Sound(r), r.pc = "read", r.kind # "pull", inventory[r.ws] # NoFile,
         NEW e, e = Edited(r)
  PROVE  /\ e \in [Aliases -> SUBSET Roles]
         /\ r.kind \in {"delete", "cleanup"} => e[r.from] = {}
         /\ \A a \in Aliases :
              (r.kind = "push" => r.sel[a] = NoEntry) /\ (r.kind = "rename" => r.to # a) /\ Nothing(inventory[r.ws][a])
                => Nothing(e[a])
  <1>1. PICK inv : inv = inventory[r.ws]
    OBVIOUS
  <1>2. inv \in [Aliases -> SUBSET Roles]
    <2>1. r.ws \in Spaces
      BY RunFields
    <2> QED
      BY <1>1, <2>1 DEF SyncTypes, ApiTypes
  <1>3. r.kind \in {"push", "rename", "delete", "cleanup"} /\ r.sel \in [Aliases -> Entry]
    BY RunFields DEF Sound
  <1>4. CASE r.kind = "push"
    <2>1. e = [a \in Aliases |-> IF r.sel[a] = NoEntry THEN inv[a] ELSE r.sel[a]]
      BY <1>1, <1>4 DEF Edited, Pushed
    <2>2. \A a \in Aliases : r.sel[a] # NoEntry => r.sel[a] \in SUBSET Roles
      BY <1>3, EntryFacts
    <2> QED
      BY <1>1, <1>2, <1>4, <2>1, <2>2
  <1>5. CASE r.kind = "rename"
    <2>1. r.from \in Aliases /\ r.to \in Aliases
      BY <1>5 DEF Sound
    <2>2. e = [inv EXCEPT ![r.to] = @ \cup inv[r.from], ![r.from] = {}]
      BY <1>1, <1>5 DEF Edited, Renamed
    <2>3. e \in [Aliases -> SUBSET Roles]
      BY <1>2, <2>1, <2>2
    <2>4. \A a \in Aliases : r.to # a => e[a] = {} \/ e[a] = inv[a]
      BY <1>2, <2>1, <2>2
    <2> QED
      BY <1>1, <1>5, <2>3, <2>4 DEF Nothing
  <1>6. CASE r.kind \in {"delete", "cleanup"}
    <2>1. r.from \in Aliases
      BY <1>6 DEF Sound
    <2>2. e = [inv EXCEPT ![r.from] = {}]
      BY <1>1, <1>6 DEF Edited, Without
    <2>3. e \in [Aliases -> SUBSET Roles] /\ e[r.from] = {} /\ \A a \in Aliases : e[a] = {} \/ e[a] = inv[a]
      BY <1>2, <2>1, <2>2
    <2> QED
      BY <1>1, <1>6, <2>3 DEF Nothing
  <1> QED
    BY <1>3, <1>4, <1>5, <1>6

LEMMA ReadIs ==
  ASSUME SyncTypes, NEW s \in Refs, ReadInventory(s)
  PROVE  /\ runs[s] # NoRun /\ runs[s].pc = "read" /\ runs[s].kind # "pull" /\ inventory[runs[s].ws] # NoFile
         /\ UNCHANGED <<api, stored, open, ready, hosts, page, seen, gone, excused, due>>
         /\ \/ \E q \in AnyRun : /\ Replaced(s, q) /\ SameRun(q, runs[s]) /\ UNCHANGED queues /\ q.sel = NoFile
                                 /\ \/ q.pc = "write" /\ q.text = Edited(runs[s])
                                    \/ /\ q.pc = AfterWrite(runs[s].kind) /\ q.text = NoFile
                                       /\ Edited(runs[s]) = inventory[runs[s].ws]
            \/ End(s) /\ runs[s].kind = "push"
  <1>1. /\ runs[s] # NoRun /\ runs[s].pc = "read" /\ runs[s].kind # "pull" /\ inventory[runs[s].ws] # NoFile
        /\ UNCHANGED <<api, stored, open, ready, hosts, page, seen, gone, excused>>
    BY DEF ReadInventory, Possible, ghosts
  <1>2. PICK r : r = runs[s]
    OBVIOUS
  <1>3. r \in AnyRun /\ Sound(r) /\ RunTypes
    BY <1>1, <1>2, RunAt DEF SyncTypes
  <1>4. PICK e : e = Edited(r)
    OBVIOUS
  <1>5. e \in [Aliases -> Entry] /\ NoFile \in [Aliases -> Entry]
    BY <1>1, <1>2, <1>3, <1>4, EditedIs, EntryFacts
  <1>6. PICK wr \in RunPc, af \in RunPc : wr = "write" /\ af = AfterWrite(r.kind)
    BY DEF RunPc, AfterWrite
  <1>7. ASSUME runs' = [runs EXCEPT ![s].pc = "write", ![s].sel = NoFile, ![s].text = e]
        PROVE  \E q \in AnyRun : Replaced(s, q) /\ SameRun(q, r) /\ q.sel = NoFile /\ q.pc = "write" /\ q.text = e
    <2>1. Onward(s, wr, NoFile, e)
      BY <1>6, <1>7 DEF Onward
    <2>2. \E q \in AnyRun : Replaced(s, q) /\ SameRun(q, runs[s]) /\ q.pc = wr /\ q.sel = NoFile /\ q.text = e
      BY <1>1, <1>3, <1>5, <2>1, GoingOn
    <2> QED
      BY <1>2, <1>6, <2>2
  <1>8. ASSUME RunGoesOn(s, AfterWrite(r.kind))
        PROVE  \E q \in AnyRun : Replaced(s, q) /\ SameRun(q, r) /\ q.sel = NoFile /\ q.pc = AfterWrite(r.kind) /\ q.text = NoFile
    <2>1. Onward(s, af, NoFile, NoFile)
      BY <1>6, <1>8 DEF RunGoesOn, Onward
    <2>2. \E q \in AnyRun : Replaced(s, q) /\ SameRun(q, runs[s]) /\ q.pc = af /\ q.sel = NoFile /\ q.text = NoFile
      BY <1>1, <1>3, <1>5, <2>1, GoingOn
    <2> QED
      BY <1>2, <1>6, <2>2
  <1>9. \/ e # inventory[r.ws] /\ UNCHANGED <<queues, due>>
           /\ runs' = [runs EXCEPT ![s].pc = "write", ![s].sel = NoFile, ![s].text = e]
        \/ e = inventory[r.ws] /\ RunGoesOn(s, AfterWrite(r.kind)) /\ UNCHANGED <<queues, due>>
        \/ r.kind = "push" /\ End(s) /\ UNCHANGED due
    BY <1>2, <1>4 DEF ReadInventory, RunGoesOn
  <1> QED
    BY <1>1, <1>2, <1>4, <1>7, <1>8, <1>9

LEMMA ReadsKeep ==
  ASSUME PurgeInv, NEW s \in Refs, ReadInventory(s)
  PROVE  PurgeInv'
  <1>1. SyncTypes
    BY DEF PurgeInv
  <1>2. PICK r : r = runs[s]
    OBVIOUS
  <1>3. /\ r # NoRun /\ r.pc = "read" /\ r.kind # "pull" /\ inventory[r.ws] # NoFile
        /\ UNCHANGED <<inventory, hostVars, stored, open, ready, hosts, servers, active, selected, seen, gone, excused, due>>
    BY <1>1, <1>2, ReadIs DEF api, page
  <1>4. r \in AnyRun /\ r.kind \in KindsAt(s) /\ Sound(r) /\ r.ws \in Spaces
    BY <1>1, <1>2, <1>3, RunAt, RunFields DEF SyncTypes
  <1>5. PICK e : e = Edited(r)
    OBVIOUS
  <1>6. /\ e \in [Aliases -> SUBSET Roles]
        /\ r.kind \in {"delete", "cleanup"} => e[r.from] = {}
        /\ \A a \in Aliases :
             (r.kind = "push" => r.sel[a] = NoEntry) /\ (r.kind = "rename" => r.to # a) /\ Nothing(inventory[r.ws][a])
               => Nothing(e[a])
    BY <1>1, <1>3, <1>4, <1>5, EditedIs
  <1>7. PICK q : /\ Replaced(s, q)
                 /\ \/ /\ q \in AnyRun /\ SameRun(q, r) /\ renames' = renames /\ deletes' = deletes /\ cleanups' = cleanups
                       /\ q.sel = NoFile
                       /\ \/ q.pc = "write" /\ q.text = e
                          \/ q.pc = AfterWrite(r.kind) /\ q.text = NoFile /\ e = inventory[r.ws]
                    \/ q = NoRun /\ r.kind = "push" /\ QueueTypes' /\ cleanups' = cleanups
                       /\ (renames' = renames \/ renames' = Rest(renames))
    <2>1. CASE End(s) /\ r.kind = "push"
      BY <1>1, <1>2, <1>3, <2>1, Ended
    <2>2. CASE \E q \in AnyRun : /\ Replaced(s, q) /\ SameRun(q, r) /\ UNCHANGED queues /\ q.sel = NoFile
                                 /\ \/ q.pc = "write" /\ q.text = e
                                    \/ q.pc = AfterWrite(r.kind) /\ q.text = NoFile /\ e = inventory[r.ws]
      BY <2>2 DEF queues
    <2> QED
      BY <1>1, <1>2, <1>5, <2>1, <2>2, ReadIs
  <1>8. q = NoRun \/ (q \in AnyRun /\ SameRun(q, r) /\ q.kind \in KindsAt(s) /\ Sound(q)')
    <2>1. ASSUME q \in AnyRun, SameRun(q, r), q.pc = "write", q.text = e PROVE Sound(q)'
      <3>1. r.kind # "hostVars" /\ inventory'[q.ws] # NoFile
        BY <1>3, <1>4, <2>1 DEF Sound, SameRun
      <3> QED
        BY <1>4, <1>6, <2>1, <3>1 DEF Sound, SameRun
    <2>2. ASSUME q \in AnyRun, SameRun(q, r), q.pc = AfterWrite(r.kind), q.text = NoFile PROVE Sound(q)'
      <3>1. q.pc \in {"files", "list"}
        BY <2>2 DEF AfterWrite
      <3> QED
        BY <1>4, <2>2, <3>1, SoundOn
    <2> QED
      BY <1>4, <1>7, <2>1, <2>2 DEF SameRun
  <1>9. QueueTypes' /\ PageTypes' /\ ApiTypes'
    BY <1>1, <1>3, <1>7 DEF SyncTypes, QueueTypes, PageTypes, ApiTypes
  <1>10. SyncTypes'
    <2>1. hosts' \in SUBSET Aliases /\ ready' \in BOOLEAN
      BY <1>1, <1>3 DEF SyncTypes
    <2> QED
      BY <1>1, <1>3, <1>7, <1>8, <1>9, <2>1, StepTypes
  <1>11. ASSUME NEW a \in Aliases, Out(a) PROVE Out(a)'
    <2>1. OffPage(a) /\ OffRuns(a) /\ r.ws = open
      BY <1>2, <1>3, <1>11 DEF Out, OffRuns
    <2>2. cleanups' = cleanups
      BY <1>7
    <2>3. InQueue(a)' <=> InQueue(a)
      BY <2>2 DEF InQueue
    <2>4. ASSUME ~InQueue(a) PROVE Over(a)'
      <3>1. Over(a) /\ Forgotten(a, r)
        BY <1>2, <1>3, <1>11, <2>4 DEF Out, Over
      <3>2. r.kind = "rename" => r.to # a
        BY <1>2, <1>4, <2>1 DEF OffRuns, KindsAt, Refs
      <3>3. Nothing(e[a]) /\ Nothing(NoFile[a])
        BY <1>6, <2>1, <3>1, <3>2, EntryFacts DEF Over, Forgotten, Nothing
      <3>4. NoFile[a] = NoEntry
        BY EntryFacts
      <3>5. q = NoRun \/ Forgotten(a, q)
        <4>1. q # NoRun => /\ q.hosts = r.hosts /\ q.sel = NoFile /\ (q.text = e \/ q.text = NoFile)
                           /\ q.pc \in {"write", "files", "list"}
          BY <1>7 DEF SameRun, AfterWrite
        <4> QED
          BY <3>1, <3>3, <3>4, <4>1 DEF Forgotten
      <3> QED
        BY <1>1, <1>3, <1>7, <3>1, <3>5, OverStays DEF Over
    <2>5. ASSUME InQueue(a) PROVE Waiting(a)'
      <3>1. Waiting(a)
        BY <1>11, <2>5 DEF Out
      <3>2. CASE s = "removal" /\ r.kind = "cleanup" /\ r.from = a
        <4>1. q \in AnyRun /\ SameRun(q, r) /\ r.kind # "push"
          BY <1>7, <3>2
        <4>2. PICK after : after = runs'
          OBVIOUS
        <4>3. after["removal"] = q /\ after["auto"] = runs["auto"]
          BY <1>7, <3>2, <4>2 DEF Replaced, Refs
        <4>4. ASSUME ~Again(a) PROVE runs["auto"].kind = "idle" /\ Cleaning(a, q)'
          <5>1. runs["auto"].kind = "idle" /\ Cleaning(a, r)
            BY <1>2, <3>1, <3>2, <4>4 DEF Waiting
          <5>2. q.pc = "write" => q.text[a] = {}
            BY <1>6, <1>7, <3>2, <4>1 DEF AfterWrite
          <5>3. q.pc \in {"files", "list"} => q.pc = "files" /\ inventory[open][a] = {}
            BY <1>6, <1>7, <2>1, <3>2, <4>1 DEF AfterWrite
          <5>4. q.pc \in {"write", "files"} /\ q.hosts = r.hosts
            BY <1>7, <3>2, <4>1 DEF AfterWrite, SameRun
          <5> QED
            BY <1>3, <5>1, <5>2, <5>3, <5>4 DEF Cleaning, Nothing
        <4>5. Again(a)' <=> Again(a)
          BY <2>2 DEF Again
        <4> QED
          BY <1>3, <3>1, <4>2, <4>3, <4>4, <4>5 DEF Waiting
      <3>3. CASE ~(s = "removal" /\ r.kind = "cleanup" /\ r.from = a)
        <4>1. a \in hostVars'[open] => a \in hosts'
          BY <1>3, <3>1 DEF Waiting
        <4>2. ready' = TRUE \/ inventory'[open] = NoFile
          BY <1>3, <3>1 DEF Waiting
        <4> QED
          BY <1>1, <1>2, <1>3, <1>7, <1>8, <2>2, <3>1, <3>3, <4>1, <4>2, WaitingAside
      <3> QED
        BY <3>2, <3>3
    <2>6. OffList(a)'
      BY <1>3, <2>1 DEF OffPage, OffList
    <2>7. renames' = renames \/ renames' = Rest(renames)
      BY <1>7
    <2> QED
      BY <1>1, <1>2, <1>3, <1>7, <1>8, <1>11, <2>2, <2>3, <2>4, <2>5, <2>6, <2>7, StepOut
  <1> QED
    BY <1>3, <1>10, <1>11, KeepsPurges DEF PurgeInv

LEMMA RequestIs ==
  ASSUME SyncTypes, NEW s \in Refs, Request(s)
  PROVE  /\ runs[s] # NoRun /\ runs[s].pc \in {"post", "write", "files"}
         /\ IF Wants(runs[s]) THEN Effect(runs[s]) ELSE UNCHANGED api
         /\ UNCHANGED <<stored, open, ready, hosts, page, seen, gone, excused, due, queues>>
         /\ \E q \in AnyRun : /\ Replaced(s, q) /\ SameRun(q, runs[s]) /\ q.sel = NoFile /\ q.text = NoFile
                              /\ q.pc = (IF runs[s].pc = "write" THEN AfterWrite(runs[s].kind) ELSE "list")
  <1>1. /\ runs[s] # NoRun /\ runs[s].pc \in {"post", "write", "files"}
        /\ IF Wants(runs[s]) THEN Effect(runs[s]) ELSE UNCHANGED api
        /\ UNCHANGED <<stored, open, ready, hosts, page, seen, gone, excused, due, queues>>
        /\ RunGoesOn(s, IF runs[s].pc = "write" THEN AfterWrite(runs[s].kind) ELSE "list")
    BY DEF Request, RunGoesOn, ghosts
  <1>2. PICK pc \in RunPc : pc = (IF runs[s].pc = "write" THEN AfterWrite(runs[s].kind) ELSE "list")
    BY DEF RunPc, AfterWrite
  <1>3. Onward(s, pc, NoFile, NoFile)
    BY <1>1, <1>2 DEF RunGoesOn, Onward
  <1>4. NoFile \in [Aliases -> Entry] /\ RunTypes
    BY EntryFacts DEF SyncTypes
  <1>5. \E q \in AnyRun : Replaced(s, q) /\ SameRun(q, runs[s]) /\ q.pc = pc /\ q.sel = NoFile /\ q.text = NoFile
    BY <1>1, <1>3, <1>4, GoingOn
  <1> QED
    BY <1>1, <1>2, <1>5

LEMMA CleaningRequest ==
  ASSUME SyncTypes, NEW r \in AnyRun, NEW q \in AnyRun, NEW a \in Aliases, r.ws = open, open' = open,
         r.kind = "cleanup", r.from = a, Cleaning(a, r), r.pc \in {"write", "files"},
         IF Wants(r) THEN Effect(r) ELSE UNCHANGED api,
         SameRun(q, r), q.pc = (IF r.pc = "write" THEN "files" ELSE "list")
  PROVE  Cleaning(a, q)'
  <1>1. /\ open \in Spaces /\ hostVars \in [Spaces -> SUBSET Aliases]
        /\ inventory \in [Spaces -> [Aliases -> Entry]] /\ q.hosts = r.hosts
    BY DEF SyncTypes, ApiTypes, SameRun
  <1>2. CASE r.pc = "write"
    <2>1. Effect(r)
      BY <1>2 DEF Wants
    <2>2. hostVars' = hostVars /\ inventory' = [inventory EXCEPT ![open] = r.text]
      BY <1>2, <2>1, EffectIs
    <2>3. inventory'[open] = r.text /\ q.pc = "files"
      BY <1>1, <1>2, <2>2
    <2> QED
      BY <1>1, <1>2, <2>2, <2>3 DEF Cleaning
  <1>3. CASE r.pc = "files" /\ Wants(r)
    <2>1. Effect(r)
      BY <1>3
    <2>2. inventory' = inventory /\ hostVars' = [hostVars EXCEPT ![open] = @ \ {a}]
      BY <1>3, <2>1, EffectIs
    <2>3. a \notin hostVars'[open] /\ q.pc = "list"
      BY <1>1, <1>3, <2>2
    <2> QED
      BY <1>1, <1>3, <2>2, <2>3 DEF Cleaning
  <1>4. CASE r.pc = "files" /\ ~Wants(r)
    <2>1. inventory' = inventory /\ hostVars' = hostVars /\ q.pc = "list"
      BY <1>4 DEF api
    <2>2. a \notin r.hosts
      BY <1>4 DEF Wants
    <2> QED
      BY <1>1, <1>4, <2>1, <2>2 DEF Cleaning
  <1> QED
    BY <1>2, <1>3, <1>4

LEMMA RequestsKeep ==
  ASSUME PurgeInv, NEW s \in Refs, Request(s)
  PROVE  PurgeInv'
  <1>1. SyncTypes
    BY DEF PurgeInv
  <1>2. PICK r : r = runs[s]
    OBVIOUS
  <1>3. /\ r # NoRun /\ r.pc \in {"post", "write", "files"} /\ IF Wants(r) THEN Effect(r) ELSE UNCHANGED api
        /\ UNCHANGED <<stored, open, ready, hosts, servers, active, selected, seen, gone, excused, due>>
        /\ UNCHANGED <<renames, deletes, cleanups>>
    BY <1>1, <1>2, RequestIs DEF page, queues
  <1>4. r \in AnyRun /\ r.kind \in KindsAt(s) /\ Sound(r) /\ r.ws \in Spaces
    BY <1>1, <1>2, <1>3, RunAt, RunFields DEF SyncTypes
  <1>5. PICK q \in AnyRun : /\ Replaced(s, q) /\ SameRun(q, r) /\ q.sel = NoFile /\ q.text = NoFile
                            /\ q.pc = (IF r.pc = "write" THEN AfterWrite(r.kind) ELSE "list")
    BY <1>1, <1>2, RequestIs
  <1>6. UNCHANGED api \/ Effect(r)
    BY <1>3
  <1>7. ApiTypes' /\ \A w \in Spaces : inventory[w] # NoFile => inventory'[w] # NoFile
    BY <1>1, <1>4, <1>6, ApiAfter DEF SyncTypes
  <1>8. q.pc \in {"files", "list"} /\ q.kind \in KindsAt(s)
    BY <1>4, <1>5 DEF AfterWrite, SameRun
  <1>9. Sound(q)'
    BY <1>4, <1>5, <1>8, SoundOn
  <1>10. SyncTypes'
    <2>1. QueueTypes' /\ PageTypes' /\ hosts' \in SUBSET Aliases /\ ready' \in BOOLEAN
      BY <1>1, <1>3 DEF SyncTypes, QueueTypes, PageTypes
    <2> QED
      BY <1>1, <1>3, <1>5, <1>7, <1>8, <1>9, <2>1, StepTypes
  <1>11. ASSUME NEW a \in Aliases, Out(a) PROVE Out(a)'
    <2>1. OffPage(a) /\ OffRuns(a) /\ r.ws = open
      BY <1>2, <1>3, <1>11 DEF Out, OffRuns
    <2>2. /\ a \in hostVars'[open] => a \in hostVars[open]
          /\ Over(a) => Nothing(inventory'[open][a])
          /\ Waiting(a) => ready = TRUE \/ inventory'[open] = NoFile
          /\ r.kind = "hostVars" => inventory' = inventory
      BY <1>1, <1>2, <1>3, <1>6, <2>1, EffectOn
    <2>3. InQueue(a)' <=> InQueue(a)
      BY <1>3 DEF InQueue
    <2>4. ASSUME ~InQueue(a) PROVE Over(a)'
      <3>1. Over(a) /\ Forgotten(a, r)
        BY <1>2, <1>3, <1>11, <2>4 DEF Out, Over
      <3>2. Forgotten(a, q)
        BY <1>5, <1>8, <3>1, EntryFacts DEF Forgotten, SameRun, Nothing
      <3> QED
        BY <1>1, <1>3, <1>5, <2>2, <3>1, <3>2, OverStays DEF Over
    <2>5. ASSUME InQueue(a) PROVE Waiting(a)'
      <3>1. Waiting(a)
        BY <1>11, <2>5 DEF Out
      <3>2. CASE s = "removal" /\ r.kind = "cleanup" /\ r.from = a
        <4>1. PICK after : after = runs'
          OBVIOUS
        <4>2. after["removal"] = q /\ after["auto"] = runs["auto"]
          BY <1>5, <3>2, <4>1 DEF Replaced, Refs
        <4>3. ASSUME ~Again(a) PROVE runs["auto"].kind = "idle" /\ Cleaning(a, q)'
          <5>1. runs["auto"].kind = "idle" /\ Cleaning(a, r)
            BY <1>2, <3>1, <3>2, <4>3 DEF Waiting
          <5>2. r.pc \in {"write", "files"}
            BY <1>3, <5>1 DEF Cleaning
          <5>3. q.pc = (IF r.pc = "write" THEN "files" ELSE "list")
            BY <1>5, <3>2 DEF AfterWrite
          <5>4. Cleaning(a, q)'
            BY <1>1, <1>3, <1>4, <1>5, <2>1, <3>2, <5>1, <5>2, <5>3, CleaningRequest
          <5> QED
            BY <5>1, <5>4
        <4>4. Again(a)' <=> Again(a)
          BY <1>3 DEF Again
        <4> QED
          BY <1>3, <2>2, <3>1, <4>1, <4>2, <4>3, <4>4 DEF Waiting
      <3>3. CASE ~(s = "removal" /\ r.kind = "cleanup" /\ r.from = a)
        <4>1. a \in hostVars'[open] => a \in hosts'
          BY <1>3, <2>2, <3>1 DEF Waiting
        <4> QED
          BY <1>1, <1>2, <1>3, <1>5, <2>2, <3>1, <3>3, <4>1, WaitingAside
      <3> QED
        BY <3>2, <3>3
    <2>6. OffList(a)'
      BY <1>3, <2>1 DEF OffPage, OffList
    <2> QED
      BY <1>1, <1>2, <1>3, <1>5, <1>11, <2>3, <2>4, <2>5, <2>6, StepOut
  <1> QED
    BY <1>3, <1>10, <1>11, KeepsPurges DEF PurgeInv

LEMMA ListsKeep ==
  ASSUME PurgeInv, NEW s \in Refs, ListFiles(s)
  PROVE  PurgeInv'
  <1>1. SyncTypes
    BY DEF PurgeInv
  <1>2. PICK r : r = runs[s]
    OBVIOUS
  <1>3. /\ r # NoRun /\ r.pc = "list" /\ End(s) /\ due' = TRUE
        /\ hosts' = hostVars[r.ws] /\ ready' = (inventory[r.ws] # NoFile)
        /\ UNCHANGED <<inventory, hostVars, stored, open, servers, active, selected, seen, gone, excused>>
    BY <1>2 DEF ListFiles, api, page, ghosts
  <1>4. r \in AnyRun /\ r.kind \in KindsAt(s) /\ Sound(r) /\ r.ws \in Spaces
    BY <1>1, <1>2, <1>3, RunAt, RunFields DEF SyncTypes
  <1>5. /\ Replaced(s, NoRun) /\ QueueTypes' /\ (renames' = renames \/ renames' = Rest(renames))
        /\ r.kind = "cleanup" => cleanups' = Rest(cleanups) /\ s = "removal"
        /\ r.kind # "cleanup" => cleanups' = cleanups
    BY <1>1, <1>2, <1>3, Ended
  <1>6. SyncTypes'
    <2>1. PageTypes' /\ ApiTypes' /\ hosts' \in SUBSET Aliases /\ ready' \in BOOLEAN
      BY <1>1, <1>3, <1>4 DEF SyncTypes, PageTypes, ApiTypes
    <2> QED
      BY <1>1, <1>3, <1>5, <2>1, StepTypes
  <1>7. ASSUME NEW a \in Aliases, Out(a) PROVE Out(a)'
    <2>1. OffPage(a) /\ OffRuns(a) /\ r.ws = open
      BY <1>2, <1>3, <1>7 DEF Out, OffRuns
    <2>2. hosts' = hostVars[open] /\ (ready' = TRUE \/ inventory[open] = NoFile)
      BY <1>3, <2>1
    <2>3. r.kind = "cleanup" => cleanups # <<>> /\ r.from = cleanups[1]
      BY <1>2, <1>5, <2>1 DEF OffRuns
    <2>4. r.kind = "cleanup" => (InQueue(a)' <=> Again(a)) /\ (r.from # a => (InQueue(a)' <=> InQueue(a)))
      BY <1>1, <1>5, <2>3, QueueStep DEF SyncTypes
    <2>5. r.kind # "cleanup" => (InQueue(a)' <=> InQueue(a))
      BY <1>5 DEF InQueue
    <2>6. Over(a) => Over(a)'
      <3> SUFFICES ASSUME Over(a) PROVE Over(a)'
        OBVIOUS
      <3>1. a \notin hosts' /\ (a \in hostVars'[open] => a \in hostVars[open]) /\ Nothing(inventory'[open][a])
        BY <1>3, <2>2 DEF Over
      <3> QED
        BY <1>1, <1>3, <1>5, <3>1, OverStays
    <2>7. Waiting(a) => Waiting(a)'
      <3> SUFFICES ASSUME Waiting(a) PROVE Waiting(a)'
        OBVIOUS
      <3>1. (a \in hostVars'[open] => a \in hostVars[open]) /\ (a \in hostVars'[open] => a \in hosts')
        BY <1>3, <2>2
      <3>2. (ready' = TRUE \/ inventory'[open] = NoFile) /\ (runs[s].kind = "hostVars" => inventory' = inventory)
        BY <1>3, <2>2
      <3>3. cleanups' = cleanups \/ s = "removal"
        BY <1>5
      <3> QED
        BY <1>1, <1>2, <1>3, <1>5, <3>1, <3>2, <3>3, WaitingAside
    <2>8. ASSUME r.kind = "cleanup", r.from = a, ~Again(a) PROVE Over(a)'
      <3>1. InQueue(a)
        <4>1. Len(cleanups) \in Nat /\ Len(cleanups) >= 1
          BY <1>1, <2>3, <2>8 DEF SyncTypes, QueueTypes
        <4> QED
          BY <2>3, <2>8, <4>1 DEF InQueue
      <3>2. Waiting(a) /\ s = "removal"
        BY <1>5, <1>7, <2>8, <3>1 DEF Out
      <3>3. runs["auto"].kind = "idle" /\ Cleaning(a, r)
        BY <1>2, <2>8, <3>2 DEF Waiting
      <3>4. a \notin hostVars[open] /\ Nothing(inventory[open][a])
        BY <1>3, <3>3 DEF Cleaning
      <3>5. PICK after : after = runs'
        OBVIOUS
      <3>6. after["removal"] = NoRun /\ after["auto"] = NoRun /\ after["vars"] = runs["vars"]
        <4>1. runs["auto"] = NoRun
          BY <1>1, <3>3, RunAt DEF SyncTypes, Refs
        <4> QED
          BY <1>5, <3>2, <3>5, <4>1 DEF Replaced, Refs
      <3>7. runs["vars"] # NoRun => Forgotten(a, runs["vars"])
        <4> SUFFICES ASSUME runs["vars"] # NoRun PROVE Forgotten(a, runs["vars"])
          OBVIOUS
        <4>1. runs["vars"].kind = "hostVars" /\ Sound(runs["vars"])
          BY <1>1, RunAt DEF SyncTypes, Refs, KindsAt
        <4>2. runs["vars"].hosts = {} /\ runs["vars"].text = NoFile
          BY <4>1 DEF Sound
        <4> QED
          BY <4>1, <4>2, EntryFacts DEF Forgotten, Nothing
      <3>8. \A t \in Refs : after[t] # NoRun => Forgotten(a, after[t])
        BY <3>6, <3>7 DEF Refs
      <3> QED
        BY <1>3, <2>2, <3>4, <3>5, <3>8 DEF Over, Forgotten
    <2>9. (InQueue(a)' => Waiting(a)') /\ (~InQueue(a)' => Over(a)')
      <3>1. CASE r.kind = "cleanup" /\ r.from = a
        <4>1. Again(a) => InQueue(a)
          <5>1. Len(cleanups) \in Nat
            BY <1>1 DEF SyncTypes, QueueTypes
          <5>2. \A i \in 2 .. Len(cleanups) : i \in 1 .. Len(cleanups)
            BY <5>1
          <5> QED
            BY <5>2 DEF Again, InQueue
        <4> QED
          BY <1>7, <2>4, <2>7, <2>8, <3>1, <4>1 DEF Out
      <3>2. CASE ~(r.kind = "cleanup" /\ r.from = a)
        BY <1>7, <2>4, <2>5, <2>6, <2>7, <3>2 DEF Out
      <3> QED
        BY <3>1, <3>2
    <2>10. OffList(a)'
      BY <1>3, <2>1 DEF OffPage, OffList
    <2>11. cleanups' = cleanups \/ s = "removal"
      BY <1>5
    <2> QED
      BY <1>1, <1>2, <1>3, <1>5, <1>7, <2>9, <2>10, <2>11, StepOut
  <1> QED
    BY <1>3, <1>6, <1>7, KeepsPurges DEF PurgeInv

LEMMA FailsKeep ==
  ASSUME PurgeInv, NEW s \in Refs, RunFails(s)
  PROVE  PurgeInv'
  <1>1. SyncTypes
    BY DEF PurgeInv
  <1>2. PICK r : r = runs[s]
    OBVIOUS
  <1>3. /\ r # NoRun /\ End(s) /\ (UNCHANGED api \/ Effect(r))
        /\ UNCHANGED <<stored, open, ready, hosts, servers, active, selected, gone>>
        /\ seen' = (IF r.kind = "pull" THEN [seen EXCEPT !.missed = TRUE] ELSE seen)
        /\ due' = (due \/ r.kind \notin {"pull", "hostVars"})
        /\ excused' = (IF r.kind = "cleanup" THEN excused \cup {<<r.ws, r.from>>} ELSE excused)
    BY <1>2 DEF RunFails, page
  <1>4. r \in AnyRun /\ r.kind \in KindsAt(s) /\ Sound(r) /\ r.ws \in Spaces
    BY <1>1, <1>2, <1>3, RunAt, RunFields DEF SyncTypes
  <1>5. /\ Replaced(s, NoRun) /\ QueueTypes' /\ (renames' = renames \/ renames' = Rest(renames))
        /\ r.kind = "cleanup" => cleanups' = Rest(cleanups) /\ s = "removal"
        /\ r.kind # "cleanup" => cleanups' = cleanups
    BY <1>1, <1>2, <1>3, Ended
  <1>6. ApiTypes' /\ \A w \in Spaces : inventory[w] # NoFile => inventory'[w] # NoFile
    BY <1>1, <1>3, <1>4, ApiAfter DEF SyncTypes
  <1>10. seen'.ws = seen.ws /\ DOMAIN seen' = DOMAIN seen
    BY <1>1, <1>3 DEF SyncTypes
  <1>7. SyncTypes'
    <2>1. PageTypes' /\ hosts' \in SUBSET Aliases /\ ready' \in BOOLEAN
      BY <1>1, <1>3 DEF SyncTypes, PageTypes
    <2>2. due' = due \/ due' = TRUE
      BY <1>1, <1>3 DEF SyncTypes
    <2> QED
      BY <1>1, <1>3, <1>5, <1>6, <1>10, <2>1, <2>2, StepTypes
  <1>8. ASSUME NEW a \in Aliases, Out(a), <<open, a>> \notin excused' PROVE Out(a)'
    <2>1. OffPage(a) /\ OffRuns(a) /\ r.ws = open
      BY <1>2, <1>3, <1>8 DEF Out, OffRuns
    <2>2. r.kind = "cleanup" => r.from # a
      BY <1>3, <1>8, <2>1
    <2>3. r.kind = "cleanup" => cleanups # <<>> /\ r.from = cleanups[1]
      BY <1>2, <1>5, <2>1 DEF OffRuns
    <2>4. InQueue(a)' <=> InQueue(a)
      <3>1. CASE r.kind = "cleanup"
        BY <1>1, <1>5, <2>2, <2>3, <3>1, QueueStep DEF SyncTypes
      <3>2. CASE r.kind # "cleanup"
        BY <1>5, <3>2 DEF InQueue
      <3> QED
        BY <3>1, <3>2
    <2>5. /\ a \in hostVars'[open] => a \in hostVars[open]
          /\ Over(a) => Nothing(inventory'[open][a])
          /\ Waiting(a) => ready = TRUE \/ inventory'[open] = NoFile
          /\ r.kind = "hostVars" => inventory' = inventory
      BY <1>1, <1>2, <1>3, <2>1, EffectOn
    <2>6. Over(a) => Over(a)'
      <3> SUFFICES ASSUME Over(a) PROVE Over(a)'
        OBVIOUS
      <3>1. a \notin hosts'
        BY <1>3 DEF Over
      <3> QED
        BY <1>1, <1>3, <1>5, <2>5, <3>1, OverStays
    <2>7. Waiting(a) => Waiting(a)'
      <3> SUFFICES ASSUME Waiting(a) PROVE Waiting(a)'
        OBVIOUS
      <3>1. (a \in hostVars'[open] => a \in hosts') /\ (ready' = TRUE \/ inventory'[open] = NoFile)
        BY <1>3, <2>5 DEF Waiting
      <3>2. cleanups' = cleanups \/ s = "removal"
        BY <1>5
      <3> QED
        BY <1>1, <1>2, <1>3, <1>5, <2>5, <3>1, <3>2, WaitingAside
    <2>8. OffList(a)'
      BY <1>3, <2>1 DEF OffPage, OffList
    <2>9. cleanups' = cleanups \/ s = "removal"
      BY <1>5
    <2> QED
      BY <1>1, <1>2, <1>3, <1>5, <1>8, <1>10, <2>4, <2>6, <2>7, <2>8, <2>9, StepOut DEF Out
  <1>9. gone' \ excused' \subseteq gone \ excused
    BY <1>3
  <1> QED
    BY <1>3, <1>7, <1>8, <1>9, KeepsPurges DEF PurgeInv

-----------------------------------------------------------------------------
(* Merging, pulling and rendering.                                          *)

LEMMA MergeIs ==
  ASSUME NEW sel \in [Aliases -> Entry], NEW h \in SUBSET Aliases, NEW m, m = Merge(sel, h)
  PROVE  m \in [Aliases -> Entry] /\ \A a \in Aliases : sel[a] = NoEntry /\ a \notin h => m[a] = NoEntry
  BY EntryFacts DEF Merge

LEMMA ExtractIs ==
  ASSUME NEW inv \in [Aliases -> Entry], NEW e, e = Extract(inv)
  PROVE  e \in [Aliases -> Entry] /\ \A a \in Aliases : Nothing(inv[a]) => e[a] = NoEntry
  BY EntryFacts DEF Extract, Nothing

LEMMA PanelIs ==
  ASSUME PageTypes, NEW p, p = PanelAlias, p # NoAlias
  PROVE  p \in Aliases /\ \E i \in 1 .. Len(servers) : servers[i] = p
  <1>1. servers \in Seq(Aliases)
    BY DEF PageTypes
  <1>2. CASE active \in ToSet(servers)
    <2>1. p = active
      BY <1>2 DEF PanelAlias
    <2> QED
      BY <1>1, <1>2, <2>1, Listed
  <1>3. CASE active \notin ToSet(servers)
    <2>1. servers # <<>> /\ p = Head(servers)
      BY <1>3 DEF PanelAlias
    <2> QED
      BY <1>1, <2>1
  <1> QED
    BY <1>2, <1>3

LEMMA AppliedIs ==
  ASSUME PageTypes, NEW m \in [Aliases -> Entry], NEW e, e = WithServers(m),
         NEW act, act = WithActive(m), NEW sel, sel = WithRoles(m)
  PROVE  /\ e \in Seq(Aliases) /\ \A i, j \in 1 .. Len(e) : e[i] = e[j] => i = j
         /\ act \in Aliases \cup {NoAlias} /\ sel \in [Aliases -> Entry]
         /\ \A a \in Aliases : OffList(a) /\ m[a] = NoEntry /\ a # Device =>
              (\A i \in 1 .. Len(e) : e[i] # a) /\ sel[a] = NoEntry /\ act # a
  <1>1. /\ servers \in Seq(Aliases) /\ selected \in [Aliases -> Entry] /\ active \in Aliases \cup {NoAlias}
        /\ \A i, j \in 1 .. Len(servers) : servers[i] = servers[j] => i = j
    BY DEF PageTypes
  <1>2. PICK M : M = AliasesOf(m)
    OBVIOUS
  <1>3. M \in SUBSET Aliases /\ \A a \in Aliases : m[a] = NoEntry => a \notin M
    BY <1>2 DEF AliasesOf
  <1>4. Device \in Aliases /\ IsFiniteSet(Aliases) /\ NoAlias \notin Aliases
    BY InventoryAssumption
  <1>5. PICK S : S = (IF M # {} THEN M ELSE IF servers = <<>> THEN {Device} ELSE {}) \ ToSet(servers)
    OBVIOUS
  <1>6. /\ S \in SUBSET Aliases /\ \A i \in 1 .. Len(servers) : servers[i] \notin S
        /\ \A a \in Aliases : m[a] = NoEntry /\ a # Device => a \notin S
    BY <1>1, <1>3, <1>4, <1>5, Listed
  <1>7. e = servers \o SetToSeq(S)
    BY <1>2, <1>5 DEF WithServers
  <1>8. /\ e \in Seq(Aliases) /\ \A i, j \in 1 .. Len(e) : e[i] = e[j] => i = j
        /\ \A i \in 1 .. Len(e) : e[i] \in S \/ \E j \in 1 .. Len(servers) : e[i] = servers[j]
    <2>1. servers \in Seq(Aliases) /\ \A i, j \in 1 .. Len(servers) : servers[i] = servers[j] => i = j
      BY <1>1
    <2>2. S \in SUBSET Aliases /\ \A i \in 1 .. Len(servers) : servers[i] \notin S
      BY <1>6
    <2>3. /\ e \in Seq(Aliases) /\ \A i, j \in 1 .. Len(e) : e[i] = e[j] => i = j
          /\ \A i \in 1 .. Len(e) : e[i] \in S \/ \E j \in 1 .. Len(servers) : e[i] = servers[j]
          /\ Len(e) = Len(servers) + Cardinality(S) /\ Cardinality(S) \in Nat
      BY <1>7, <2>1, <2>2, Extended
    <2> QED
      BY <2>3
  <1>9. act = active \/ act = Device \/ act \in M
    <2>1. CASE active # NoAlias \/ M = {}
      BY <1>2, <2>1 DEF WithActive
    <2>2. CASE active = NoAlias /\ M # {}
      <3>1. IsFiniteSet(M)
        BY <1>3, <1>4, FS_Subset
      <3>2. act = SetToSeq(M)[1]
        BY <1>2, <2>2 DEF WithActive
      <3>3. Cardinality(M) \in Nat /\ Cardinality(M) # 0
        BY <2>2, <3>1, FS_CardinalityType, FS_EmptySet
      <3>4. SetToSeq(M) \in [1 .. Cardinality(M) -> M]
        BY <3>1, SetListed
      <3>5. 1 \in 1 .. Cardinality(M)
        BY <3>3
      <3> QED
        BY <3>2, <3>4, <3>5
    <2> QED
      BY <2>1, <2>2
  <1>10. \A a \in Aliases : sel[a] = m[a] \/ sel[a] = {} \/ sel[a] = selected[a]
    BY DEF WithRoles
  <1>11. sel \in [Aliases -> Entry]
    <2>1. sel = [a \in Aliases |-> sel[a]]
      BY DEF WithRoles
    <2>2. \A a \in Aliases : sel[a] \in Entry
      BY <1>1, <1>10, EntryFacts
    <2> QED
      BY <2>1, <2>2
  <1>12. ASSUME NEW a \in Aliases, m[a] = NoEntry, a # Device, selected[a] = NoEntry PROVE sel[a] = NoEntry
    <2>1. a \notin M /\ a \notin Given(m)
      BY <1>2, <1>3, <1>12 DEF Given
    <2> QED
      BY <1>2, <1>12, <2>1 DEF WithRoles
  <1> QED
    BY <1>1, <1>3, <1>4, <1>6, <1>8, <1>9, <1>11, <1>12 DEF OffList

LEMMA FetchesKeep ==
  ASSUME PurgeInv, FetchRoles
  PROVE  PurgeInv'
  <1>1. SyncTypes
    BY DEF PurgeInv
  <1>2. PICK r : r = runs["auto"]
    OBVIOUS
  <1>3. /\ r.kind = "pull" /\ r.pc = "read" /\ inventory[r.ws] # NoFile
        /\ UNCHANGED <<inventory, hostVars, stored, open, ready, hosts, servers, active, selected>>
        /\ UNCHANGED <<renames, deletes, cleanups, due, seen, gone, excused>>
    BY <1>2 DEF FetchRoles, Possible, api, page, queues, ghosts
  <1>4. r # NoRun /\ "auto" \in Refs
    BY <1>3, NoRunIs DEF Refs
  <1>5. r \in AnyRun /\ r.kind \in KindsAt("auto") /\ Sound(r) /\ r.ws \in Spaces /\ r.hosts \in SUBSET Aliases
        /\ runs \in [Refs -> AnyRun \cup {NoRun}]
    BY <1>1, <1>2, <1>4, RunAt, RunFields DEF SyncTypes, RunTypes
  <1>6. PICK x : x = Extract(inventory[r.ws])
    OBVIOUS
  <1>7. PICK y : y = Merge(x, r.hosts)
    OBVIOUS
  <1>8. x \in [Aliases -> Entry] /\ \A a \in Aliases : Nothing(inventory[r.ws][a]) => x[a] = NoEntry
    <2>1. inventory[r.ws] \in [Aliases -> Entry]
      BY <1>1, <1>5 DEF SyncTypes, ApiTypes
    <2> QED
      BY <1>6, <2>1, ExtractIs
  <1>9. y \in [Aliases -> Entry] /\ \A a \in Aliases : x[a] = NoEntry /\ a \notin r.hosts => y[a] = NoEntry
    BY <1>5, <1>7, <1>8, MergeIs
  <1>10. PICK q : q = [r EXCEPT !.pc = "apply", !.text = y]
    OBVIOUS
  <1>11. q \in AnyRun /\ SameRun(q, r) /\ q.pc = "apply" /\ q.text = y /\ q.sel = r.sel
    BY <1>5, <1>9, <1>10 DEF AnyRun, SameRun
  <1>12. Replaced("auto", q)
    <2>1. runs' = [runs EXCEPT !.auto.pc = "apply", !.auto.text = y]
      BY <1>2, <1>6, <1>7 DEF FetchRoles
    <2>2. runs' = [runs EXCEPT !["auto"] = q]
      BY <1>2, <1>4, <1>5, <1>10, <2>1
    <2> QED
      BY <1>4, <1>5, <2>2 DEF Replaced
  <1>13. Sound(q)' /\ q.kind \in KindsAt("auto")
    BY <1>3, <1>5, <1>11 DEF Sound, SameRun
  <1>14. SyncTypes'
    <2>1. /\ ApiTypes' /\ PageTypes' /\ QueueTypes' /\ hosts' \in SUBSET Aliases /\ ready' \in BOOLEAN
      BY <1>1, <1>3 DEF SyncTypes, ApiTypes, PageTypes, QueueTypes
    <2> QED
      BY <1>1, <1>3, <1>4, <1>11, <1>12, <1>13, <2>1, StepTypes
  <1>15. ASSUME NEW a \in Aliases, Out(a) PROVE Out(a)'
    <2>1. OffPage(a) /\ OffRuns(a) /\ r.ws = open
      BY <1>2, <1>4, <1>15 DEF Out, OffRuns
    <2>2. ~InQueue(a) /\ ~InQueue(a)'
      BY <1>2, <1>3, <1>15 DEF Out, Waiting, InQueue
    <2>3. Over(a) /\ Forgotten(a, r)
      BY <1>2, <1>4, <1>15, <2>2 DEF Out, Over
    <2>4. y[a] = NoEntry
      BY <1>8, <1>9, <2>1, <2>3 DEF Over, Forgotten
    <2>5. Forgotten(a, q)
      BY <1>3, <1>11, <2>3, <2>4 DEF Forgotten, SameRun, Nothing
    <2>6. Over(a)'
      BY <1>1, <1>3, <1>4, <1>12, <2>3, <2>5, OverStays DEF Over
    <2>7. OffList(a)'
      BY <1>3, <2>1 DEF OffPage, OffList
    <2> QED
      BY <1>1, <1>2, <1>3, <1>4, <1>11, <1>12, <1>15, <2>2, <2>6, <2>7, StepOut
  <1> QED
    BY <1>3, <1>14, <1>15, KeepsPurges DEF PurgeInv

LEMMA AppliesKeep ==
  ASSUME PurgeInv, ApplyRoles
  PROVE  PurgeInv'
  <1>1. SyncTypes
    BY DEF PurgeInv
  <1>2. PICK r : r = runs["auto"]
    OBVIOUS
  <1>3. /\ r.kind = "pull" /\ r.pc = "apply" /\ End("auto")
        /\ UNCHANGED <<inventory, hostVars, stored, open, ready, hosts, seen, gone, excused>>
        /\ \/ selected' = WithRoles(r.text) /\ servers' = WithServers(r.text) /\ active' = WithActive(r.text) /\ due' = TRUE
           \/ UNCHANGED <<servers, active, selected, due>>
    BY <1>2 DEF ApplyRoles, api, page, ghosts
  <1>4. r # NoRun /\ "auto" \in Refs
    BY <1>3, NoRunIs DEF Refs
  <1>5. r \in AnyRun /\ r.text \in [Aliases -> Entry]
    BY <1>1, <1>2, <1>4, RunAt, RunFields DEF SyncTypes
  <1>6. /\ Replaced("auto", NoRun) /\ QueueTypes' /\ (renames' = renames \/ renames' = Rest(renames))
        /\ cleanups' = cleanups
    BY <1>1, <1>2, <1>3, <1>4, Ended
  <1>7. /\ PageTypes' /\ (due' = due \/ due' = TRUE)
        /\ \A a \in Aliases : OffList(a) /\ r.text[a] = NoEntry /\ a # Device => OffList(a)'
    <2>1. CASE UNCHANGED <<servers, active, selected, due>>
      BY <1>1, <2>1 DEF SyncTypes, PageTypes, OffList
    <2>2. CASE selected' = WithRoles(r.text) /\ servers' = WithServers(r.text) /\ active' = WithActive(r.text) /\ due' = TRUE
      <3>1. PICK sel, e, act : sel = selected' /\ e = servers' /\ act = active'
        OBVIOUS
      <3>2. PageTypes
        BY <1>1 DEF SyncTypes
      <3>3. sel = WithRoles(r.text) /\ e = WithServers(r.text) /\ act = WithActive(r.text)
        BY <2>2, <3>1
      <3>4. /\ e \in Seq(Aliases) /\ \A i, j \in 1 .. Len(e) : e[i] = e[j] => i = j
            /\ act \in Aliases \cup {NoAlias} /\ sel \in [Aliases -> Entry]
            /\ \A a \in Aliases : OffList(a) /\ r.text[a] = NoEntry /\ a # Device =>
                 (\A i \in 1 .. Len(e) : e[i] # a) /\ sel[a] = NoEntry /\ act # a
        BY <1>5, <3>2, <3>3, AppliedIs
      <3> QED
        BY <2>2, <3>1, <3>4 DEF PageTypes, OffList
    <2> QED
      BY <1>3, <2>1, <2>2
  <1>8. SyncTypes'
    <2>1. ApiTypes' /\ hosts' \in SUBSET Aliases /\ ready' \in BOOLEAN
      BY <1>1, <1>3 DEF SyncTypes, ApiTypes
    <2> QED
      BY <1>1, <1>3, <1>4, <1>6, <1>7, <2>1, StepTypes
  <1>9. ASSUME NEW a \in Aliases, Out(a), a # Device PROVE Out(a)'
    <2>1. OffPage(a) /\ OffRuns(a)
      BY <1>9 DEF Out
    <2>2. ~InQueue(a) /\ ~InQueue(a)'
      BY <1>2, <1>3, <1>6, <1>9 DEF Out, Waiting, InQueue
    <2>3. Over(a) /\ Forgotten(a, r)
      BY <1>2, <1>4, <1>9, <2>2 DEF Out, Over
    <2>4. r.text[a] = NoEntry
      BY <1>3, <2>3 DEF Forgotten
    <2>5. Over(a)'
      BY <1>1, <1>3, <1>4, <1>6, <2>3, OverStays DEF Over
    <2>6. OffList(a)'
      BY <1>7, <1>9, <2>1, <2>4 DEF OffPage
    <2> QED
      BY <1>1, <1>2, <1>3, <1>4, <1>6, <1>9, <2>2, <2>5, <2>6, StepOut
  <1> QED
    BY <1>3, <1>8, <1>9, KeepsPurges DEF PurgeInv

LEMMA SavesKeep ==
  ASSUME PurgeInv, SaveHostVars
  PROVE  PurgeInv'
  <1>1. SyncTypes
    BY DEF PurgeInv
  <1>2. PICK p : p = PanelAlias
    OBVIOUS
  <1>3. PICK n : n = Run("hostVars", "write", p, NoAlias)
    OBVIOUS
  <1>4. PICK q : q = [n EXCEPT !.hosts = {}]
    OBVIOUS
  <1>5. /\ runs["vars"] = NoRun /\ p # NoAlias /\ runs' = [runs EXCEPT !["vars"] = q]
        /\ UNCHANGED <<inventory, hostVars, stored, open, ready, hosts, servers, active, selected>>
        /\ UNCHANGED <<renames, deletes, cleanups, due, seen, gone, excused>>
    BY <1>2, <1>3, <1>4 DEF SaveHostVars, api, page, queues, ghosts
  <1>6. p \in Aliases /\ \E i \in 1 .. Len(servers) : servers[i] = p
    BY <1>1, <1>2, <1>5, PanelIs DEF SyncTypes
  <1>7. n \in AnyRun /\ n.kind = "hostVars" /\ n.pc = "write" /\ n.ws = open /\ n.from = p /\ n.text = NoFile /\ n.sel = NoFile
    <2>1. "hostVars" \in RunKinds
      BY DEF RunKinds
    <2> QED
      BY <1>1, <1>3, <1>6, <2>1, RunIs
  <1>8. /\ q \in AnyRun /\ q.kind = "hostVars" /\ q.pc = "write" /\ q.ws = open /\ q.from = p /\ q.hosts = {}
        /\ q.text = NoFile /\ q.sel = NoFile
    BY <1>4, <1>7 DEF AnyRun
  <1>9. Replaced("vars", q)
    BY <1>1, <1>5 DEF SyncTypes, RunTypes, Replaced, Refs
  <1>10. Sound(q)' /\ q.kind \in KindsAt("vars") /\ "vars" \in Refs
    BY <1>6, <1>8 DEF Sound, KindsAt, Refs
  <1>11. SyncTypes'
    <2>1. ApiTypes' /\ PageTypes' /\ QueueTypes' /\ hosts' \in SUBSET Aliases /\ ready' \in BOOLEAN
      BY <1>1, <1>5 DEF SyncTypes, ApiTypes, PageTypes, QueueTypes
    <2> QED
      BY <1>1, <1>5, <1>8, <1>9, <1>10, <2>1, StepTypes
  <1>12. ASSUME NEW a \in Aliases, Out(a) PROVE Out(a)'
    <2>1. OffPage(a) /\ OffRuns(a)
      BY <1>12 DEF Out
    <2>2. p # a
      BY <1>6, <2>1 DEF OffPage, OffList
    <2>3. OffPage(a)'
      BY <1>5, <2>1 DEF OffPage, OffList
    <2>4. PICK after : after = runs'
      OBVIOUS
    <2>5. after["vars"] = q /\ after["auto"] = runs["auto"] /\ after["removal"] = runs["removal"]
      BY <1>9, <2>4 DEF Replaced, Refs
    <2>6. \A t \in Refs : after[t] # NoRun => after[t].ws = open
      BY <1>8, <2>1, <2>5 DEF OffRuns, Refs
    <2>7. OffRuns(a)'
      BY <1>5, <1>8, <2>1, <2>2, <2>4, <2>5, <2>6 DEF OffRuns
    <2>8. InQueue(a)' <=> InQueue(a)
      BY <1>5 DEF InQueue
    <2>9. Waiting(a) => Waiting(a)'
      BY <1>5, <2>4, <2>5 DEF Waiting, Cleaning, Again
    <2>10. Over(a) => Over(a)'
      <3> SUFFICES ASSUME Over(a) PROVE Over(a)'
        OBVIOUS
      <3>1. Forgotten(a, q)
        BY <1>8, EntryFacts DEF Forgotten, Nothing
      <3> QED
        BY <1>1, <1>5, <1>9, <1>10, <3>1, OverStays DEF Over
    <2> QED
      BY <1>12, <2>3, <2>7, <2>8, <2>9, <2>10 DEF Out
  <1> QED
    BY <1>5, <1>11, <1>12, KeepsPurges DEF PurgeInv

LEMMA NextAutoIs ==
  ASSUME SyncTypes, NEW n, n = NextAuto
  PROVE  \/ n = runs["auto"]
         \/ n = NoRun
         \/ /\ n \in AnyRun /\ n.kind \in KindsAt("auto") /\ Sound(n) /\ n.ws = open /\ n.hosts = hosts /\ n.text = NoFile
            /\ runs["auto"] = NoRun /\ n.pc # "apply"
            /\ n.kind = "rename" \/ (~PendingMutations /\ n.to = NoAlias)
            /\ n.kind = "generate" => \E i \in 1 .. Len(servers) : servers[i] = n.from
            /\ n.kind = "rename" => renames # <<>> /\ n.to = renames[1][2]
            /\ n.kind = "push" => n.sel = Merge(selected, hosts)
  <1> DEFINE New ==
        /\ n \in AnyRun /\ n.kind \in KindsAt("auto") /\ Sound(n) /\ n.ws = open /\ n.hosts = hosts /\ n.text = NoFile
        /\ runs["auto"] = NoRun /\ n.pc # "apply"
        /\ n.kind = "rename" \/ (~PendingMutations /\ n.to = NoAlias)
        /\ n.kind = "generate" => \E i \in 1 .. Len(servers) : servers[i] = n.from
        /\ n.kind = "rename" => renames # <<>> /\ n.to = renames[1][2]
        /\ n.kind = "push" => n.sel = Merge(selected, hosts)
  <1>1. PICK p : p = PanelAlias
    OBVIOUS
  <1>2. selected \in [Aliases -> Entry] /\ hosts \in SUBSET Aliases /\ NoAlias \in Aliases \cup {NoAlias}
    BY DEF SyncTypes, PageTypes
  <1>3. PICK m : m = Merge(selected, hosts)
    OBVIOUS
  <1>4. m \in [Aliases -> Entry]
    BY <1>2, <1>3, MergeIs
  <1>5. /\ {"generate", "push", "pull", "rename"} \subseteq RunKinds /\ KindsAt("auto") = {"generate", "push", "pull", "rename"}
    BY DEF RunKinds, KindsAt
  <1> DEFINE g == [Run("generate", "post", p, NoAlias) EXCEPT !.sel = selected]
             u == [Run("push", "read", NoAlias, NoAlias) EXCEPT !.sel = m]
             v == [Run("pull", "read", NoAlias, NoAlias) EXCEPT !.sel = selected]
             w == Run("rename", IF ready THEN "read" ELSE "files", Head(renames)[1], Head(renames)[2])
             idle == runs["auto"] = NoRun
             rest == ~PendingMutations
             isReady == ready = TRUE
  <1>15. /\ ~idle => n = runs["auto"]
         /\ idle /\ rest /\ ~isReady /\ CanGenerate => n = g
         /\ idle /\ rest /\ isReady /\ Seeded => n = u
         /\ idle /\ rest /\ isReady /\ ~Seeded => n = v
         /\ idle /\ ~rest /\ renames # <<>> => n = w
         /\ idle /\ renames = <<>> /\ ~(rest /\ ~isReady /\ CanGenerate) /\ ~(rest /\ isReady) => n = NoRun
    <2>1. n = CASE ~idle -> runs["auto"]
                [] idle /\ rest /\ ~ready /\ CanGenerate -> g
                [] idle /\ rest /\ ready /\ Seeded -> u
                [] idle /\ rest /\ ready /\ ~Seeded -> v
                [] idle /\ renames # <<>> -> w
                [] OTHER -> NoRun
      BY <1>1, <1>3 DEF NextAuto
    <2>2. ready = TRUE \/ ready = FALSE
      BY DEF SyncTypes
    <2>3. rest => renames = <<>>
      BY DEF PendingMutations
    <2>4. (Seeded \/ ~Seeded) /\ (CanGenerate \/ ~CanGenerate)
      OBVIOUS
    <2> HIDE DEF g, u, v, w
    <2>5. idle /\ rest /\ ~isReady /\ CanGenerate => n = g
      BY <2>1, <2>2, <2>3
    <2>6. idle /\ rest /\ isReady /\ Seeded => n = u
      BY <2>1, <2>2, <2>3
    <2>7. idle /\ rest /\ isReady /\ ~Seeded => n = v
      BY <2>1, <2>2, <2>3
    <2>8. idle /\ ~rest /\ renames # <<>> => n = w
      BY <2>1, <2>2, <2>3
    <2>9. idle /\ renames = <<>> /\ ~(rest /\ ~isReady /\ CanGenerate) /\ ~(rest /\ isReady) => n = NoRun
      BY <2>1, <2>2, <2>3
    <2>10. ~idle => n = runs["auto"]
      BY <2>1
    <2> QED
      BY <2>5, <2>6, <2>7, <2>8, <2>9, <2>10
  <1> HIDE DEF g, u, v, w
  <1>6. CASE runs["auto"] # NoRun
    BY <1>6 DEF NextAuto
  <1>7. ASSUME idle, rest, ~isReady, CanGenerate PROVE New
    <2>1. p # NoAlias /\ selected[p] # NoEntry
      BY <1>1, <1>7 DEF CanGenerate
    <2>2. p \in Aliases /\ \E i \in 1 .. Len(servers) : servers[i] = p
      BY <1>1, <2>1, PanelIs DEF SyncTypes
    <2>3. PICK k : k = Run("generate", "post", p, NoAlias)
      OBVIOUS
    <2>4. /\ k \in AnyRun /\ k.kind = "generate" /\ k.pc = "post" /\ k.ws = open /\ k.from = p /\ k.to = NoAlias
          /\ k.hosts = hosts /\ k.text = NoFile
      BY <1>2, <1>5, <2>2, <2>3, RunIs
    <2>5. n = [k EXCEPT !.sel = selected]
      BY <1>7, <1>15, <2>3 DEF g
    <2>6. /\ n \in AnyRun /\ n.kind = "generate" /\ n.pc = "post" /\ n.ws = open /\ n.from = p /\ n.to = NoAlias
          /\ n.hosts = hosts /\ n.text = NoFile /\ n.sel = selected
      BY <1>2, <2>4, <2>5 DEF AnyRun
    <2>7. Sound(n)
      BY <2>1, <2>2, <2>6 DEF Sound
    <2> QED
      BY <1>5, <1>7, <2>2, <2>6, <2>7
  <1>8. ASSUME idle, rest, NEW k \in {"push", "pull"}, NEW l, l = Run(k, "read", NoAlias, NoAlias),
               NEW x \in [Aliases -> Entry], k = "push" => x = m, n = [l EXCEPT !.sel = x]
        PROVE  New
    <2>1. k \in RunKinds
      BY <1>5
    <2>2. /\ l \in AnyRun /\ l.kind = k /\ l.pc = "read" /\ l.ws = open /\ l.to = NoAlias /\ l.hosts = hosts /\ l.text = NoFile
      <3>1. PICK pc \in {"post", "read", "apply", "write", "files", "list"} : pc = "read"
        OBVIOUS
      <3>2. PICK no \in Aliases \cup {NoAlias} : no = NoAlias
        OBVIOUS
      <3>3. l = Run(k, pc, no, no)
        BY <1>8, <3>1, <3>2
      <3> HIDE DEF rest, idle
      <3>4. l \in AnyRun /\ l.kind = k /\ l.pc = pc /\ l.ws = open /\ l.to = no /\ l.hosts = hosts /\ l.text = NoFile
        BY <2>1, <3>3, RunIs
      <3> QED
        BY <3>1, <3>2, <3>4
    <2>3. n = [l EXCEPT !.sel = x]
      BY <1>8
    <2>4. /\ n \in AnyRun /\ n.kind = k /\ n.pc = "read" /\ n.ws = open /\ n.to = NoAlias /\ n.hosts = hosts /\ n.text = NoFile
          /\ n.sel = x
      BY <1>8, <2>2, <2>3 DEF AnyRun
    <2>5. Sound(n)
      BY <1>8, <2>4 DEF Sound
    <2> QED
      BY <1>3, <1>5, <1>8, <2>4, <2>5
  <1>9. ASSUME runs["auto"] = NoRun, renames # <<>>,
               n = Run("rename", IF ready THEN "read" ELSE "files", Head(renames)[1], Head(renames)[2])
        PROVE  New
    <2>1. PICK h : h = Head(renames)
      OBVIOUS
    <2>2. h \in Aliases \X Aliases /\ h = renames[1]
      BY <1>9, <2>1 DEF SyncTypes, QueueTypes
    <2>3. PICK pc : pc = IF ready THEN "read" ELSE "files"
      OBVIOUS
    <2>4. pc \in {"read", "files"}
      BY <2>3
    <2>5. n = Run("rename", pc, h[1], h[2])
      BY <1>9, <2>1, <2>3
    <2>6. /\ n \in AnyRun /\ n.kind = "rename" /\ n.pc = pc /\ n.ws = open /\ n.from = h[1] /\ n.to = h[2]
          /\ n.hosts = hosts /\ n.text = NoFile
      BY <1>5, <2>2, <2>4, <2>5, RunIs
    <2>7. Sound(n)
      BY <2>2, <2>4, <2>6 DEF Sound
    <2> QED
      BY <1>5, <1>9, <2>2, <2>4, <2>6, <2>7
  <1>10. CASE idle /\ rest /\ ~isReady /\ CanGenerate
    BY <1>7, <1>10
  <1>11. CASE idle /\ rest /\ isReady /\ Seeded
    <2>1. PICK l : l = Run("push", "read", NoAlias, NoAlias)
      OBVIOUS
    <2>2. n = [l EXCEPT !.sel = m]
      BY <1>11, <1>15, <2>1 DEF u
    <2>3. New
      BY <1>4, <1>8, <1>11, <2>1, <2>2
    <2> QED
      BY <2>3
  <1>12. CASE idle /\ rest /\ isReady /\ ~Seeded
    <2>1. PICK l : l = Run("pull", "read", NoAlias, NoAlias)
      OBVIOUS
    <2>2. n = [l EXCEPT !.sel = selected]
      BY <1>12, <1>15, <2>1 DEF v
    <2>3. New
      BY <1>2, <1>8, <1>12, <2>1, <2>2
    <2> QED
      BY <2>3
  <1>13. CASE idle /\ ~rest /\ renames # <<>>
    <2>1. n = Run("rename", IF ready THEN "read" ELSE "files", Head(renames)[1], Head(renames)[2])
      BY <1>13, <1>15 DEF w
    <2>2. New
      BY <1>9, <1>13, <2>1
    <2> QED
      BY <2>2
  <1>14. CASE idle /\ renames = <<>> /\ ~(rest /\ ~isReady /\ CanGenerate) /\ ~(rest /\ isReady)
    BY <1>14, <1>15
  <1>16. rest => renames = <<>>
    BY DEF PendingMutations
  <1> HIDE DEF New
  <1> QED
    BY <1>6, <1>10, <1>11, <1>12, <1>13, <1>14, <1>16 DEF New

LEMMA NextRemovalIs ==
  ASSUME SyncTypes, NEW n, n = NextRemoval
  PROVE  \/ n = runs["removal"]
         \/ n = NoRun
         \/ /\ n \in AnyRun /\ n.kind \in KindsAt("removal") /\ Sound(n) /\ n.ws = open /\ n.hosts = hosts
            /\ n.text = NoFile /\ runs["removal"] = NoRun /\ n.pc \in {"read", "files", "list"}
            /\ n.kind = "cleanup" => /\ cleanups # <<>> /\ n.from = cleanups[1] /\ n.pc \in {"read", "files"}
                                     /\ n.pc = "files" => ~ready
  <1>1. {"delete", "cleanup"} \subseteq RunKinds /\ KindsAt("removal") = {"delete", "cleanup"}
    BY DEF RunKinds, KindsAt
  <1>2. deletes \in Seq(Aliases) /\ cleanups \in Seq(Aliases)
    BY DEF SyncTypes, QueueTypes
  <1>3. ASSUME NEW k \in {"delete", "cleanup"}, NEW pc \in {"read", "files", "list"}, NEW a \in Aliases,
               n = Run(k, pc, a, NoAlias)
        PROVE  /\ n \in AnyRun /\ n.kind = k /\ n.kind \in KindsAt("removal") /\ Sound(n) /\ n.ws = open /\ n.hosts = hosts
               /\ n.text = NoFile /\ n.pc = pc /\ n.from = a
    <2>1. /\ n \in AnyRun /\ n.kind = k /\ n.ws = open /\ n.hosts = hosts /\ n.text = NoFile /\ n.pc = pc /\ n.from = a
      BY <1>1, <1>3, RunIs
    <2>2. Sound(n)
      BY <1>3, <2>1 DEF Sound
    <2> QED
      BY <1>1, <2>1, <2>2
  <1>4. CASE runs["removal"] # NoRun
    BY <1>4 DEF NextRemoval
  <1>5. CASE runs["removal"] = NoRun /\ deletes # <<>>
    <2>1. PICK a \in Aliases : a = Head(deletes)
      BY <1>2, <1>5
    <2>2. PICK pc \in {"read", "files", "list"} : pc = IF ready THEN "read" ELSE "list"
      OBVIOUS
    <2>3. n = Run("delete", pc, a, NoAlias)
      BY <1>5, <2>1, <2>2 DEF NextRemoval
    <2>4. /\ n \in AnyRun /\ n.kind = "delete" /\ n.kind \in KindsAt("removal") /\ Sound(n) /\ n.ws = open /\ n.hosts = hosts
          /\ n.text = NoFile /\ n.pc = pc
      BY <1>3, <2>3
    <2> QED
      BY <1>5, <2>4
  <1>6. CASE runs["removal"] = NoRun /\ deletes = <<>> /\ cleanups # <<>>
    <2>1. PICK a \in Aliases : a = Head(cleanups) /\ a = cleanups[1]
      BY <1>2, <1>6
    <2>2. PICK pc \in {"read", "files", "list"} : pc = IF ready THEN "read" ELSE "files"
      OBVIOUS
    <2>3. n = Run("cleanup", pc, a, NoAlias)
      BY <1>6, <2>1, <2>2 DEF NextRemoval
    <2>4. /\ n \in AnyRun /\ n.kind = "cleanup" /\ n.kind \in KindsAt("removal") /\ Sound(n) /\ n.ws = open /\ n.hosts = hosts
          /\ n.text = NoFile /\ n.pc = pc /\ n.from = a
      BY <1>3, <2>3
    <2> QED
      BY <1>6, <2>1, <2>2, <2>4
  <1>7. CASE runs["removal"] = NoRun /\ deletes = <<>> /\ cleanups = <<>>
    BY <1>7 DEF NextRemoval
  <1> QED
    BY <1>4, <1>5, <1>6, <1>7

LEMMA NextActiveIs ==
  ASSUME PageTypes, NEW given \in Aliases \cup {NoAlias}, NEW x, x = NextActive(given)
  PROVE  x \in Aliases \cup {NoAlias} /\ \A a \in Aliases : OffList(a) /\ given # a => x # a
  <1>1. servers \in Seq(Aliases) /\ active \in Aliases \cup {NoAlias} /\ NoAlias \notin Aliases
    BY InventoryAssumption DEF PageTypes
  <1>2. x = active \/ x = given \/ x = NoAlias \/ (servers # <<>> /\ x = Head(servers))
    BY DEF NextActive
  <1>3. servers # <<>> => Head(servers) \in Aliases /\ Head(servers) = servers[1] /\ 1 \in 1 .. Len(servers)
    BY <1>1
  <1> QED
    BY <1>1, <1>2, <1>3 DEF OffList

LEMMA RenderedPage ==
  ASSUME SyncTypes, Render
  PROVE  /\ PageTypes'
         /\ \A a \in Aliases : OffList(a) /\ a # Device /\ (PendingMutations \/ a \notin hosts) => OffList(a)'
  <1>1. PageTypes /\ hosts \in SUBSET Aliases /\ open \in Spaces /\ selected \in [Aliases -> Entry] /\ active \in Aliases \cup {NoAlias}
    BY DEF SyncTypes, PageTypes
  <1>2. PICK m : m = Merge(selected, hosts)
    OBVIOUS
  <1>3. m \in [Aliases -> Entry] /\ \A a \in Aliases : selected[a] = NoEntry /\ a \notin hosts => m[a] = NoEntry
    BY <1>1, <1>2, MergeIs
  <1>4. PICK e1, act1, sel1 : e1 = WithServers(m) /\ act1 = WithActive(m) /\ sel1 = WithRoles(m)
    OBVIOUS
  <1>5. /\ e1 \in Seq(Aliases) /\ \A i, j \in 1 .. Len(e1) : e1[i] = e1[j] => i = j
        /\ act1 \in Aliases \cup {NoAlias} /\ sel1 \in [Aliases -> Entry]
        /\ \A a \in Aliases : OffList(a) /\ m[a] = NoEntry /\ a # Device =>
             (\A i \in 1 .. Len(e1) : e1[i] # a) /\ sel1[a] = NoEntry /\ act1 # a
    BY <1>1, <1>3, <1>4, AppliedIs
  <1>6. PICK applies : applies = (~PendingMutations /\ (m # selected \/ ~roled \/ open # seen.ws))
    OBVIOUS
  <1>7. /\ servers' = (IF applies THEN e1 ELSE servers)
        /\ active' = NextActive(IF applies THEN act1 ELSE active)
        /\ selected' = EnsureEntry(IF applies THEN sel1 ELSE selected) \/ selected' = selected
    <2>1. /\ servers' = (IF applies THEN e1 ELSE servers)
          /\ active' = NextActive(IF applies THEN act1 ELSE active)
      BY <1>2, <1>4, <1>6 DEF Render
    <2>2. CASE open = seen.ws
      BY <1>2, <1>4, <1>6, <2>1, <2>2 DEF Render
    <2>3. CASE open # seen.ws
      <3>1. selected' = stored'[open].sel /\ stored' = [stored EXCEPT ![open] = [sel |-> selected, plans |-> plans]]
        BY <2>3 DEF Render
      <3>2. stored = [w \in Spaces |-> stored[w]]
        BY DEF SyncTypes, StoredTypes
      <3>3. stored'[open] = [sel |-> selected, plans |-> plans]
        BY <1>1, <3>1, <3>2
      <3> QED
        BY <2>1, <3>1, <3>3
    <2> QED
      BY <2>2, <2>3
  <1>8. PICK e, act, sel : e = (IF applies THEN e1 ELSE servers) /\ act = (IF applies THEN act1 ELSE active) /\ sel = (IF applies THEN sel1 ELSE selected)
    OBVIOUS
  <1>9. /\ e \in Seq(Aliases) /\ \A i, j \in 1 .. Len(e) : e[i] = e[j] => i = j
        /\ act \in Aliases \cup {NoAlias} /\ sel \in [Aliases -> Entry]
    BY <1>1, <1>5, <1>8 DEF PageTypes
  <1>10. \A a \in Aliases : OffList(a) /\ a # Device /\ (PendingMutations \/ a \notin hosts) =>
           (\A i \in 1 .. Len(e) : e[i] # a) /\ sel[a] = NoEntry /\ act # a
    <2> SUFFICES ASSUME NEW a \in Aliases, OffList(a), a # Device, PendingMutations \/ a \notin hosts
                 PROVE  (\A i \in 1 .. Len(e) : e[i] # a) /\ sel[a] = NoEntry /\ act # a
      OBVIOUS
    <2>1. CASE applies
      <3>1. m[a] = NoEntry
        BY <1>3, <1>6, <2>1 DEF OffList
      <3> QED
        BY <1>5, <1>8, <2>1, <3>1
    <2>2. CASE ~applies
      BY <1>8, <2>2 DEF OffList
    <2> QED
      BY <2>1, <2>2
  <1>11. PICK x : x = EnsureEntry(sel)
    OBVIOUS
  <1>12. x \in [Aliases -> Entry] /\ \A a \in Aliases : a # active => x[a] = sel[a]
    BY <1>9, <1>11, EntryFacts DEF EnsureEntry
  <1>13. selected' \in {x, selected}
    BY <1>7, <1>8, <1>11
  <1>14. PICK y : y = NextActive(act)
    OBVIOUS
  <1>15. y \in Aliases \cup {NoAlias} /\ \A a \in Aliases : OffList(a) /\ act # a => y # a
    BY <1>1, <1>9, <1>14, NextActiveIs
  <1>16. servers' = e /\ active' = y
    BY <1>7, <1>8, <1>14
  <1>17. PageTypes'
    BY <1>1, <1>9, <1>12, <1>13, <1>15, <1>16 DEF PageTypes
  <1>18. ASSUME NEW a \in Aliases, OffList(a), a # Device, PendingMutations \/ a \notin hosts PROVE OffList(a)'
    <2>1. selected'[a] = NoEntry
      BY <1>10, <1>12, <1>13, <1>18 DEF OffList
    <2> QED
      BY <1>10, <1>15, <1>16, <1>18, <2>1 DEF OffList
  <1> QED
    BY <1>17, <1>18

LEMMA RendersKeep ==
  ASSUME PurgeInv, Render
  PROVE  PurgeInv'
  <1>1. SyncTypes
    BY DEF PurgeInv
  <1>2. UNCHANGED <<inventory, hostVars, open, ready, hosts, gone>>
    BY DEF Render, api
  <1>3. /\ seen'.ws = open /\ "ws" \in DOMAIN seen'
        /\ runs' = [runs EXCEPT !["auto"] = NextAuto, !["removal"] = NextRemoval]
        /\ excused' = (IF runs'["auto"].kind = "rename" /\ runs'["removal"] # NoRun
                      THEN excused \cup {<<open, runs'["removal"].from>>} ELSE excused)
        /\ due' \in BOOLEAN /\ stored' = [stored EXCEPT ![open] = [sel |-> selected, plans |-> plans]]
        /\ IF open # seen.ws THEN renames' = <<>> /\ deletes' = <<>> /\ cleanups' = <<>>
           ELSE UNCHANGED <<renames, deletes, cleanups>>
    BY DEF Render, queues
  <1>4. PICK n, d : n = NextAuto /\ d = NextRemoval
    OBVIOUS
  <1>5. PICK after : after = runs'
    OBVIOUS
  <1>6. after = [s \in Refs |-> after[s]] /\ after["auto"] = n /\ after["removal"] = d /\ after["vars"] = runs["vars"]
    BY <1>1, <1>3, <1>4, <1>5 DEF SyncTypes, RunTypes, Refs
  <1>7. \/ n = runs["auto"]
        \/ n = NoRun
        \/ /\ n \in AnyRun /\ n.kind \in KindsAt("auto") /\ Sound(n) /\ n.ws = open /\ n.hosts = hosts /\ n.text = NoFile
           /\ runs["auto"] = NoRun /\ n.pc # "apply"
           /\ n.kind = "rename" \/ (~PendingMutations /\ n.to = NoAlias)
           /\ n.kind = "generate" => \E i \in 1 .. Len(servers) : servers[i] = n.from
           /\ n.kind = "rename" => renames # <<>> /\ n.to = renames[1][2]
           /\ n.kind = "push" => n.sel = Merge(selected, hosts)
    BY <1>1, <1>4, NextAutoIs
  <1>8. \/ d = runs["removal"]
        \/ d = NoRun
        \/ /\ d \in AnyRun /\ d.kind \in KindsAt("removal") /\ Sound(d) /\ d.ws = open /\ d.hosts = hosts
           /\ d.text = NoFile /\ runs["removal"] = NoRun /\ d.pc \in {"read", "files", "list"}
           /\ d.kind = "cleanup" => /\ cleanups # <<>> /\ d.from = cleanups[1] /\ d.pc \in {"read", "files"}
                                    /\ d.pc = "files" => ~ready
    BY <1>1, <1>4, NextRemovalIs
  <1>9. RunTypes'
    <2>1. Sound(n) => Sound(n)'
      BY <1>2 DEF Sound
    <2>2. Sound(d) => Sound(d)'
      BY <1>2 DEF Sound
    <2>3. \A s \in Refs : \/ after[s] = runs[s]
                         \/ after[s] = NoRun
                         \/ (after[s] \in AnyRun /\ after[s].kind \in KindsAt(s) /\ Sound(after[s])')
      BY <1>6, <1>7, <1>8, <2>1, <2>2 DEF Refs, Sound
    <2> QED
      BY <1>1, <1>2, <1>5, <1>6, <2>3, RunsStay DEF SyncTypes
  <1>10. SyncTypes'
    <2>1. ApiTypes' /\ open' \in Spaces /\ hosts' \in SUBSET Aliases /\ ready' \in BOOLEAN
      BY <1>1, <1>2 DEF SyncTypes, ApiTypes
    <2>2. PageTypes'
      BY <1>1, RenderedPage
    <2>3. QueueTypes'
      <3>1. CASE UNCHANGED <<renames, deletes, cleanups>>
        BY <1>1, <3>1 DEF SyncTypes, QueueTypes
      <3>2. CASE renames' = <<>> /\ deletes' = <<>> /\ cleanups' = <<>>
        BY <3>2 DEF QueueTypes
      <3> QED
        BY <1>3, <3>1, <3>2
    <2>4. StoredTypes'
      <3>1. stored = [w \in Spaces |-> stored[w]] /\ (\A w \in Spaces : stored[w].sel \in [Aliases -> Entry]) /\ open \in Spaces
            /\ selected \in [Aliases -> Entry]
        BY <1>1 DEF SyncTypes, StoredTypes, PageTypes
      <3>2. /\ stored' = [w \in Spaces |-> stored'[w]]
            /\ \A w \in Spaces : stored'[w] = IF w = open THEN [sel |-> selected, plans |-> plans] ELSE stored[w]
        BY <1>3, <3>1
      <3> QED
        BY <3>1, <3>2 DEF StoredTypes
    <2>5. due' \in BOOLEAN /\ seen'.ws = open' /\ "ws" \in DOMAIN seen'
      BY <1>2, <1>3
    <2> QED
      BY <1>9, <2>1, <2>2, <2>3, <2>4, <2>5 DEF SyncTypes
  <1>11. ASSUME NEW a \in Aliases, Out(a), a # Device, <<open, a>> \notin excused' PROVE Out(a)'
    <2>1. OffPage(a) /\ OffRuns(a) /\ open = seen.ws
      BY <1>11 DEF Out, OffPage
    <2>2. UNCHANGED <<renames, deletes, cleanups>>
      BY <1>3, <2>1
    <2>3. InQueue(a) => PendingMutations
      <3>1. InQueue(a) => cleanups # <<>>
        BY DEF InQueue
      <3> QED
        BY <3>1 DEF PendingMutations
    <2>4. ~InQueue(a) => Over(a)
      BY <1>11 DEF Out
    <2>5. OffList(a)'
      <3>1. PendingMutations \/ a \notin hosts
        BY <2>3, <2>4 DEF Over
      <3> QED
        BY <1>1, <1>11, <2>1, <3>1, RenderedPage DEF OffPage
    <2>6. OffPage(a)'
      BY <1>2, <1>3, <2>1, <2>2, <2>5 DEF OffPage
    <2>7. \A i \in 1 .. Len(servers) : servers[i] # a
      BY <2>1 DEF OffPage, OffList
    <2>8. renames # <<>> => renames[1][2] # a
      <3>1. renames \in Seq(Aliases \X Aliases)
        BY <1>1 DEF SyncTypes, QueueTypes
      <3>2. renames # <<>> => 1 \in 1 .. Len(renames)
        BY <3>1
      <3> QED
        BY <2>1, <3>2 DEF OffPage
    <2>9. OffRuns(a)'
      <3>1. NoRun.kind = "idle"
        BY NoRunIs
      <3>2. n # NoRun => n.ws = open
        BY <1>7, <2>1 DEF OffRuns, Refs
      <3>3. d # NoRun => d.ws = open
        BY <1>8, <2>1 DEF OffRuns, Refs
      <3>4. \A s \in Refs : after[s] # NoRun => after[s].ws = open
        BY <1>6, <2>1, <3>2, <3>3 DEF OffRuns, Refs
      <3>5. n.kind = "rename" => n.to # a
        BY <1>7, <2>1, <2>8, <3>1 DEF OffRuns
      <3>6. n.kind = "generate" => n.from # a
        BY <1>7, <2>1, <2>7, <3>1 DEF OffRuns
      <3>7. d.kind = "cleanup" => cleanups # <<>> /\ d.from = cleanups[1]
        BY <1>8, <2>1, <3>1 DEF OffRuns
      <3> QED
        BY <1>2, <1>5, <1>6, <2>1, <2>2, <3>4, <3>5, <3>6, <3>7 DEF OffRuns
    <2>10. InQueue(a)' <=> InQueue(a)
      BY <2>2 DEF InQueue
    <2>11. ASSUME InQueue(a) PROVE Waiting(a)'
      <3>1. Waiting(a) /\ PendingMutations
        BY <1>11, <2>3, <2>11 DEF Out
      <3>2. n.kind \in {"idle", "rename"}
        BY <1>7, <3>1, NoRunIs DEF Waiting
      <3>3. ASSUME d.kind = "cleanup", d.from = a, ~Again(a) PROVE n.kind = "idle" /\ Cleaning(a, d)'
        <4>1. d # NoRun
          BY <3>3, NoRunIs
        <4>2. n.kind # "rename"
          <5> SUFFICES ASSUME n.kind = "rename" PROVE FALSE
            OBVIOUS
          <5>1. runs'["auto"] = n /\ runs'["removal"] = d
            BY <1>5, <1>6
          <5>2. excused' = excused \cup {<<open, d.from>>}
            BY <1>3, <4>1, <5>1
          <5> QED
            BY <1>11, <3>3, <5>2
        <4>3. CASE d = runs["removal"]
          <5>1. Cleaning(a, d)
            BY <3>1, <3>3, <4>3 DEF Waiting
          <5> QED
            BY <1>2, <3>2, <4>2, <5>1 DEF Cleaning
        <4>4. CASE d # runs["removal"]
          <5>1. d.hosts = hosts /\ d.pc \in {"read", "files"} /\ (d.pc = "files" => ~ready)
            BY <1>8, <3>3, <4>1, <4>4
          <5>2. a \in hostVars[open] => a \in d.hosts
            BY <3>1, <5>1 DEF Waiting
          <5>3. d.pc = "files" => inventory[open] = NoFile
            BY <3>1, <5>1 DEF Waiting
          <5>4. d.pc = "files" => Nothing(inventory[open][a])
            BY <5>3, EntryFacts DEF Nothing
          <5>5. d.pc \in {"read", "write", "files", "list"} /\ d.pc # "write" /\ d.pc # "list"
            BY <5>1
          <5> QED
            BY <1>2, <3>2, <4>2, <5>2, <5>4, <5>5 DEF Cleaning
        <4> QED
          BY <4>3, <4>4
      <3>4. Again(a)' <=> Again(a)
        BY <2>2 DEF Again
      <3> QED
        BY <1>2, <1>5, <1>6, <3>1, <3>2, <3>3, <3>4 DEF Waiting
    <2>12. ASSUME ~InQueue(a) PROVE Over(a)'
      <3>1. Over(a) /\ a \notin hosts /\ selected[a] = NoEntry
        BY <2>1, <2>4, <2>12 DEF Over, OffPage, OffList
      <3>2. Merge(selected, hosts)[a] = NoEntry
        BY <1>1, <3>1, MergeIs DEF SyncTypes, PageTypes
      <3>3. n # NoRun => Forgotten(a, n)
        BY <1>7, <3>1, <3>2, EntryFacts DEF Over, Forgotten, Nothing, Refs
      <3>4. d # NoRun => Forgotten(a, d)
        <4>1. CASE d = runs["removal"]
          BY <3>1, <4>1 DEF Over, Refs
        <4>2. CASE d # NoRun /\ d # runs["removal"]
          <5>1. d.hosts = hosts /\ d.text = NoFile /\ d.kind \in {"delete", "cleanup"} /\ d.pc \in {"read", "files", "list"}
            BY <1>8, <4>2 DEF KindsAt
          <5> QED
            BY <3>1, <5>1, EntryFacts DEF Forgotten, Nothing
        <4> QED
          BY <4>1, <4>2
      <3>5. \A s \in Refs : after[s] # NoRun => Forgotten(a, after[s])
        BY <1>6, <3>1, <3>3, <3>4 DEF Over, Refs
      <3> QED
        BY <1>2, <1>5, <3>1, <3>5 DEF Over, Forgotten
    <2> QED
      BY <1>11, <2>6, <2>9, <2>10, <2>11, <2>12 DEF Out
  <1>12. gone' \ excused' \subseteq gone \ excused
    BY <1>2, <1>3
  <1> QED
    BY <1>2, <1>10, <1>11, <1>12, KeepsPurges DEF PurgeInv

-----------------------------------------------------------------------------
LEMMA PurgesBegin == SyncInit => PurgeInv
  <1> SUFFICES ASSUME SyncInit PROVE PurgeInv
    OBVIOUS
  <1>1. FirstSpace \in Spaces /\ Device \in Aliases
    BY InventoryAssumption
  <1>2. hosts = Aliases \ {Device} /\ open = FirstSpace /\ ready = TRUE /\ due = TRUE /\ gone = {}
    BY DEF SyncInit
  <1>3. ApiTypes
    <2>1. PICK f : f = [a \in Aliases |-> IF a \in hosts THEN Roles ELSE {}]
      OBVIOUS
    <2>2. f \in [Aliases -> SUBSET Roles] /\ f \in [Aliases -> Entry] /\ NoFile \in [Aliases -> Entry]
      <3>1. f \in [Aliases -> SUBSET Roles]
        BY <2>1
      <3> QED
        BY <3>1, EntryFacts
    <2>3. inventory = [w \in Spaces |-> IF w = FirstSpace THEN f ELSE NoFile]
      BY <2>1 DEF SyncInit
    <2>4. hostVars = [w \in Spaces |-> IF w = FirstSpace THEN hosts ELSE {}]
      BY DEF SyncInit
    <2> QED
      BY <1>2, <2>2, <2>3, <2>4 DEF ApiTypes
  <1>4. StoredTypes
    <2>1. stored = [w \in Spaces |-> [sel |-> NoFile, plans |-> {}]]
      BY DEF SyncInit
    <2> QED
      BY <2>1, EntryFacts DEF StoredTypes
  <1>5. PageTypes /\ QueueTypes
    BY EntryFacts DEF SyncInit, PageTypes, QueueTypes
  <1>6. RunTypes
    BY DEF SyncInit, RunTypes
  <1>9. "ws" \in DOMAIN seen
    BY DEF SyncInit, NothingSeen
  <1>7. SyncTypes
    BY <1>1, <1>2, <1>3, <1>4, <1>5, <1>6, <1>9 DEF SyncTypes
  <1>8. PurgesKept
    BY <1>2 DEF PurgesKept
  <1> QED
    BY <1>7, <1>8 DEF PurgeInv

LEMMA PurgesStutter == PurgeInv /\ UNCHANGED syncVars => PurgeInv'
  <1> SUFFICES ASSUME PurgeInv, UNCHANGED syncVars PROVE PurgeInv'
    OBVIOUS
  <1>1. /\ UNCHANGED <<inventory, hostVars, stored, open, ready, hosts, servers, active, selected, renames, deletes>>
        /\ UNCHANGED <<cleanups, runs, due, seen, gone, excused>>
    BY DEF syncVars, api, page, queues, ghosts
  <1>2. SyncTypes'
    BY <1>1 DEF PurgeInv, SyncTypes, ApiTypes, StoredTypes, PageTypes, QueueTypes, RunTypes, Sound
  <1>3. \A a \in Aliases : Out(a) => Out(a)'
    BY <1>1 DEF Out, OffPage, OffList, OffRuns, InQueue, Waiting, Over, Cleaning, Again, Forgotten
  <1> QED
    BY <1>1, <1>2, <1>3, KeepsPurges DEF PurgeInv

LEMMA PurgeStep == PurgeInv /\ [SyncNext]_syncVars => PurgeInv'
  <1> SUFFICES ASSUME PurgeInv, SyncNext \/ UNCHANGED syncVars PROVE PurgeInv'
    OBVIOUS
  <1>1. CASE Render
    BY <1>1, RendersKeep
  <1>2. CASE FetchRoles
    BY <1>2, FetchesKeep
  <1>3. CASE ApplyRoles
    BY <1>3, AppliesKeep
  <1>4. CASE SaveHostVars
    BY <1>4, SavesKeep
  <1>5. CASE Reload \/ \E w \in Spaces : SwitchWorkspace(w)
    BY <1>5, LeavesKeep
  <1>6. ASSUME NEW s \in Refs, Continue(s) PROVE PurgeInv'
    BY <1>6, ReadsKeep, RequestsKeep, ListsKeep, FailsKeep DEF Continue
  <1>7. ASSUME NEW a \in Aliases,
               \/ SelectServer(a) \/ AddServer(a) \/ OrderServer(a) \/ DeleteServer(a) \/ PurgeServer(a)
               \/ \E r \in Roles : Toggle(a, r) \/ ChoosePlan(a, r)
               \/ \E b \in Aliases : RenameServer(a, b)
        PROVE  PurgeInv'
    BY <1>7, SelectsKeep, AddsKeep, DeletesKeep, PurgesKeep, TogglesKeep, RenamesKeep
  <1>8. CASE UNCHANGED syncVars
    BY <1>8, PurgesStutter
  <1> QED
    BY <1>1, <1>2, <1>3, <1>4, <1>5, <1>6, <1>7, <1>8 DEF SyncNext

(* A purged server stays out of the page, the inventory and the host_vars,    *)
(* whatever else ran, once nothing runs or waits (cleanupServer,              *)
(* removeAliasFromInventory): from the purge on no handler of the page and no *)
(* copy that a run holds brings it back, until it is added again.             *)
THEOREM PurgedServersStayOut == SyncInit /\ [][SyncNext]_syncVars => []PurgedStaysOut
  <1>1. PurgeInv => PurgedStaysOut
    <2> SUFFICES ASSUME PurgeInv, Quiet, NEW p \in gone \ excused, p[1] = open, p[2] # Device
                 PROVE  /\ p[2] \notin ToSet(servers) /\ selected[p[2]] = NoEntry
                        /\ p[2] \notin hostVars[open]
                        /\ inventory[open][p[2]] = {} \/ inventory[open][p[2]] = NoEntry
      BY DEF PurgedStaysOut
    <2>1. Out(p[2])
      BY DEF PurgeInv, PurgesKept
    <2>2. cleanups = <<>>
      BY DEF Quiet, PendingMutations
    <2>3. ~InQueue(p[2])
      BY <2>2 DEF InQueue
    <2>4. Over(p[2]) /\ OffList(p[2])
      BY <2>1, <2>3 DEF Out, OffPage
    <2>5. servers \in Seq(Aliases)
      BY DEF PurgeInv, SyncTypes, PageTypes
    <2>6. p[2] \notin ToSet(servers)
      BY <2>4, <2>5, Listed DEF OffList
    <2> QED
      BY <2>4, <2>6 DEF Over, OffList, Nothing
  <1> QED
    BY <1>1, PurgesBegin, PurgeStep, PTL

-----------------------------------------------------------------------------
\* The types of the four parts, from here on.
\* The rest of the types of a role's settings: whose the content of the editor
\* is, and how much the user did.
RoleRest == contentOf \in Target /\ touches \in 0 .. MaxTouches

LEMMA RoleRestStep ==
  ASSUME RoleInv, RoleRest, [RoleConfigNext]_roleConfigVars
  PROVE  RoleRest'
  <1>1. UNCHANGED touches \/ TouchConfig => touches' \in 0 .. MaxTouches
    BY RoleConfigAssumption DEF RoleRest, TouchConfig
  <1>2. CASE UNCHANGED roleConfigVars
    BY <1>2 DEF roleConfigVars, RoleRest
  <1>3. ASSUME \/ \E r \in RoleIds, s \in Servers : OpenDetails(r, s)
               \/ \E tab \in {"general", "forms", "services", "billing"} : SelectTab(tab)
               \/ \E s \in Servers : SwitchServer(s)
               \/ CloseDetails \/ \E v \in FieldValues : ChangeField(v)
               \/ PersistField \/ ResetField \/ ToggleService
               \/ \E plan \in BOOLEAN : SelectRolePlan(plan)
        PROVE  RoleRest'
    <2>1. UNCHANGED configEditorVars /\ (UNCHANGED touches \/ TouchConfig)
      BY <1>3 DEF OpenDetails, SelectTab, SwitchServer, CloseDetails, ChangeField, PersistField, ResetField,
         ToggleService, SelectRolePlan
    <2> QED
      BY <1>1, <2>1 DEF configEditorVars, RoleRest
  <1>4. ASSUME \/ StartEditRoleConfig \/ \E v \in FieldValues : EditContent(v)
               \/ SaveRoleConfig \/ ImportRoleDefaults \/ CloseEditor
        PROVE  RoleRest'
    <2>1. UNCHANGED contentOf /\ (UNCHANGED touches \/ TouchConfig)
      BY <1>4 DEF StartEditRoleConfig, EditContent, SaveRoleConfig, ImportRoleDefaults, CloseEditor
    <2> QED
      BY <1>1, <2>1 DEF RoleRest
  <1>5. ASSUME NEW i \in CallSlot, ServeConfig(i) \/ RowsAnswered(i) \/ PlanAnswered(i)
        PROVE  RoleRest'
    <2>1. UNCHANGED <<touches, configEditorVars>>
      BY <1>5 DEF ServeConfig, RowsAnswered, PlanAnswered
    <2> QED
      BY <2>1 DEF configEditorVars, RoleRest
  <1>6. ASSUME NEW i \in CallSlot, EditorAnswered(i)
        PROVE  RoleRest'
    <2>1. configCalls[i].of \in Target
      BY DEF RoleInv, RoleTypes, ConfigCall
    <2>2. UNCHANGED touches /\ (contentOf' = configCalls[i].of \/ UNCHANGED contentOf)
      BY <1>6 DEF EditorAnswered, FailedLoad
    <2> QED
      BY <2>1, <2>2 DEF RoleRest
  <1> QED
    BY <1>2, <1>3, <1>4, <1>5, <1>6 DEF RoleConfigNext

\* The settings of a role keep their types.
LEMMA RoleTyped == RoleConfigSpec => []RoleConfigTypeOK
  <1>1. RoleConfigInit => RoleRest
    <2> SUFFICES ASSUME RoleConfigInit PROVE RoleRest
      OBVIOUS
    <2>1. NoConfigCall.of \in Target
      BY NoConfigCallIs DEF ConfigCall
    <2> QED
      BY <2>1, RoleConfigAssumption DEF RoleConfigInit, RoleRest
  <1>2. RoleInv /\ RoleRest => RoleConfigTypeOK
    <2> SUFFICES ASSUME RoleInv, RoleRest PROVE RoleConfigTypeOK
      OBVIOUS
    <2>1. {editorBusy, loadError, editMixed, rowsOvertaken} \subseteq BOOLEAN
      BY Zenon DEF RoleInv, RoleTypes
    <2> QED
      BY <2>1 DEF RoleInv, RoleTypes, RoleRest, RoleConfigTypeOK
  <1>3. RoleInv /\ RoleRest /\ [RoleConfigNext]_roleConfigVars => RoleRest'
    BY RoleRestStep
  <1> QED
    BY <1>1, <1>2, <1>3, RoleInitially, RoleStep, PTL DEF RoleConfigSpec

\* The rest of the types of the filters.
FiltersRest ==
  /\ picked \subseteq Apps /\ shown \in Filters \cup {NoFilters} /\ popover \in {"none", "filters", "views"}
  /\ bundlesThere \in BOOLEAN /\ choices \in 0 .. MaxChoices

LEMMA FiltersRestStep ==
  ASSUME FiltersInv, FiltersRest, [FiltersNext]_filtersVars
  PROVE  FiltersRest'
  <1>1. choices < MaxChoices /\ choices' = choices + 1 => choices' \in 0 .. MaxChoices
    BY SoftwareFiltersAssumption DEF FiltersRest
  <1>2. CASE UNCHANGED filtersVars
    BY <1>2 DEF filtersVars, FiltersRest
  <1>3. CASE RunEffects
    BY <1>3 DEF RunEffects, FiltersRest, FiltersInv, FiltersTypes
  <1>4. CASE RolesArrive \/ BundlesArrive
    BY <1>4 DEF RolesArrive, BundlesArrive, FiltersRest
  <1>5. ASSUME NEW S \in SUBSET Apps, PickApps(S) PROVE FiltersRest'
    BY <1>1, <1>5 DEF PickApps, FiltersRest
  <1>6. ASSUME NEW f, Choose(f), popover' = "none" \/ UNCHANGED popover PROVE FiltersRest'
    BY <1>1, <1>6 DEF Choose, FiltersRest
  <1>7. ASSUME NEW p, NEW q \in {"none", "filters", "views"}, Turn(p, q) PROVE FiltersRest'
    BY <1>1, <1>7 DEF Turn, FiltersRest
  <1>8. ASSUME NEW there \in BOOLEAN, ReloadPage(there) PROVE FiltersRest'
    BY <1>1, <1>8 DEF ReloadPage, FiltersRest
  <1>9. ASSUME NEW f, Toolbar(f) \/ InFilters(f) PROVE FiltersRest'
    BY <1>6, <1>9 DEF Toolbar, InFilters
  <1>10. CASE ToggleSoftwareScope \/ ToggleReleaseTrack \/ HandleModeChange \/ ShowSelectedOnly
    BY <1>9, <1>10 DEF ToggleSoftwareScope, ToggleReleaseTrack, HandleModeChange, ShowSelectedOnly
  <1>11. ASSUME NEW w \in Words, SearchOrFilter(w) PROVE FiltersRest'
    BY <1>9, <1>11 DEF SearchOrFilter
  <1>12. ASSUME NEW s \in Statuses, ToggleStatus(s) PROVE FiltersRest'
    BY <1>9, <1>12 DEF ToggleStatus
  <1>13. ASSUME NEW v, SelectViewMode(v) \/ ToggleColumn(v) PROVE FiltersRest'
    BY <1>9, <1>13 DEF SelectViewMode, ToggleColumn
  <1>14. CASE ToggleFilters \/ ToggleViewMenu \/ ClosePopover \/ NextPage \/ PrevPage
    BY <1>7, <1>14 DEF ToggleFilters, ToggleViewMenu, ClosePopover, NextPage, PrevPage
  <1> QED
    BY <1>2, <1>3, <1>4, <1>5, <1>8, <1>10, <1>11, <1>12, <1>13, <1>14 DEF FiltersNext

\* The filters keep their types.
LEMMA FiltersTyped == FiltersSpec => []FiltersTypeOK
  <1>1. FiltersInit => FiltersRest
    <2> SUFFICES ASSUME FiltersInit PROVE FiltersRest
      OBVIOUS
    <2>1. choices \in 0 .. MaxChoices
      BY SoftwareFiltersAssumption DEF FiltersInit
    <2> QED
      BY <2>1 DEF FiltersInit, FiltersRest
  <1>2. FiltersInv /\ FiltersRest => FiltersTypeOK
    <2> SUFFICES ASSUME FiltersInv, FiltersRest PROVE FiltersTypeOK
      OBVIOUS
    <2>1. {rolesThere, bundlesThere, queryReady} \subseteq BOOLEAN
      BY Zenon DEF FiltersInv, FiltersTypes, FiltersRest
    <2>2. {url, shown, wanted} \subseteq Filters \cup {NoFilters}
      BY Zenon DEF FiltersInv, FiltersTypes, FiltersRest
    <2> QED
      BY <2>1, <2>2 DEF FiltersInv, FiltersTypes, FiltersRest, FiltersTypeOK
  <1>3. FiltersInv /\ FiltersRest /\ [FiltersNext]_filtersVars => FiltersRest'
    BY FiltersRestStep
  <1> QED
    BY <1>1, <1>2, <1>3, FiltersInitially, FiltersStep, PTL DEF FiltersSpec

\* The rest of the types of the buttons.
ButtonsRest == vainly \subseteq Item /\ presses \in 0 .. MaxPresses

LEMMA ButtonsRestStep ==
  ASSUME ButtonsRest, [SoftwareNext]_softwareVars
  PROVE  ButtonsRest'
  <1>1. UNCHANGED presses \/ Press => presses' \in 0 .. MaxPresses
    BY SoftwareSelectionAssumption DEF ButtonsRest, Press
  <1>2. ASSUME NEW before, NEW sel, NEW h, Reselect(before, sel, h) PROVE vainly' \subseteq Item
    BY <1>2 DEF Reselect, ButtonsRest
  <1>3. ASSUME NEW before, NEW h, NEW strategy, ApplyBundle(before, h, strategy) PROVE vainly' \subseteq Item
    BY <1>2, <1>3 DEF ApplyBundle, Select
  <1>4. ASSUME NEW before, NEW h, RequestEnableBundle(before, h) PROVE vainly' \subseteq Item
    BY <1>3, <1>4 DEF RequestEnableBundle, ButtonsRest
  <1>5. CASE UNCHANGED softwareVars
    BY <1>5 DEF softwareVars, ButtonsRest
  <1>6. ASSUME NEW i \in Item, HandleStateToggle(i) PROVE ButtonsRest'
    <2>1. Press
      BY <1>6 DEF HandleStateToggle
    <2>2. \/ UNCHANGED vainly
          \/ \E before, h, S : Select(before, h, S)
          \/ \E before, h : RequestEnableBundle(before, h)
      BY <1>6 DEF HandleStateToggle
    <2>3. vainly' \subseteq Item
      BY <1>2, <1>4, <2>2 DEF Select, ButtonsRest
    <2> QED
      BY <1>1, <2>1, <2>3 DEF ButtonsRest
  <1>7. ASSUME NEW i \in Item, ConfirmDisable(i) \/ CancelDisable(i) \/ FadeStart(i) \/ FadeReset(i)
        PROVE  ButtonsRest'
    BY <1>7 DEF ConfirmDisable, CancelDisable, FadeStart, FadeReset, ButtonsRest
  <1>8. CASE SelectAppPlan
    BY <1>1, <1>2, <1>8 DEF SelectAppPlan, Select, ButtonsRest
  <1>9. CASE CancelMergePrompt
    BY <1>9 DEF CancelMergePrompt, ButtonsRest
  <1>10. ASSUME NEW s, AnswerMergePrompt(s) PROVE ButtonsRest'
    BY <1>3, <1>10 DEF AnswerMergePrompt, ButtonsRest
  <1>11. ASSUME NEW h \in Hosts, EnablePartial(h) PROVE ButtonsRest'
    BY <1>1, <1>4, <1>11 DEF EnablePartial, ButtonsRest
  <1>12. ASSUME NEW h \in Hosts, ActiveChanges(h) PROVE ButtonsRest'
    BY <1>1, <1>2, <1>12 DEF ActiveChanges, ButtonsRest
  <1>13. ASSUME NEW h \in Hosts, NEW S, InventoryBrings(h, S) PROVE ButtonsRest'
    BY <1>1, <1>2, <1>13 DEF InventoryBrings, Select, ButtonsRest
  <1> QED
    BY <1>5, <1>6, <1>7, <1>8, <1>9, <1>10, <1>11, <1>12, <1>13 DEF SoftwareNext

\* The buttons keep their types.
LEMMA ButtonsTyped == SoftwareSpec => []SoftwareTypeOK
  <1>1. SoftwareInit => ButtonsRest
    BY SoftwareSelectionAssumption DEF SoftwareInit, ButtonsRest
  <1>2. ButtonsInv /\ ButtonsRest => SoftwareTypeOK
    BY DEF ButtonsInv, ButtonTypes, ButtonsRest, SoftwareTypeOK
  <1>3. ButtonsRest /\ [SoftwareNext]_softwareVars => ButtonsRest'
    BY ButtonsRestStep
  <1> QED
    BY <1>1, <1>2, <1>3, ButtonsInitially, ButtonsStep, PTL DEF SoftwareSpec

\* The rest of the types: the plans, of the page and stored, and the marks.
PlansTyped ==
  /\ plans \in SUBSET (Aliases \X Roles)
  /\ stored = [w \in Spaces |-> stored[w]] /\ \A w \in Spaces : stored[w] \in Stored
MarksTyped == touched \in BOOLEAN /\ seeded \in BOOLEAN /\ roled \in BOOLEAN
SyncRest == PlansTyped /\ MarksTyped

\* A step that leaves what is stored alone, and only takes plans away.
LEMMA FewerPlans ==
  ASSUME PlansTyped, plans' \subseteq plans, UNCHANGED stored
  PROVE  PlansTyped'
  BY DEF PlansTyped

LEMMA RenderTyped ==
  ASSUME PurgeInv, SyncRest, Render
  PROVE  SyncRest'
  <1> DEFINE m == Merge(selected, hosts)
             now == [sel |-> selected, plans |-> plans]
  <1>1. /\ seeded' = Seeded /\ stored' = [stored EXCEPT ![open] = now]
        /\ \/ plans' = stored'[open].plans
           \/ plans' = KeptPlans(WithPlans(m))
           \/ plans' = KeptPlans(plans)
        /\ UNCHANGED touched
    BY Zenon DEF Render
  <1>2. roled' \in BOOLEAN
    BY DEF Render
  <1>3. now \in Stored
    BY DEF PurgeInv, SyncTypes, PageTypes, SyncRest, PlansTyped, Stored, Entry
  <1> HIDE DEF now
  <1>4. open \in Spaces
    BY DEF PurgeInv, SyncTypes
  <1>5. stored' = [w \in Spaces |-> stored'[w]] /\ \A w \in Spaces : stored'[w] \in Stored
    BY <1>1, <1>3, <1>4 DEF SyncRest, PlansTyped
  <1>6. KeptPlans(WithPlans(m)) \subseteq plans /\ KeptPlans(plans) \subseteq plans
    BY DEF KeptPlans, WithPlans
  <1>7. stored'[open].plans \in SUBSET (Aliases \X Roles)
    BY <1>4, <1>5 DEF Stored
  <1>8. plans' \in SUBSET (Aliases \X Roles)
    BY <1>1, <1>6, <1>7 DEF SyncRest, PlansTyped
  <1>9. seeded' \in BOOLEAN
    BY <1>1 DEF Seeded
  <1> QED
    BY <1>1, <1>2, <1>5, <1>8, <1>9 DEF SyncRest, PlansTyped, MarksTyped

LEMMA ClicksTyped ==
  ASSUME SyncRest, NEW a \in Aliases,
         \/ SelectServer(a) \/ AddServer(a) \/ OrderServer(a) \/ DeleteServer(a) \/ PurgeServer(a)
         \/ \E r \in Roles : Toggle(a, r) \/ ChoosePlan(a, r)
         \/ \E b \in Aliases : RenameServer(a, b)
  PROVE  SyncRest'
  <1>1. ASSUME SelectServer(a) \/ AddServer(a) \/ OrderServer(a)
        PROVE  SyncRest'
    <2>1. UNCHANGED <<stored, plans, touched, seeded, roled>>
      BY <1>1 DEF SelectServer, AddServer, OrderServer, marks
    <2> QED
      BY <2>1 DEF SyncRest, PlansTyped, MarksTyped
  <1>2. ASSUME DeleteServer(a) \/ PurgeServer(a)
        PROVE  SyncRest'
    <2>1. plans' = {p \in plans : p[1] # a} /\ touched' = TRUE /\ UNCHANGED <<stored, seeded, roled>>
      BY <1>2 DEF DeleteServer, PurgeServer, Drop, Touch
    <2> QED
      BY <2>1, FewerPlans DEF SyncRest, MarksTyped
  <1>3. ASSUME NEW r \in Roles, Toggle(a, r)
        PROVE  SyncRest'
    <2>1. plans' = plans \ {<<a, r>>} /\ touched' = TRUE /\ UNCHANGED <<stored, seeded, roled>>
      BY <1>3 DEF Toggle, Touch
    <2> QED
      BY <2>1, FewerPlans DEF SyncRest, MarksTyped
  <1>4. ASSUME NEW r \in Roles, ChoosePlan(a, r)
        PROVE  SyncRest'
    <2>1. plans' = plans \cup {<<a, r>>} /\ touched' = TRUE /\ UNCHANGED <<stored, seeded, roled>>
      BY <1>4 DEF ChoosePlan, Touch
    <2> QED
      BY <2>1 DEF SyncRest, PlansTyped, MarksTyped
  <1>5. ASSUME NEW b \in Aliases, RenameServer(a, b)
        PROVE  SyncRest'
    <2>1. plans' = {IF p[1] = a THEN <<b, p[2]>> ELSE p : p \in plans} /\ UNCHANGED <<stored, touched, seeded, roled>>
      BY <1>5 DEF RenameServer, marks
    <2>2. \A p \in plans : p \in Aliases \X Roles /\ (IF p[1] = a THEN <<b, p[2]>> ELSE p) \in Aliases \X Roles
      BY DEF SyncRest, PlansTyped
    <2>3. plans' \in SUBSET (Aliases \X Roles)
      BY <2>1, <2>2
    <2> QED
      BY <2>1, <2>3 DEF SyncRest, PlansTyped, MarksTyped
  <1> QED
    BY <1>1, <1>2, <1>3, <1>4, <1>5

LEMMA SyncRestStep ==
  ASSUME PurgeInv, SyncRest, [SyncNext]_syncVars
  PROVE  SyncRest'
  <1>1. CASE UNCHANGED syncVars
    BY <1>1 DEF syncVars, page, marks, SyncRest, PlansTyped, MarksTyped
  <1>2. ASSUME NEW s, End(s) PROVE seeded' \in BOOLEAN
    BY <1>2 DEF End
  <1>3. CASE FetchRoles \/ SaveHostVars
    BY <1>3 DEF FetchRoles, SaveHostVars, page, marks, SyncRest, PlansTyped, MarksTyped
  <1>4. CASE ApplyRoles
    <2>1. End("auto") /\ UNCHANGED <<stored, touched, roled>>
          /\ (plans' = WithPlans(runs.auto.text) \/ plans' = plans)
      BY <1>4, Zenon DEF ApplyRoles, page
    <2>2. plans' \subseteq plans
      BY <2>1 DEF WithPlans
    <2> QED
      BY <1>2, <2>1, <2>2, FewerPlans DEF SyncRest, MarksTyped
  <1>5. CASE Reload
    <2>1. /\ plans' = stored[open].plans /\ touched' = FALSE /\ seeded' = FALSE /\ roled' = FALSE /\ UNCHANGED stored
      BY <1>5 DEF Reload
    <2>2. stored[open] \in Stored
      BY DEF PurgeInv, SyncTypes, SyncRest, PlansTyped
    <2>3. plans' \in SUBSET (Aliases \X Roles)
      BY <2>1, <2>2 DEF Stored
    <2> QED
      BY <2>1, <2>3 DEF SyncRest, PlansTyped, MarksTyped
  <1>6. ASSUME NEW s \in Refs, Continue(s) PROVE SyncRest'
    <2>1. UNCHANGED <<stored, page, touched, roled>> /\ (End(s) \/ UNCHANGED seeded)
      BY <1>6 DEF Continue, ReadInventory, Request, ListFiles, RunFails, RunGoesOn
    <2> QED
      BY <1>2, <2>1 DEF page, SyncRest, PlansTyped, MarksTyped
  <1>7. ASSUME NEW w \in Spaces, SwitchWorkspace(w) PROVE SyncRest'
    BY <1>7 DEF SwitchWorkspace, page, marks, SyncRest, PlansTyped, MarksTyped
  <1> QED
    BY <1>1, <1>3, <1>4, <1>5, <1>6, <1>7, RenderTyped, ClicksTyped DEF SyncNext

\* The inventory and its copies keep their types: every server is listed once,
\* every run is at one of its steps, and every plan is of an alias and a role.
LEMMA SyncTyped == SyncInit /\ [][SyncNext]_syncVars => []SyncTypeOK
  <1>1. SyncInit => SyncRest
    <2> SUFFICES ASSUME SyncInit PROVE SyncRest
      OBVIOUS
    <2>1. NoFile \in [Aliases -> {NoEntry} \cup SUBSET Roles]
      BY DEF NoFile
    <2>2. [sel |-> NoFile, plans |-> {}] \in Stored
      BY <2>1 DEF Stored
    <2> QED
      BY <2>2 DEF SyncInit, SyncRest, PlansTyped, MarksTyped
  <1>2. PurgeInv /\ SyncRest => SyncTypeOK
    <2> SUFFICES ASSUME PurgeInv, SyncRest PROVE SyncTypeOK
      OBVIOUS
    <2>1. IsInjective(servers)
      BY DEF PurgeInv, SyncTypes, PageTypes, IsInjective
    <2>2. [sel |-> selected, plans |-> plans] \in Stored
      BY DEF PurgeInv, SyncTypes, PageTypes, SyncRest, PlansTyped, Stored, Entry
    <2>3. stored \in [Spaces -> Stored]
      BY DEF SyncRest, PlansTyped
    <2>4. {touched, seeded, roled, due} \subseteq BOOLEAN
      BY Zenon DEF SyncRest, MarksTyped, PurgeInv, SyncTypes
    <2>5. /\ runs.auto.kind \in {"idle", "generate", "push", "pull", "rename"}
          /\ runs.removal.kind \in {"idle", "delete", "cleanup"} /\ runs.vars.kind \in {"idle", "hostVars"}
      <3>1. \A s \in Refs : runs[s] = NoRun \/ runs[s].kind \in KindsAt(s)
        BY DEF PurgeInv, SyncTypes, RunTypes
      <3>2. KindsAt("auto") = {"generate", "push", "pull", "rename"} /\ KindsAt("removal") = {"delete", "cleanup"}
            /\ KindsAt("vars") = {"hostVars"}
        BY DEF KindsAt
      <3> QED
        BY <3>1, <3>2, NoRunIs DEF Refs
    <2>6. \A s \in Refs : runs[s] # NoRun => runs[s].pc \in {"post", "read", "apply", "write", "files", "list"}
      BY DEF PurgeInv, SyncTypes, RunTypes, AnyRun
    <2>7. {deletes, cleanups} \subseteq Seq(Aliases) /\ renames \in Seq(Aliases \X Aliases)
      BY DEF PurgeInv, SyncTypes, QueueTypes
    <2> QED
      BY <2>1, <2>2, <2>3, <2>4, <2>5, <2>6, <2>7 DEF PurgeInv, SyncTypes, ApiTypes, PageTypes, SyncTypeOK
  <1>3. PurgeInv /\ SyncRest /\ [SyncNext]_syncVars => SyncRest'
    BY SyncRestStep
  <1> QED
    BY <1>1, <1>2, <1>3, PurgesBegin, PurgeStep, PTL

-----------------------------------------------------------------------------
\* The servers of a workspace: a step is a step of one part and leaves the
\* others alone, so whatever is proved of a part is proved of all together.
THEOREM ServersAreTheirParts ==
  Spec => /\ SyncInit /\ [][SyncNext]_syncVars
          /\ RoleConfigSpec /\ FiltersSpec /\ SoftwareSpec
  <1>1. Init => SyncInit /\ RoleConfigInit /\ FiltersInit /\ SoftwareInit
    BY DEF Init
  <1>2. [Next]_vars => /\ [SyncNext]_syncVars /\ [RoleConfigNext]_roleConfigVars
                       /\ [FiltersNext]_filtersVars /\ [SoftwareNext]_softwareVars
    BY DEF Next, OfSync, vars
  <1>3. Spec => Init /\ [][Next]_vars
    BY PTL DEF Spec
  <1> QED
    BY <1>1, <1>2, <1>3, PTL DEF RoleConfigSpec, FiltersSpec, SoftwareSpec

\* The parts keep their types (useWorkspaceServerSelectionActions.ts,
\* useRoleDashboardEditor.ts, useRoleDashboardBootstrap.ts, EnableDropdown.tsx).
THEOREM ServersKeepTypes == Spec => []ServersTypeOK
  <1>1. SyncTypeOK /\ RoleConfigTypeOK /\ FiltersTypeOK /\ SoftwareTypeOK => ServersTypeOK
    <2> SUFFICES ASSUME SyncTypeOK, RoleConfigTypeOK, FiltersTypeOK, SoftwareTypeOK PROVE ServersTypeOK
      OBVIOUS
    <2>1. CASE part = "sync"
      BY <2>1 DEF ServersTypeOK
    <2>2. CASE part = "config"
      BY <2>2 DEF ServersTypeOK
    <2>3. CASE part = "filters"
      BY <2>3 DEF ServersTypeOK
    <2>4. CASE part \notin {"sync", "config", "filters"}
      BY <2>4 DEF ServersTypeOK
    <2> QED
      BY <2>1, <2>2, <2>3, <2>4
  <1> QED
    BY <1>1, ServersAreTheirParts, SyncTyped, RoleTyped, FiltersTyped, ButtonsTyped, PTL

\* What the parts promise holds of the servers of a workspace, the
\* specification of the runs (RoleDashboard.tsx, cleanupServer).
THEOREM ServersKeepPromises ==
  Spec => []RoleConfigAgrees /\ []FiltersSurviveReload /\ []ButtonSettles /\ []PurgedStaysOut
  BY ServersAreTheirParts, RoleShowsItsConfig, FiltersComeBack, ButtonsComeToRest, PurgedServersStayOut, PTL
==============================================================================
