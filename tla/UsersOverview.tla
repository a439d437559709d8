--------------------------- MODULE UsersOverview ---------------------------
(* The users overview of the workspace panel (useWorkspaceUsers.ts): a draft  *)
(* of the users in group_vars/all.yml, loaded when the overview is opened,    *)
(* edited in a dialog and written back as a whole by "Save users".  The same  *)
(* file is written by the Users tab, which asks for a username only; here a   *)
(* user without first and last name is not read (normalizeWorkspaceUser).     *)
EXTENDS Naturals, FiniteSets

CONSTANTS
  TeamSpaces,  \* workspaces
  Logins,      \* user names
  NoLogin,     \* null
  MaxSteps, MaxForeign  \* bounds: user's steps, writes by others

ASSUME OverviewAssumption == TeamSpaces # {} /\ NoLogin \notin Logins /\ MaxSteps \in Nat /\ MaxForeign \in Nat

VARIABLES
  usersFile,   \* the API: of each workspace, the logins with and without full names
  teamSpace,   \* workspaceId of the panel
  overviewOpen, usersLoading, usersSaving, usersDraft, usersSelection,
  editorMode, editingUsername, entryModal,
  importDue,   \* the hidden file input was clicked
  teamLoads, teamSaves,  \* requests in flight
  steps, foreignWrites,
  removedHere, amiss     \* history: see SavedUsersKept

draftState == <<usersDraft, usersSelection, editorMode, editingUsername, entryModal, importDue>>
overviewVars == <<usersFile, teamSpace, overviewOpen, usersLoading, usersSaving, draftState,
                  teamLoads, teamSaves, steps, foreignWrites, removedHere, amiss>>

File == [full : SUBSET Logins, bare : SUBSET Logins]
LoginsIn(f) == f.full \cup f.bare
Extracted(f) == f.full               \* extractWorkspaceUsers

OverviewTypeOK ==
  /\ usersFile \in [TeamSpaces -> File] /\ teamSpace \in TeamSpaces
  /\ usersDraft \subseteq Logins /\ usersSelection \subseteq Logins /\ removedHere \subseteq Logins
  /\ editorMode \in {"create", "edit"} /\ editingUsername \in Logins \cup {NoLogin}
  /\ {overviewOpen, usersLoading, usersSaving, entryModal, importDue, amiss} \subseteq BOOLEAN
  /\ \A l \in teamLoads : l.space \in TeamSpaces /\ l.action \in {"overview", "add", "import"}
  /\ \A s \in teamSaves : s.space \in TeamSpaces /\ s.users \subseteq Logins /\ s.written \in BOOLEAN

OverviewInit ==
  /\ teamSpace = CHOOSE w \in TeamSpaces : TRUE
  /\ \E f \in File : f.full \cap f.bare = {} /\ usersFile =  \* bound: the other workspaces have every user
       [w \in TeamSpaces |-> IF w = teamSpace THEN f ELSE [full |-> Logins, bare |-> {}]]
  /\ overviewOpen = FALSE /\ usersLoading = FALSE /\ usersSaving = FALSE
  /\ usersDraft = {} /\ usersSelection = {} /\ editorMode = "create" /\ editingUsername = NoLogin
  /\ entryModal = FALSE /\ importDue = FALSE /\ teamLoads = {} /\ teamSaves = {} /\ steps = 0 /\ foreignWrites = 0
  /\ removedHere = {} /\ amiss = FALSE

Step == steps < MaxSteps /\ steps' = steps + 1 /\ UNCHANGED foreignWrites
Running == teamLoads # {} \/ teamSaves # {}

------------------------------------------------------------------------------
OpenUsersEditorQuietly(action) ==  \* (Defect: the old draft stays in use while the new one loads.)
  /\ Step /\ ~entryModal
  /\ overviewOpen' = (action # "add") /\ usersSaving' = FALSE
  /\ editorMode' = "create" /\ editingUsername' = NoLogin /\ entryModal' = FALSE
  /\ teamLoads' = teamLoads \cup {[space |-> teamSpace, action |-> action]}
  /\ amiss' = Running
  /\ UNCHANGED <<usersFile, teamSpace, usersLoading, usersDraft, usersSelection, importDue, teamSaves, removedHere>>
\* openUsersEditor: also while a load or a save of the overview still runs.
OpenUsersEditor(action) ==
  /\ Step /\ ~entryModal
  /\ overviewOpen' = (action # "add") /\ usersLoading' = TRUE /\ usersSaving' = FALSE
  /\ editorMode' = "create" /\ editingUsername' = NoLogin /\ entryModal' = FALSE
  /\ teamLoads' = teamLoads \cup {[space |-> teamSpace, action |-> action]}
  /\ amiss' = Running
  /\ UNCHANGED <<usersFile, teamSpace, usersDraft, usersSelection, importDue, teamSaves, removedHere>>

UsersLoaded(l) ==
  /\ l \in teamLoads /\ teamLoads' = teamLoads \ {l} /\ usersLoading' = FALSE
  /\ \/ /\ usersDraft' = Extracted(usersFile[l.space]) /\ usersSelection' = {} /\ removedHere' = {}
        /\ amiss' = (amiss \/ l.space # teamSpace)
        /\ importDue' = (importDue \/ l.action = "import")
        /\ IF l.action = "add" THEN editorMode' = "create" /\ editingUsername' = NoLogin /\ entryModal' = TRUE
                               ELSE UNCHANGED <<editorMode, editingUsername, entryModal>>
     \/ /\ usersDraft' = {} /\ amiss' = TRUE       \* the load failed
        /\ UNCHANGED <<usersSelection, editorMode, editingUsername, entryModal, importDue, removedHere>>
  /\ UNCHANGED <<usersFile, teamSpace, overviewOpen, usersSaving, teamSaves, steps, foreignWrites>>

CloseUsersEditor ==
  /\ overviewOpen /\ ~usersSaving /\ ~entryModal /\ Step
  /\ overviewOpen' = FALSE /\ usersLoading' = FALSE /\ entryModal' = FALSE
  /\ editorMode' = "create" /\ editingUsername' = NoLogin /\ importDue' = FALSE
  /\ UNCHANGED <<usersFile, teamSpace, usersSaving, usersDraft, usersSelection, teamLoads, teamSaves, removedHere, amiss>>

\* The overview stays as it is when another workspace is opened in the header.
SwitchTeamSpace(w) ==
  /\ Step /\ ~entryModal /\ w # teamSpace /\ teamSpace' = w /\ amiss' = TRUE
  /\ UNCHANGED <<usersFile, overviewOpen, usersLoading, usersSaving, draftState, teamLoads, teamSaves, removedHere>>

------------------------------------------------------------------------------
(* The draft.                                                                  *)
InOverview == overviewOpen /\ ~usersLoading /\ ~entryModal
Drafted == /\ Step
           /\ UNCHANGED <<usersFile, teamSpace, overviewOpen, usersLoading, usersSaving, teamLoads, teamSaves, amiss>>

StartCreateUserEditor ==
  /\ InOverview /\ ~usersSaving /\ Drafted
  /\ editorMode' = "create" /\ editingUsername' = NoLogin /\ entryModal' = TRUE
  /\ UNCHANGED <<usersDraft, usersSelection, importDue, removedHere>>
StartEditUserEditor(u) ==
  /\ InOverview /\ ~usersSaving /\ u \in usersDraft /\ Drafted
  /\ editorMode' = "edit" /\ editingUsername' = u /\ entryModal' = TRUE
  /\ UNCHANGED <<usersDraft, usersSelection, importDue, removedHere>>
CloseUserEntryModal ==
  /\ entryModal /\ ~usersSaving /\ entryModal' = FALSE
  /\ UNCHANGED <<usersFile, teamSpace, overviewOpen, usersLoading, usersSaving, usersDraft, usersSelection,
                 editorMode, editingUsername, importDue, teamLoads, teamSaves, steps, foreignWrites, removedHere, amiss>>

\* applyUserEditor with username u in the form (the other fields filled in).  In
\* the mode "edit" the user who had editingUsername becomes u.
ApplyUserEditor(u) ==
  /\ entryModal /\ ~usersSaving /\ Drafted /\ entryModal' = FALSE /\ UNCHANGED importDue
  /\ \/ /\ editorMode = "edit" /\ editingUsername # NoLogin
        /\ u # editingUsername => u \notin usersDraft
        /\ usersDraft' = IF editingUsername \in usersDraft THEN (usersDraft \ {editingUsername}) \cup {u} ELSE usersDraft
        /\ usersSelection' = IF u = editingUsername THEN usersSelection ELSE usersSelection \ {editingUsername}
        /\ editingUsername' = u /\ UNCHANGED editorMode
        \* what the dialog shows: of an existing user another name was meant
        /\ removedHere' = IF u # editingUsername THEN (removedHere \cup {editingUsername}) \ {u} ELSE removedHere
     \/ /\ ~(editorMode = "edit" /\ editingUsername # NoLogin) /\ u \notin usersDraft
        /\ usersDraft' = usersDraft \cup {u} /\ editorMode' = "create" /\ editingUsername' = NoLogin
        /\ removedHere' = removedHere \ {u} /\ UNCHANGED usersSelection

Forget(us) ==  \* they leave the draft; the dialog is reset if it was on one of them
  /\ usersDraft' = usersDraft \ us /\ usersSelection' = usersSelection \ us
  /\ removedHere' = removedHere \cup us /\ UNCHANGED importDue
  /\ IF editingUsername \in us THEN editorMode' = "create" /\ editingUsername' = NoLogin /\ entryModal' = FALSE
                               ELSE UNCHANGED <<editorMode, editingUsername, entryModal>>
RemoveUserDraft(u) == InOverview /\ ~usersSaving /\ u \in usersDraft /\ Drafted /\ Forget({u})
DeleteSelectedUsers ==
  /\ InOverview /\ ~usersSaving /\ usersDraft \cap usersSelection # {} /\ Drafted
  /\ Forget(usersDraft \cap usersSelection)
ToggleUserSelection(u) ==
  /\ InOverview /\ u \in usersDraft /\ Drafted
  /\ usersSelection' = IF u \in usersSelection THEN usersSelection \ {u} ELSE usersSelection \cup {u}
  /\ UNCHANGED <<usersDraft, editorMode, editingUsername, entryModal, importDue, removedHere>>
SetUsersSelectionAll(checked) ==
  /\ InOverview /\ usersDraft # {} /\ Drafted
  /\ usersSelection' = IF checked THEN usersSelection \cup usersDraft ELSE usersSelection \ usersDraft
  /\ UNCHANGED <<usersDraft, editorMode, editingUsername, entryModal, importDue, removedHere>>

\* handleUsersImportSelect: the file's users take the place of the draft.
HandleUsersImportSelect(us) ==
  /\ InOverview /\ importDue /\ us # {} /\ Drafted /\ importDue' = FALSE
  /\ usersDraft' = us /\ usersSelection' = {} /\ removedHere' = removedHere \cup (usersDraft \ us)
  /\ editorMode' = "create" /\ editingUsername' = NoLogin /\ UNCHANGED entryModal

------------------------------------------------------------------------------
(* Saving.                                                                     *)
SaveWorkspaceUsers ==
  /\ InOverview /\ ~usersSaving /\ usersSaving' = TRUE /\ Step
  /\ teamSaves' = teamSaves \cup {[space |-> teamSpace, users |-> usersDraft, written |-> FALSE,
                                   removed |-> removedHere, amiss |-> amiss]}
  /\ UNCHANGED <<usersFile, teamSpace, overviewOpen, usersLoading, draftState, teamLoads, removedHere, amiss>>

SaveWritten(s) ==
  /\ s \in teamSaves /\ ~s.written
  /\ teamSaves' = {[r EXCEPT !.amiss = TRUE] : r \in teamSaves \ {s}} \cup {[s EXCEPT !.written = TRUE]}
  /\ usersFile' = [usersFile EXCEPT ![s.space] = [full |-> s.users, bare |-> {}]]
  /\ UNCHANGED <<teamSpace, overviewOpen, usersLoading, usersSaving, draftState, teamLoads, steps, foreignWrites,
                 removedHere, amiss>>

\* The draft becomes what was saved, whatever was loaded or imported meanwhile.
SaveAnswered(s) ==
  /\ s \in teamSaves /\ teamSaves' = teamSaves \ {s} /\ usersSaving' = FALSE
  /\ IF s.written
     THEN usersDraft' = s.users /\ usersSelection' = {}
          /\ removedHere' = s.removed /\ amiss' = (amiss \/ usersDraft # s.users)
     ELSE UNCHANGED <<usersDraft, usersSelection, removedHere, amiss>>  \* refused
  /\ UNCHANGED <<usersFile, teamSpace, overviewOpen, usersLoading, editorMode, editingUsername, entryModal, importDue,
                 teamLoads, steps, foreignWrites>>

\* The Users tab, the file editor and other members write the same file.
WrittenElsewhere(w) ==
  /\ foreignWrites < MaxForeign /\ foreignWrites' = foreignWrites + 1
  /\ \E u \in Logins \ LoginsIn(usersFile[w]), f \in {"full", "bare"} :
       usersFile' = [usersFile EXCEPT ![w][f] = @ \cup {u}]
  /\ amiss' = TRUE
  /\ teamSaves' = {[s EXCEPT !.amiss = TRUE] : s \in teamSaves}
  /\ UNCHANGED <<teamSpace, overviewOpen, usersLoading, usersSaving, draftState, teamLoads, steps, removedHere>>

OverviewNext ==
  \/ \E a \in {"overview", "add", "import"} : OpenUsersEditor(a)
  \/ \E l \in teamLoads : UsersLoaded(l)
  \/ \E s \in teamSaves : SaveWritten(s) \/ SaveAnswered(s)
  \/ \E w \in TeamSpaces : SwitchTeamSpace(w) \/ WrittenElsewhere(w)
  \/ \E u \in Logins : StartEditUserEditor(u) \/ ApplyUserEditor(u) \/ RemoveUserDraft(u) \/ ToggleUserSelection(u)
  \/ \E checked \in BOOLEAN : SetUsersSelectionAll(checked)
  \/ \E us \in SUBSET Logins : HandleUsersImportSelect(us)
  \/ CloseUsersEditor \/ StartCreateUserEditor \/ CloseUserEntryModal \/ DeleteSelectedUsers \/ SaveWorkspaceUsers

OverviewSpec == OverviewInit /\ [][OverviewNext]_overviewVars

------------------------------------------------------------------------------
\* saveWorkspaceUsers writes the whole users map: a user leaves the file only if
\* removed, renamed or replaced by an import in the overview, or if the overview
\* never read them: no first and last name, added by others since it was opened,
\* a load that failed, was of another workspace or ran beside another request.
SavedUsersKept ==
  [][\A s \in teamSaves : ~s.written /\ [s EXCEPT !.written = TRUE] \in teamSaves' /\ usersFile' # usersFile
       => LoginsIn(usersFile[s.space]) \ LoginsIn(usersFile'[s.space])
            \subseteq usersFile[s.space].bare \cup s.removed
          \/ s.amiss]_overviewVars
=============================================================================
