----------------------------- MODULE FileEditor -----------------------------
(* The file editor of the workspace panel: loading, typing, autosave, file   *)
(* operations and restores against the file API, and the unsaved-changes     *)
(* guard that queues what would leave the editor (actions/core/editor.ts,    *)
(* actions/files.ts, useUnsavedChangesGuard.ts, useWorkspaceHistory.ts).     *)
(* Every fetch is a call that keeps what its closure captured.               *)
EXTENDS Naturals, FiniteSets

CONSTANTS
  Workspaces, NoWorkspace, Paths, NoPath,
  First, FirstPath,   \* the workspace and the file that are open to begin with
  MaxEdits,     \* bound: texts the user types
  Invalid,      \* the typed texts that do not parse (JSON, YAML)
  MaxCommands,  \* bound: what the user asks for, the saves apart
  Slots         \* bound: calls in flight at a time

ASSUME EditorAssumption ==
  /\ {MaxEdits, MaxCommands} \subseteq Nat /\ Invalid \subseteq 1 .. MaxEdits
  /\ NoWorkspace \notin Workspaces /\ NoPath \notin Paths
  /\ First \in Workspaces /\ FirstPath \in Paths

VARIABLES
  disk,                          \* the API: the text of each file
  current, path, text, dirty,    \* workspaceId, activePath, editorValue, editorDirty
  loading, saving,               \* editorLoading, saveInProgress
  restoring,                     \* historyRestoreBusy
  leave,                         \* the workspace a queued leave action goes to
  calls,
  edits, commands, written,      \* history: texts typed, those that reached their file,
  raced,                         \* and see CleanMeansSaved
  outlived                       \* and a Save and leave runs whose queue was emptied meanwhile

shown == <<path, text, dirty>>
editorVars == <<disk, current, shown, loading, saving, restoring, leave, calls,
                edits, commands, written, raced, outlived>>

\* What a file held at first has n = 0, a typed text its own number; home is
\* the workspace whose file the user had open while typing.
Texts == [home : Workspaces, n : 0 .. MaxEdits]
Absent == [home |-> NoWorkspace, n |-> MaxEdits + 1]
Blank == [home |-> NoWorkspace, n |-> 0]
Idle == [kind |-> "idle"]
Call(kind, pc, p, to) ==
  [kind |-> kind, pc |-> pc, ws |-> current, path |-> p, to |-> to,
   text |-> IF pc = "put" THEN text ELSE Blank,
   open |-> (path = p), reply |-> "none", got |-> Absent]

EditorTypeOK ==
  /\ disk \in [Workspaces -> [Paths -> Texts \cup {Absent}]]
  /\ current \in Workspaces /\ path \in Paths \cup {NoPath}
  /\ text \in Texts \cup {Blank} /\ {dirty, loading, saving, restoring, raced, outlived} \subseteq BOOLEAN
  /\ leave \in Workspaces \cup {NoWorkspace}
  /\ edits \in 0 .. MaxEdits /\ commands \in 0 .. MaxCommands /\ written \subseteq 1 .. MaxEdits
  /\ \A i \in Slots : calls[i] # Idle =>
       /\ calls[i].kind \in {"load", "save", "leave", "create", "mkdir", "rename", "delete",
                             "select", "restore", "restorePath"}
       /\ calls[i].pc \in {"get", "put", "change", "list"}
       /\ calls[i].reply \in {"none", "ok", "failed"}

EditorInit ==
  /\ disk = [w \in Workspaces |-> [p \in Paths |-> [home |-> w, n |-> 0]]]
  /\ current = First /\ path = FirstPath /\ text = disk[current][path] /\ dirty = FALSE
  /\ loading = FALSE /\ saving = FALSE /\ restoring = FALSE /\ leave = NoWorkspace
  /\ calls = [i \in Slots |-> Idle] /\ edits = 0 /\ commands = 0 /\ written = {} /\ raced = FALSE
  /\ outlived = FALSE

------------------------------------------------------------------------------
(* The file API, as the panel sees it (the workspace history is modelled in  *)
(* WorkspaceHistory): a change may be made and its answer be a refusal (the  *)
(* commit failed) or be lost.                                                *)
Pending(i, pcs) == calls[i] # Idle /\ calls[i].pc \in pcs /\ calls[i].reply = "none"
Reply(i, r, t) == calls' = [calls EXCEPT ![i].reply = r, ![i].got = t]

Changed(c) ==
  CASE c.kind \in {"save", "leave"} -> [disk EXCEPT ![c.ws][c.path] = c.text]
    [] c.kind \in {"create", "restorePath"} -> [disk EXCEPT ![c.ws][c.path] = [home |-> c.ws, n |-> 0]]
    [] c.kind = "rename" -> [disk EXCEPT ![c.ws][c.to] = disk[c.ws][c.path],
                                         ![c.ws][c.path] = Absent]
    [] c.kind = "delete" -> [disk EXCEPT ![c.ws][c.path] = Absent]
    [] c.kind = "restore" -> [disk EXCEPT ![c.ws] = [p \in Paths |-> [home |-> c.ws, n |-> 0]]]
    [] OTHER -> disk

Allowed(c) ==
  /\ c.kind = "rename" => disk[c.ws][c.path] # Absent /\ disk[c.ws][c.to] = Absent
  /\ c.kind = "delete" => disk[c.ws][c.path] # Absent

\* The texts that reached the file they were typed for.
Reached(c) ==
  IF c.kind \in {"save", "leave"} /\ c.text.n > 0 /\ c.text.home = c.ws THEN {c.text.n} ELSE {}

ServeChange(i) ==
  /\ Pending(i, {"put", "change"}) /\ Allowed(calls[i])
  /\ disk' = Changed(calls[i]) /\ written' = written \cup Reached(calls[i])
  /\ Reply(i, "ok", Absent)
  /\ UNCHANGED <<current, shown, loading, saving, restoring, leave, edits, commands, raced, outlived>>

ServeRefusedChange(i) ==
  /\ Pending(i, {"put", "change"})
  /\ \/ UNCHANGED <<disk, written>>
     \/ Allowed(calls[i]) /\ disk' = Changed(calls[i]) /\ written' = written \cup Reached(calls[i])
  /\ Reply(i, "failed", Absent)
  /\ UNCHANGED <<current, shown, loading, saving, restoring, leave, edits, commands, raced, outlived>>

ServeRead(i) ==
  LET held == disk[calls[i].ws][calls[i].path] IN
  /\ Pending(i, {"get"})
  /\ \/ Reply(i, "failed", Absent)
     \/ held # Absent /\ Reply(i, "ok", held)
  /\ UNCHANGED <<disk, current, shown, loading, saving, restoring, leave, edits, commands, written, raced, outlived>>

------------------------------------------------------------------------------
(* The user.  The modal of the guard covers the panel while it is open.       *)
Free(i) == calls[i] = Idle /\ leave = NoWorkspace /\ commands < MaxCommands
Restores == {"restore", "restorePath"}
FileChanges == {"create", "mkdir", "rename", "delete"} \cup Restores
Start(i, c) == calls' = [calls EXCEPT ![i] = c]
Ask(i, c) == Start(i, c) /\ commands' = commands + 1
Finish(i) == Start(i, Idle)
GoOn(i, pc) == Start(i, [calls[i] EXCEPT !.pc = pc, !.reply = "none", !.got = Absent])

\* Any keystroke, also while the editor is loading or saving.
Type ==
  /\ leave = NoWorkspace /\ path # NoPath /\ edits < MaxEdits
  /\ edits' = edits + 1 /\ dirty' = TRUE
  /\ text' = [home |-> IF text = Blank THEN current ELSE text.home, n |-> edits + 1]
  /\ UNCHANGED <<disk, current, path, loading, saving, restoring, leave, calls, written, raced, outlived, commands>>

\* A click on a file of the tree, or Reload; neither asks the guard.
LoadFile(i, p) ==
  /\ Free(i) /\ (p = path => ~loading)
  /\ loading' = TRUE /\ Ask(i, Call("load", "get", p, NoPath))
  /\ UNCHANGED <<disk, current, shown, saving, restoring, leave, edits, written, raced, outlived>>

Valid == text.n \notin Invalid
Savable == dirty /\ path # NoPath

\* flushPendingEditorSave: the Save button (button = TRUE) or the autosave timer,
\* which every rendering with an unsaved text arms again.
SaveByButton(i, button) ==  \* (Defect: no timer.)
  /\ calls[i] = Idle /\ Savable /\ Valid /\ button /\ leave = NoWorkspace /\ ~loading
  /\ saving' = TRUE /\ loading' = TRUE /\ Start(i, Call("save", "put", path, NoPath))
  /\ UNCHANGED <<disk, current, shown, restoring, leave, edits, commands, written, raced, outlived>>
SaveFile(i, button) ==
  /\ calls[i] = Idle /\ Savable /\ Valid
  /\ button => leave = NoWorkspace /\ ~loading
  /\ saving' = TRUE /\ loading' = TRUE /\ Start(i, Call("save", "put", path, NoPath))
  /\ UNCHANGED <<disk, current, shown, restoring, leave, edits, commands, written, raced, outlived>>

CreateFile(i, p) ==
  /\ Free(i) /\ Ask(i, Call("create", "change", p, NoPath))
  /\ UNCHANGED <<disk, current, shown, loading, saving, restoring, leave, edits, written, raced, outlived>>

CreateDirectory(i, p) ==
  /\ Free(i) /\ Ask(i, Call("mkdir", "change", p, NoPath))
  /\ UNCHANGED <<disk, current, shown, loading, saving, restoring, leave, edits, written, raced, outlived>>

RenameFile(i, p, q) ==
  /\ Free(i) /\ p # q /\ Ask(i, Call("rename", "change", p, q))
  /\ UNCHANGED <<disk, current, shown, loading, saving, restoring, leave, edits, written, raced, outlived>>

DeleteFile(i, p) ==
  /\ Free(i) /\ Ask(i, Call("delete", "change", p, NoPath))
  /\ UNCHANGED <<disk, current, shown, loading, saving, restoring, leave, edits, written, raced, outlived>>

RestoreWorkspace(i) ==
  /\ Free(i) /\ ~restoring /\ restoring' = TRUE
  /\ Ask(i, Call("restore", "change", path, NoPath))
  /\ UNCHANGED <<disk, current, shown, loading, saving, leave, edits, written, raced, outlived>>

RestorePath(i, p) ==
  /\ Free(i) /\ ~restoring /\ restoring' = TRUE
  /\ Ask(i, Call("restorePath", "change", p, NoPath))
  /\ UNCHANGED <<disk, current, shown, loading, saving, leave, edits, written, raced, outlived>>

\* selectWorkspace: resetWorkspaceState, then the files of w.
SelectCleared(i, w) ==  \* (Defect: the queue is cleared before it is read.)
  /\ path' = NoPath /\ text' = Blank /\ dirty' = FALSE /\ loading' = FALSE /\ raced' = FALSE
  /\ Start(i, [Call("select", "list", NoPath, NoPath) EXCEPT !.ws = NoWorkspace, !.open = FALSE])
SelectFrom(i, w) ==
  /\ path' = NoPath /\ text' = Blank /\ dirty' = FALSE /\ loading' = FALSE /\ raced' = FALSE
  /\ Start(i, [Call("select", "list", NoPath, NoPath) EXCEPT !.ws = w, !.open = FALSE])

HasUnsavedSave == saving  \* (Defect.)
HasUnsavedChanges == dirty \/ saving

\* queueLeaveAction.
QueueLeave(i, w) ==
  /\ Free(i) /\ w # current /\ commands' = commands + 1
  /\ \/ ~HasUnsavedChanges /\ SelectFrom(i, w) /\ UNCHANGED leave
     \/ HasUnsavedChanges /\ leave' = w /\ UNCHANGED <<calls, shown, loading, raced>>
  /\ UNCHANGED <<disk, current, saving, restoring, edits, written, outlived>>

Leaving(i) == calls[i] # Idle /\ calls[i].kind = "leave"
OtherLeaves(i) == \E j \in Slots \ {i} : Leaving(j)

CancelLeave ==
  /\ leave # NoWorkspace /\ leave' = NoWorkspace
  /\ outlived' = (outlived \/ \E i \in Slots : Leaving(i))
  /\ UNCHANGED <<disk, current, shown, loading, saving, restoring, calls, edits, commands, written, raced>>

\* saveAndExecutePendingLeaveAction: with nothing left to save it leaves at once.
SaveAndLeave(i) ==
  /\ calls[i] = Idle /\ leave # NoWorkspace /\ ~saving
  /\ \/ /\ ~Savable /\ leave' = NoWorkspace /\ SelectFrom(i, leave) /\ UNCHANGED saving
        /\ outlived' = (outlived \/ OtherLeaves(i))
     \/ /\ Savable /\ Valid /\ saving' = TRUE /\ loading' = TRUE
        /\ Start(i, Call("leave", "put", path, NoPath)) /\ UNCHANGED <<shown, leave, raced, outlived>>
  /\ UNCHANGED <<disk, current, restoring, edits, commands, written>>

------------------------------------------------------------------------------
(* What follows each await.                                                   *)
Done(i, kinds, pc, r) ==
  /\ calls[i] # Idle /\ calls[i].kind \in kinds /\ calls[i].pc = pc /\ calls[i].reply = r
\* The list of files came, or did not: which of the two is open.
Listed(i, kinds) == calls[i] # Idle /\ calls[i].kind \in kinds /\ calls[i].pc = "list"

\* loadFile resolved: whatever the panel shows by now is replaced.
Loaded(i) ==
  /\ Done(i, {"load", "create", "rename"} \cup Restores, "get", "ok")
  /\ path' = (IF calls[i].kind = "rename" THEN calls[i].to ELSE calls[i].path)
  /\ text' = calls[i].got /\ dirty' = FALSE /\ loading' = FALSE
  /\ raced' = (calls[i].ws # current \/ calls[i].got.home # current) /\ Finish(i)
  /\ restoring' = (IF calls[i].kind \in Restores THEN FALSE ELSE restoring)
  /\ UNCHANGED <<disk, current, saving, leave, edits, commands, written, outlived>>

LoadFailed(i) ==
  /\ Done(i, {"load", "create", "rename"}, "get", "failed")
  /\ loading' = FALSE /\ Finish(i)
  /\ UNCHANGED <<disk, current, shown, saving, restoring, leave, edits, commands, written, raced, outlived>>

\* saveFile: the PUT was acknowledged; the editor is clean whatever it holds now.
Saved(i) ==
  /\ Done(i, {"save", "leave"}, "put", "ok")
  /\ dirty' = FALSE /\ GoOn(i, "list")
  /\ raced' = (calls[i].text # text \/ calls[i].ws # current \/ text.home # current)
  /\ UNCHANGED <<disk, current, path, text, loading, saving, restoring, leave, edits, commands, written, outlived>>

LeaveEnds(i) == outlived' = (outlived /\ OtherLeaves(i))

SaveFailedClean(i) ==  \* (Defect: the flag is cleared in a finally block.)
  /\ \/ Done(i, {"save", "leave"}, "put", "failed") \/ Listed(i, {"save", "leave"})
  /\ loading' = FALSE /\ saving' = FALSE /\ dirty' = FALSE /\ Finish(i) /\ LeaveEnds(i)
  /\ UNCHANGED <<disk, current, path, text, restoring, leave, edits, commands, written, raced>>
SaveFailed(i) ==
  /\ \/ Done(i, {"save", "leave"}, "put", "failed") \/ Listed(i, {"save", "leave"})
  /\ loading' = FALSE /\ saving' = FALSE /\ Finish(i) /\ LeaveEnds(i)
  /\ UNCHANGED <<disk, current, shown, restoring, leave, edits, commands, written, raced>>

\* saveFile returned true; Save and leave then runs whatever is queued.
SaveDone(i) ==
  /\ Listed(i, {"save", "leave"}) /\ saving' = FALSE
  /\ \/ /\ calls[i].kind = "leave" /\ leave # NoWorkspace
        /\ leave' = NoWorkspace /\ SelectFrom(i, leave) /\ outlived' = OtherLeaves(i)
     \/ /\ calls[i].kind = "save" \/ leave = NoWorkspace
        /\ loading' = FALSE /\ Finish(i) /\ LeaveEnds(i) /\ UNCHANGED <<shown, leave, raced>>
  /\ UNCHANGED <<disk, current, restoring, edits, commands, written>>

\* The change was made: deleteFile first closes the file that was open when it began.
FileChanged(i) ==
  LET c == calls[i]
      closes == c.kind = "delete" /\ c.open
  IN
  /\ Done(i, FileChanges, "change", "ok") /\ GoOn(i, "list")
  /\ path' = (IF closes THEN NoPath ELSE path) /\ text' = (IF closes THEN Blank ELSE text)
  /\ dirty' = (~closes /\ dirty) /\ raced' = (~closes /\ raced)
  /\ UNCHANGED <<disk, current, loading, saving, restoring, leave, edits, commands, written, outlived>>

\* The file list was read again: a created file, a renamed file that was open and
\* the open file of a restored workspace are loaded.
Refreshed(i) ==
  LET c == calls[i]
      loads == CASE c.kind = "create" -> TRUE
                 [] c.kind = "restore" -> c.path # NoPath
                 [] c.kind \in {"rename", "restorePath"} -> c.open
                 [] OTHER -> FALSE
  IN
  /\ Listed(i, FileChanges)
  /\ \/ /\ loads /\ loading' = TRUE /\ UNCHANGED <<dirty, raced, restoring>>
        /\ Start(i, [c EXCEPT !.pc = "get", !.reply = "none",
                              !.path = IF c.kind = "rename" THEN c.to ELSE c.path])
     \/ /\ ~loads /\ Finish(i) /\ UNCHANGED loading
        /\ IF c.kind \in Restores
           THEN dirty' = FALSE /\ raced' = (raced \/ dirty) /\ restoring' = FALSE
           ELSE UNCHANGED <<dirty, raced, restoring>>
  /\ UNCHANGED <<disk, current, path, text, saving, leave, edits, commands, written, outlived>>

\* A restore whose reload of the open file failed clears the dirty flag all the same.
RestoredUnread(i) ==
  /\ Done(i, Restores, "get", "failed")
  /\ loading' = FALSE /\ dirty' = FALSE /\ raced' = (raced \/ dirty)
  /\ restoring' = FALSE /\ Finish(i)
  /\ UNCHANGED <<disk, current, path, text, saving, leave, edits, commands, written, outlived>>

ChangeFailed(i) ==
  /\ \/ Done(i, FileChanges, "change", "failed")
     \/ Listed(i, FileChanges)
  /\ restoring' = (calls[i].kind \notin Restores /\ restoring) /\ Finish(i)
  /\ UNCHANGED <<disk, current, shown, loading, saving, leave, edits, commands, written, raced, outlived>>

Selected(i) ==
  /\ Listed(i, {"select"}) /\ current' = calls[i].ws /\ Finish(i)
  /\ raced' = (raced \/ path # NoPath)
  /\ UNCHANGED <<disk, shown, loading, saving, restoring, leave, edits, commands, written, outlived>>

NotSelected(i) ==
  /\ Listed(i, {"select"}) /\ Finish(i)
  /\ UNCHANGED <<disk, current, shown, loading, saving, restoring, leave, edits, commands, written, raced, outlived>>

Answer(i) ==
  \/ Loaded(i) \/ LoadFailed(i) \/ Saved(i) \/ SaveFailed(i) \/ SaveDone(i)
  \/ FileChanged(i) \/ Refreshed(i) \/ RestoredUnread(i) \/ ChangeFailed(i)
  \/ Selected(i) \/ NotSelected(i)

EditorNext ==
  \/ Type \/ CancelLeave
  \/ \E i \in Slots :
       \/ ServeChange(i) \/ ServeRefusedChange(i) \/ ServeRead(i) \/ Answer(i)
       \/ SaveFile(i, TRUE) \/ SaveFile(i, FALSE) \/ SaveAndLeave(i) \/ RestoreWorkspace(i)
       \/ \E w \in Workspaces : QueueLeave(i, w)
       \/ \E p \in Paths :
            \/ LoadFile(i, p) \/ CreateFile(i, p) \/ CreateDirectory(i, p) \/ DeleteFile(i, p)
            \/ RestorePath(i, p)
            \/ \E q \in Paths : RenameFile(i, p, q)

\* Requests end, their continuations run, the autosave timer fires in the end,
\* and a save that is repeated is not refused for ever.
EditorFairness ==
  /\ \A i \in Slots :
       /\ WF_editorVars(ServeRead(i) \/ ServeChange(i) \/ ServeRefusedChange(i))
       /\ WF_editorVars(Answer(i))
       /\ SF_editorVars(ServeChange(i) /\ calls[i].kind = "save")
  /\ SF_editorVars(\E i \in Slots : SaveFile(i, FALSE))

EditorSpec == EditorInit /\ [][EditorNext]_editorVars /\ EditorFairness

------------------------------------------------------------------------------
(* A text shown as saved is one that reached its file, except when the last  *)
(* acknowledgement (or restore, or late reply of another workspace) was not  *)
(* about the text that is shown (saveFile, setEditorDirty(false)).           *)
CleanMeansSaved ==
  (path # NoPath /\ ~dirty /\ ~raced /\ text.n > 0) => text.n \in written

Leaves == \E i \in Slots : /\ calls'[i] # Idle /\ calls'[i].kind = "select"
                           /\ calls[i] = Idle \/ calls[i].kind # "select"

(* Whatever the order of clicks, autosaves and replies, the panel leaves a   *)
(* workspace only after the text in its editor reached its file, unless Save *)
(* and leave was still running when what it was pressed for had been left or *)
(* outlived (queueLeaveAction, saveAndExecutePendingLeaveAction).           *)
LeaveKeepsEdits ==
  [][Leaves => raced \/ outlived \/ text.n = 0 \/ text.n \in written]_editorVars

(* Milestones: the unsaved-changes guard prevents accidental data loss       *)
(* (saveAndExecutePendingLeaveAction runs what is queued when its save ends, *)
(* also when that was queued for another text).                              *)
GuardPreventsLoss == [][Leaves => raced \/ text.n = 0 \/ text.n \in written]_editorVars

(* An unsaved text is saved in the end without the user's doing, unless it   *)
(* does not parse (the autosave effect, 1000 ms after the last rendering).   *)
AutosaveEventually == Savable ~> (~Savable \/ ~Valid)
=============================================================================
