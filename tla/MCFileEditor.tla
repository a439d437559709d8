---------------------------- MODULE MCFileEditor ----------------------------
(* The files of a workspace in the panel: the editor, its view of KeePass    *)
(* files, the passwords of the workspace, import and cleanup, one at a time  *)
(* (see part).                                                               *)
EXTENDS FileEditor, KdbxView, WorkspaceVault, BulkFiles, TLC

VARIABLE part

vars == <<editorVars, kdbxVars, vaultVars, bulkVars, part>>

NewVault == vault.master = NoMaster

\* One of the initial states of the vault for the other parts.
Init ==
  /\ EditorInit /\ KdbxInit /\ VaultInit /\ BulkInit
  /\ part \in {"editor", "kdbx", "vault", "bulk"}
  /\ part # "vault" => NewVault

OfEditor(A) == part = "editor" /\ A /\ UNCHANGED <<kdbxVars, vaultVars, bulkVars, part>>
OfKdbx(A) == part = "kdbx" /\ A /\ UNCHANGED <<editorVars, vaultVars, bulkVars, part>>
OfVault(A) == part = "vault" /\ A /\ UNCHANGED <<editorVars, kdbxVars, bulkVars, part>>
OfBulk(A) == part = "bulk" /\ A /\ UNCHANGED <<editorVars, kdbxVars, vaultVars, part>>

\* EditorFairness, of its part.
Spec ==
  /\ Init /\ [][OfEditor(EditorNext) \/ OfKdbx(KdbxNext) \/ OfVault(VaultNext)
             \/ OfBulk(BulkNext)]_vars
  /\ \A i \in Slots :
       /\ WF_vars(OfEditor(ServeRead(i) \/ ServeChange(i) \/ ServeRefusedChange(i)))
       /\ WF_vars(OfEditor(Answer(i)))
       /\ SF_vars(OfEditor(ServeChange(i) /\ calls[i].kind = "save"))
  /\ SF_vars(OfEditor(\E i \in Slots : SaveFile(i, FALSE)))

\* The variables of the parts have their types (workspace/Container.tsx).
PanelTypeOK == EditorTypeOK /\ KdbxTypeOK /\ VaultTypeOK /\ BulkTypeOK
=============================================================================
